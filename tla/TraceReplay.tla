---------------------------- MODULE TraceReplay ----------------------------
(***************************************************************************)
(* TraceReplayer.replay (runtime/trace_replay.py): one thread that replays *)
(* traces of object accesses against its DRAM buffer pool and its flash    *)
(* reader.  The pool is a SlotTable, the reader a ReadService; both        *)
(* outlive a replay, the metrics and the set "prefetched" do not.          *)
(*                                                                         *)
(* Between two reads the replay is one step per turn of its loops.  A read *)
(* is two: it is accepted, and it completes or raises before submit_read   *)
(* returns.  Layout entries are model values: build_layout gives the same  *)
(* object another offset and size whenever the trace around it changes, so *)
(* each replay may register any of them.                                   *)
(***************************************************************************)
EXTENDS SlotTable, Sequences, FiniteSets

CONSTANTS
    Entries,      \* flash layout entries
    Truncated,    \* the entries whose read comes back short
    Traces,       \* the traces that may be replayed: sequences of objects,
                  \* already sorted by step
    Prefetch,     \* replay's argument
    Lookahead,    \* config.lookahead_steps
    IOErrors,     \* whether os.pread may raise
    MaxReplays    \* bound: replays in a behaviour

ASSUME ReplayAssumption ==
    /\ Truncated \subseteq Entries
    /\ None \notin Entries
    /\ Traces \subseteq Seq(Objects)
    /\ Prefetch \in BOOLEAN
    /\ IOErrors \in BOOLEAN
    /\ Lookahead \in Nat
    /\ MaxReplays \in Nat

VARIABLES
    inflight,     \* the reader: reads in flight
    completions,  \* the reader: finished reads nobody took
    slots,        \* buffer_pool.slots
    layout_map,   \* the reader's layout: object id -> entry
    ordered,      \* the trace being replayed
    pc,           \* where replay() is
    i,            \* index of the event, from 1
    lookahead,    \* the variable of the prefetch loop
    prefetched,   \* objects submitted ahead of their event in this replay
    metrics,      \* ReplayMetrics: events, DRAM hits, flash reads, failures
    replays,      \* ghost: replays started
    carried,      \* ghost: slots already occupied when this replay started
    aheadBefore,  \* ghost: objects an earlier replay read ahead
    dropped       \* ghost: reads of this replay that found the pool full

Reader == INSTANCE ReadService
service == <<inflight, completions>>

vars == <<service, slots, layout_map, ordered, pc, i, lookahead, prefetched,
          metrics, replays, carried, aheadBefore, dropped>>
trace == <<layout_map, ordered, replays, carried, aheadBefore>>

NoMetrics == [total |-> 0, dram_hits |-> 0, flash_reads |-> 0, failures |-> 0]

Init ==
    /\ Reader!ServiceInit
    /\ slots = [s \in Slots |-> NewSlot]
    /\ layout_map = [o \in Objects |-> None]
    /\ ordered = <<>>
    /\ pc = "idle"
    /\ i = 1
    /\ lookahead = 1
    /\ prefetched = {}
    /\ metrics = NoMetrics
    /\ replays = 0
    /\ carried = {}
    /\ aheadBefore = {}
    /\ dropped = 0

\* replay() is called: the layout of the trace's objects is registered over
\* what earlier traces registered.
StartReplay(events, layout) ==
    /\ pc = "idle"
    /\ replays < MaxReplays
    /\ pc' = "event"
    /\ ordered' = events
    /\ layout_map' = [o \in Objects |->
                        IF \E j \in DOMAIN events : events[j] = o
                        THEN layout[o] ELSE layout_map[o]]
    /\ i' = 1
    /\ prefetched' = {}
    /\ metrics' = NoMetrics
    /\ replays' = replays + 1
    /\ carried' = Occupied(slots)
    /\ aheadBefore' = aheadBefore \cup prefetched
    /\ dropped' = 0
    /\ UNCHANGED <<service, slots, lookahead>>

\* After the last event the reader is closed, which leaves its queue alone.
FinishReplay ==
    /\ pc = "event"
    /\ i > Len(ordered)
    /\ pc' = "idle"
    /\ UNCHANGED <<service, slots, trace, i, lookahead, prefetched, metrics, dropped>>

\* The object is in DRAM: the access consumes its slot.
DramHit ==
    /\ pc = "event"
    /\ i <= Len(ordered)
    /\ \E s \in Slots :
          /\ First(s, Holding(slots, ordered[i]))
          /\ slots' = [slots EXCEPT ![s] = Reset(@)]
    /\ metrics' = [metrics EXCEPT !.total = @ + 1, !.dram_hits = @ + 1]
    /\ i' = i + 1
    /\ UNCHANGED <<service, trace, pc, lookahead, prefetched, dropped>>

\* A bug the runs must catch: the look-ahead begins at the event itself.
FromHere == 0
FirstAhead == 1

\* It is not: look ahead first, unless this is the last event.
DramMiss ==
    /\ pc = "event"
    /\ i <= Len(ordered)
    /\ Holding(slots, ordered[i]) = {}
    /\ metrics' = [metrics EXCEPT !.total = @ + 1]
    /\ pc' = IF Prefetch /\ i < Len(ordered) THEN "lookahead" ELSE "demand"
    /\ lookahead' = FirstAhead
    /\ UNCHANGED <<service, slots, trace, i, prefetched, dropped>>

Future == ordered[i + lookahead]
MoreAhead == lookahead <= Lookahead /\ i + lookahead <= Len(ordered)

EndLookahead ==
    /\ pc = "lookahead"
    /\ ~MoreAhead
    /\ pc' = "demand"
    /\ UNCHANGED <<service, slots, trace, i, lookahead, prefetched, metrics, dropped>>

\* Bugs the runs must catch: a loop that does not advance, "prefetched" not
\* kept, the layout entry of the current event used for a later one.
SameAgain == lookahead
NextAhead == lookahead + 1
NotRecorded(o) == prefetched
Recorded(o) == prefetched \cup {o}
EntryOfEvent(o) == layout_map[ordered[i]]
EntryOf(o) == layout_map[o]

\* Submitted before in this replay, or refused because a read of it that
\* raised is still in flight.
SkipFuture ==
    /\ pc = "lookahead"
    /\ MoreAhead
    /\ Future \in prefetched \/ Reader!InFlight(Future)
    /\ lookahead' = NextAhead
    /\ UNCHANGED <<service, slots, trace, pc, i, prefetched, metrics, dropped>>

SubmitFuture ==
    /\ pc = "lookahead"
    /\ MoreAhead
    /\ Future \notin prefetched
    /\ Reader!Accept(Future, EntryOf(Future))
    /\ pc' = "read_ahead"
    /\ UNCHANGED <<slots, trace, i, lookahead, prefetched, metrics, dropped>>

\* A bug the runs must catch: the data read ahead is put in the pool without
\* a look at what is there.
FutureReadStored ==
    /\ pc = "read_ahead"
    /\ \E read \in inflight : read.object = Future /\ Reader!Complete(read)
    /\ \E s \in Slots, d \in Deadlines :
          /\ First(s, FreeSlots(slots))
          /\ slots' = [slots EXCEPT ![s] = Assigned(@, Future, d)]
    /\ prefetched' = Recorded(Future)
    /\ lookahead' = NextAhead
    /\ pc' = "lookahead"
    /\ UNCHANGED <<trace, i, metrics, dropped>>

FutureRead ==
    /\ pc = "read_ahead"
    /\ \E read \in inflight : read.object = Future /\ Reader!Complete(read)
    /\ prefetched' = Recorded(Future)
    /\ lookahead' = NextAhead
    /\ pc' = "lookahead"
    /\ UNCHANGED <<slots, trace, i, metrics, dropped>>

\* A policy failure, and a bug the runs must catch: one that is not counted.
NoFailure == metrics
Failure == [metrics EXCEPT !.failures = @ + 1]

\* submit_read returns None: the object is in flight.
DemandRefused ==
    /\ pc = "demand"
    /\ Reader!InFlight(ordered[i])
    /\ metrics' = Failure
    /\ i' = i + 1
    /\ pc' = "event"
    /\ UNCHANGED <<service, slots, trace, lookahead, prefetched, dropped>>

SubmitDemand ==
    /\ pc = "demand"
    /\ Reader!Accept(ordered[i], layout_map[ordered[i]])
    /\ pc' = "read"
    /\ UNCHANGED <<slots, trace, i, lookahead, prefetched, metrics, dropped>>

DemandRead ==
    /\ pc = "read"
    /\ \E read \in inflight : read.object = ordered[i] /\ Reader!Complete(read)
    /\ pc' = "wait"
    /\ UNCHANGED <<slots, trace, i, lookahead, prefetched, metrics, dropped>>

\* os.pread raises in submit_read: the exception leaves replay(), the object
\* stays in flight and the reader open.
ReadRaises ==
    /\ pc \in {"read_ahead", "read"}
    /\ IOErrors
    /\ pc' = "idle"
    /\ UNCHANGED <<service, slots, trace, i, lookahead, prefetched, metrics, dropped>>

\* A bug the runs must catch: the read data is dropped when the first slot
\* is taken, whatever the others are.
StoreInFirst(completion) ==
    \/ \E s \in Slots, d \in Deadlines :
          /\ First(s, Slots)
          /\ slots[s].state = "FREE"
          /\ slots' = [slots EXCEPT ![s] = Assigned(@, completion.object, d)]
    \/ /\ \A s \in Slots : First(s, Slots) => slots[s].state # "FREE"
       /\ UNCHANGED slots

\* The read data goes into a free slot; without one it is dropped.
Store(completion) ==
    \/ \E s \in Slots, d \in Deadlines :
          /\ First(s, FreeSlots(slots))
          /\ slots' = [slots EXCEPT ![s] = Assigned(@, completion.object, d)]
    \/ /\ FreeSlots(slots) = {}
       /\ UNCHANGED slots

\* A bug the runs must catch: the wait finds a completion and leaves it
\* queued.
Looked(n) == Reader!Oldest(n, ordered[i]) /\ UNCHANGED service
Taken(n) == Reader!TakeOldest(ordered[i], n)

\* wait_completion finds the read just queued, or an older one of the same
\* object that nobody took, and never waits.
Demanded ==
    /\ pc = "wait"
    /\ \E n \in DOMAIN completions :
          /\ Taken(n)
          /\ \/ /\ completions[n].status = "COMPLETED"
                /\ metrics' = [metrics EXCEPT !.flash_reads = @ + 1]
                /\ Store(completions[n])
                /\ dropped' = dropped + IF FreeSlots(slots) = {} THEN 1 ELSE 0
             \/ /\ completions[n].status = "FAILED"
                /\ metrics' = Failure
                /\ UNCHANGED <<slots, dropped>>
    /\ i' = i + 1
    /\ pc' = "event"
    /\ UNCHANGED <<trace, lookahead, prefetched>>

ReplayStep ==
    \/ FinishReplay \/ DramHit \/ DramMiss
    \/ EndLookahead \/ SkipFuture \/ SubmitFuture \/ FutureRead
    \/ DemandRefused \/ SubmitDemand \/ DemandRead \/ Demanded
    \/ ReadRaises

Next ==
    \/ \E events \in Traces, layout \in [Objects -> Entries] : StartReplay(events, layout)
    \/ ReplayStep

Spec == Init /\ [][Next]_vars

\* replay() runs to its end once called; nobody has to call it again.
FairSpec == Spec /\ WF_vars(ReplayStep)

----------------------------------------------------------------------------
(* Type invariant: pool, reader, loop variables and metrics have their     *)
(* types.                                                                  *)
TypeOK ==
    /\ inflight \in SUBSET Reader!Read
    /\ completions \in Seq(Reader!Completion)
    /\ slots \in [Slots -> BufferSlot]
    /\ layout_map \in [Objects -> Entries \cup {None}]
    /\ ordered \in Seq(Objects)
    /\ pc \in {"idle", "event", "lookahead", "read_ahead", "demand", "read", "wait"}
    /\ i \in 1 .. Len(ordered) + 1
    /\ lookahead \in 1 .. Lookahead + 1
    /\ prefetched \in SUBSET Objects
    /\ metrics \in [total : Nat, dram_hits : Nat, flash_reads : Nat, failures : Nat]
    /\ replays \in 0 .. MaxReplays
    /\ carried \in SUBSET Slots
    /\ aheadBefore \in SUBSET Objects
    /\ dropped \in Nat

(* No object ever has two slots: replay allocates only for an object it    *)
(* did not find, and nothing it does between the two stores that object.   *)
NoDuplicateResidency ==
    \A s, t \in Occupied(slots) : slots[s].object = slots[t].object => s = t

\* The event begun and not ended: the miss being handled, or the one that
\* ended the replay with an exception.
Unfinished == IF pc = "event" \/ i > Len(ordered) THEN 0 ELSE 1

(* The events before the current one are each a DRAM hit, a flash read or  *)
(* a policy failure, and exactly one of them; the current one is counted   *)
(* in the total when it has begun.  After an exception the metrics are     *)
(* short of exactly the event whose read raised; an object it left in      *)
(* flight makes later demand reads policy failures, not silent losses.     *)
EventsAccounted ==
    /\ metrics.dram_hits + metrics.flash_reads + metrics.failures = i - 1
    /\ metrics.total = i - 1 + Unfinished

(* A DRAM hit is paid for, and nothing read is lost unseen: what flash     *)
(* reads of this replay brought, with the slots an earlier one left        *)
(* occupied, was used up by a hit, is in the pool still, or was dropped    *)
(* because at that moment no slot was free.                                *)
HitsArePaidFor ==
    metrics.dram_hits + Cardinality(Occupied(slots)) + dropped
        = metrics.flash_reads + Cardinality(carried)

\* The completions of o nobody took.
Residue(o) == Cardinality({n \in DOMAIN completions : completions[n].object = o})

(* The queue holds no more than one completion of an object per replay     *)
(* (the look-ahead read nobody waits for), and one more while a demand     *)
(* read waits for its own.                                                 *)
ResidueBounded ==
    \A o \in Objects :
        Residue(o) <= replays + IF pc = "wait" /\ ordered[i] = o THEN 1 ELSE 0

(* The completion a demand read takes was made under the layout of the     *)
(* replay under way, so its size and status are those of the event, also   *)
(* when it is that of a read ahead of this replay, and whatever layouts    *)
(* earlier replays had: the exception is an object an earlier replay read  *)
(* ahead, whose old completion may still be queued.                        *)
OwnLayout ==
    pc = "wait" /\ ordered[i] \notin aheadBefore =>
        \A n \in DOMAIN completions :
            Reader!Oldest(n, ordered[i]) => completions[n].entry = layout_map[ordered[i]]

(* As the documents have it: what prefetch read is in the DRAM pool when   *)
(* its event comes (the read was not cut short, and a slot is free).       *)
PrefetchServesDemand ==
    (/\ pc = "event" /\ i <= Len(ordered)
     /\ ordered[i] \in prefetched
     /\ \A j \in 1 .. i - 1 : ordered[j] # ordered[i]
     /\ layout_map[ordered[i]] \notin Truncated
     /\ FreeSlots(slots) # {})
        => Holding(slots, ordered[i]) # {}

(* A replay that is called ends: it never waits for a completion that does *)
(* not come, and its loops are bounded.                                    *)
ReplayEnds == pc # "idle" ~> pc = "idle"

============================================================================
