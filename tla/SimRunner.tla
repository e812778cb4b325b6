----------------------------- MODULE SimRunner ------------------------------
(***************************************************************************)
(* run_trace (simulator/runner.py): one pass over a trace through the      *)
(* SRAM and DRAM tiers, with prefetches from flash.  Every event counts    *)
(* itself and plans its prefetches (Plan), stages them one by one in the   *)
(* order of a Python set (Stage), and only then looks its own object up    *)
(* (SramHit, DramHit, FlashRead).  The tiers belong to the configuration,  *)
(* which scripts/run_sim.py passes to every run it makes: they survive a   *)
(* run, the metrics and the prefetch records do not.                       *)
(*                                                                         *)
(* A simulated flash read is submitted and completed within one iteration, *)
(* so flash.in_flight_count is 0 whenever the runner looks at it and 1     *)
(* while submit_read computes the transfer time.                           *)
(* Latencies and energy are left out, but for the step a prefetch lands.   *)
(***************************************************************************)
EXTENDS MemoryTier, PrefetchPolicy

CONSTANTS
    SramCapacity, DramCapacity,     \* capacity_bytes of the two tiers
    Matrix,          \* the runs on one configuration: for the first, the second
                     \* and so on, the [trace, mode, policy] it may have
    Streams,         \* the traces of one event a step, numbered without a gap
    Lookahead,       \* lookahead_steps
    Warmup,          \* warmup_steps
    UsefulWindow,    \* useful_prefetch_window_steps
    QueueDepth,      \* flash.queue_depth
    ReadLatency,     \* flash.read_latency_us
    FlashRate,       \* bytes per microsecond of a sequential flash read
    ComputeTime      \* compute_time_us

AllModes == {"ram_emulation", "stream_to_scratchpad", "hybrid"}

\* A trace is sorted by step.
Events == [step : Nat, object : Objects, critical : BOOLEAN]
IsTrace(t) ==
    /\ t \in Seq(Events)
    /\ \A i, j \in DOMAIN t : i < j => t[i].step <= t[j].step

ASSUME SimAssumption ==
    /\ Objects \subseteq [kind : Kinds, layer : Nat, num : Nat]
    /\ {SramCapacity, DramCapacity, Lookahead, Warmup, UsefulWindow} \subseteq Nat
    /\ {QueueDepth, ReadLatency, FlashRate, ComputeTime} \subseteq Nat \ {0}
    /\ Matrix \in Seq(SUBSET [trace : Seq(Events), mode : AllModes, policy : Policies])
    /\ \A r \in DOMAIN Matrix : \A run \in Matrix[r] : IsTrace(run.trace)

\* The steps of a stream are 0, 1, 2 and so on.
ASSUME StreamsAssumption == \A t \in Streams : \A i \in DOMAIN t : t[i].step = i - 1

VARIABLES
    sram, dram,    \* the tiers
    trace, mode, policy,    \* the arguments of the run under way
    pos,           \* the event being handled
    phase,         \* "idle", "plan", "stage"
    pending,       \* candidates the prefetch loop has still to handle
    issued,        \* prefetched_issue_step
    useful, wasted,         \* already_useful, already_wasted
    metrics,       \* the counters of StreamingMetrics
    history,       \* LRUPolicy.history: record_access has no caller
    runs           \* runs started

vars == <<sram, dram, trace, mode, policy, pos, phase, pending, issued,
          useful, wasted, metrics, history, runs>>

Counters ==
    {"total_events", "sram_hits", "dram_hits", "random_flash_reads",
     "sequential_flash_reads", "prefetched_objects", "useful_prefetches",
     "wasted_prefetches", "late_prefetches", "sync_flash_policy_failures",
     "dram_evictions", "sram_promotions"}

NoMetrics == [c \in Counters |-> 0]

Init ==
    /\ sram = EmptyTier
    /\ dram = EmptyTier
    /\ trace = <<>>
    /\ mode = "ram_emulation"
    /\ policy = "no_prefetch"
    /\ pos = 1
    /\ phase = "idle"
    /\ pending = {}
    /\ issued = <<>>
    /\ useful = {}
    /\ wasted = {}
    /\ metrics = NoMetrics
    /\ history = <<>>
    /\ runs = 0

RunTrace ==
    /\ phase = "idle"
    /\ runs < Len(Matrix)
    /\ \E run \in Matrix[runs + 1] :
          /\ trace' = run.trace
          /\ mode' = run.mode
          /\ policy' = run.policy
    /\ pos' = 1
    /\ phase' = "plan"
    /\ issued' = <<>>
    /\ useful' = {}
    /\ wasted' = {}
    /\ metrics' = NoMetrics
    /\ runs' = runs + 1
    /\ UNCHANGED <<sram, dram, pending, history>>

-----------------------------------------------------------------------------
(* The prefetch plan of an event *)

Event == trace[pos]
Prefetched == DOMAIN issued

\* future_by_step: of the events of one step only the last can be seen.
LastOfStep(i) == \A j \in DOMAIN trace : trace[j].step = trace[i].step => j <= i

\* A bug the runs must catch: a window that begins behind the next step.
AheadOfNext(i) == trace[i].step > Event.step + 1
Ahead(i) == trace[i].step > Event.step

\* The window is cut at len(ordered_events), a count compared with steps.
Window ==
    {trace[i].object : i \in {j \in DOMAIN trace :
        /\ Ahead(j) /\ LastOfStep(j)
        /\ trace[j].step <= Event.step + Lookahead
        /\ trace[j].step < Len(trace)}}

AllowPrefetch ==
    \/ mode = "stream_to_scratchpad"
    \/ mode = "hybrid" /\ Event.step >= Warmup

\* A bug the runs must catch: objects prefetched before are planned again.
CandidatesAgain == Plan(policy, Event.object, Window, history)

\* The plan, without what this run has prefetched before.
Candidates == Plan(policy, Event.object, Window, history) \ Prefetched

PlanEvent ==
    /\ phase = "plan"
    /\ pos \in DOMAIN trace
    /\ pending' = IF AllowPrefetch THEN Candidates ELSE {}
    /\ metrics' = [metrics EXCEPT !["total_events"] = @ + 1]
    /\ phase' = "stage"
    /\ UNCHANGED <<sram, dram, trace, mode, policy, pos, issued, useful,
                   wasted, history, runs>>

-----------------------------------------------------------------------------
(* Making room *)

\* The prefetches that evicting the objects of S turns into waste.
Squandered(S) == (S \intersect Prefetched) \ (useful \union wasted)

\* What _make_room adds to the metrics when it evicts S.
Charged(m, S) ==
    [m EXCEPT !["dram_evictions"] = @ + Cardinality(S),
              !["wasted_prefetches"] = @ + Cardinality(Squandered(S))]

\* int(submit_read(...) / compute_time_us), in whole numbers.
StepsToLand(o) ==
    (ReadLatency * FlashRate * (QueueDepth + 1) + Bytes[o] * QueueDepth)
        \div (QueueDepth * FlashRate * ComputeTime)

ReadyStep(o) == issued[o] + StepsToLand(o)

\* One turn of the prefetch loop.  When no room can be made the candidate is
\* skipped, and the tier has been emptied for it.
Prefetch(o) ==
    LET gone == Evicted(dram, Bytes[o], DramCapacity)
        room == MakesRoom(dram, Bytes[o], DramCapacity)
        left == MakeRoom(dram, Bytes[o], DramCapacity)
    IN  /\ phase = "stage"
        /\ o \in pending
        /\ pending' = pending \ {o}
        /\ wasted' = wasted \union Squandered(gone)
        /\ IF room
             THEN /\ dram' = Add(left, o)
                  /\ issued' = [p \in Prefetched \union {o} |->
                                   IF p = o THEN Event.step ELSE issued[p]]
                  /\ metrics' = [Charged(metrics, gone) EXCEPT
                                   !["prefetched_objects"] = @ + 1,
                                   !["sequential_flash_reads"] = @ + 1]
             ELSE /\ dram' = left
                  /\ metrics' = Charged(metrics, gone)
                  /\ UNCHANGED issued
        /\ UNCHANGED <<sram, trace, mode, policy, pos, phase, useful,
                       history, runs>>

-----------------------------------------------------------------------------
(* The event's own access *)

\* The prefetch loop is done and the runner looks the event's object up.
Looking ==
    /\ phase = "stage"
    /\ pending = {}

NextEvent ==
    /\ pos' = pos + 1
    /\ phase' = "plan"
    /\ UNCHANGED <<trace, mode, policy, pending, issued, history, runs>>

SramHit ==
    /\ Looking
    /\ Event.object \in sram.resident
    /\ sram' = Touch(sram, Event.object)
    /\ metrics' = [metrics EXCEPT !["sram_hits"] = @ + 1]
    /\ NextEvent
    /\ UNCHANGED <<dram, useful, wasted>>

\* The first DRAM hit of a prefetched object, that settles whether it was
\* in time to be useful or so early that it counts as waste.
Settles(o) == o \in Prefetched \ useful
InTime(o) == Event.step - issued[o] <= UsefulWindow

Settled(m, o) ==
    IF ~Settles(o) THEN m
    ELSE IF InTime(o) THEN [m EXCEPT !["useful_prefetches"] = @ + 1]
    ELSE [m EXCEPT !["wasted_prefetches"] = @ + 1]

DramHit ==
    LET o    == Event.object
        gone == Evicted(sram, Bytes[o], SramCapacity)
        left == MakeRoom(sram, Bytes[o], SramCapacity)
        room == MakesRoom(sram, Bytes[o], SramCapacity)
        hit  == [Charged(metrics, gone) EXCEPT
                   !["dram_hits"] = @ + 1,
                   !["sram_promotions"] = @ + (IF room THEN 1 ELSE 0)]
    IN  /\ Looking
        /\ o \notin sram.resident
        /\ o \in dram.resident
        /\ dram' = Touch(dram, o)
        /\ sram' = IF room THEN Add(left, o) ELSE left
        /\ wasted' = wasted \union Squandered(gone)
        /\ useful' = useful \union (IF Settles(o) THEN {o} ELSE {})
        /\ metrics' = Settled(hit, o)
        /\ NextEvent

\* A bug the runs must catch: a demand read counted as a sequential one.
SequentialCounter == "sequential_flash_reads"
ReadCounter == "random_flash_reads"

IsLate(o) == o \in Prefetched /\ ReadyStep(o) > Event.step

\* The counters of a read on the event's own path.
CountedRead(m, o) ==
    [m EXCEPT ![ReadCounter] = @ + 1,
              !["late_prefetches"] = @ + (IF IsLate(o) THEN 1 ELSE 0),
              !["sync_flash_policy_failures"] = @ + (IF Event.critical THEN 1 ELSE 0)]

FlashRead ==
    LET o    == Event.object
        gone == Evicted(dram, Bytes[o], DramCapacity)
        left == MakeRoom(dram, Bytes[o], DramCapacity)
    IN  /\ Looking
        /\ o \notin sram.resident \union dram.resident
        /\ dram' = IF MakesRoom(dram, Bytes[o], DramCapacity)
                     THEN Add(left, o) ELSE left
        /\ wasted' = wasted \union Squandered(gone)
        /\ metrics' = CountedRead(Charged(metrics, gone), o)
        /\ NextEvent
        /\ UNCHANGED <<sram, useful>>

\* A bug the runs must catch: the unused prefetches are not counted.
UnsettledForgotten == {}

\* Prefetches that were neither used nor evicted: waste, counted at the end.
Unsettled == Prefetched \ (useful \union wasted)

EndRun ==
    /\ phase = "plan"
    /\ pos \notin DOMAIN trace
    /\ metrics' = [metrics EXCEPT
                     !["wasted_prefetches"] = @ + Cardinality(Unsettled)]
    /\ phase' = "idle"
    /\ UNCHANGED <<sram, dram, trace, mode, policy, pos, pending, issued,
                   useful, wasted, history, runs>>

Next ==
    \/ RunTrace
    \/ PlanEvent
    \/ \E o \in Objects : Prefetch(o)
    \/ SramHit
    \/ DramHit
    \/ FlashRead
    \/ EndRun

Spec == Init /\ [][Next]_vars

-----------------------------------------------------------------------------
(* Properties *)

\* The variables have the values the code can give them.
TypeOK ==
    /\ sram \in Tier
    /\ dram \in Tier
    /\ runs \in 0 .. Len(Matrix)
    /\ runs > 0 => [trace |-> trace, mode |-> mode, policy |-> policy] \in Matrix[runs]
    /\ pos \in 1 .. Len(trace) + 1
    /\ phase \in {"idle", "plan", "stage"}
    /\ phase = "stage" => pos \in DOMAIN trace
    /\ pending \subseteq Objects \ Prefetched
    /\ Prefetched \subseteq Objects
    /\ \A o \in Prefetched : issued[o] \in Nat
    /\ useful \subseteq Prefetched
    /\ wasted \subseteq Prefetched
    /\ metrics \in [Counters -> Nat]
    /\ history = <<>>

\* touch() calls deque.remove() on the id it moves, which raises when the id
\* is not there: whatever is resident has an entry in the eviction order,
\* however many stale and double entries prefetches and evictions left.
TouchFindsEntry == Ordered(sram) /\ Ordered(dram)

\* The SRAM tier is charged for exactly what it holds and has one entry in
\* its order for each object: a promotion happens only on an SRAM miss, so
\* the unchecked add() is never called for a resident object.
SramExact ==
    /\ sram.bytes = Total(sram.resident)
    /\ Len(sram.order) = Cardinality(sram.resident)

\* Neither tier is ever charged for more than its capacity, although add()
\* checks nothing: every caller makes room first.
WithinCapacity ==
    /\ sram.bytes <= SramCapacity
    /\ dram.bytes <= DramCapacity

\* What _make_room would do now, for an object of any size, popping one id at
\* a time, is what the simulator takes for the whole call: where it stops, what
\* it has evicted and credited, and its answer, on tiers with double and stale
\* entries and more bytes charged than there are.
RoomAsInLoop(tier, size, capacity) ==
    LET end == RoomLoop(tier, size, capacity)
    IN  /\ end.tier = MakeRoom(tier, size, capacity)
        /\ MakesRoom(tier, size, capacity)
              <=> end.freed >= Shortfall(tier, size, capacity)
LoopAsStated ==
    \A size \in Range(Bytes) :
        /\ RoomAsInLoop(sram, size, SramCapacity)
        /\ RoomAsInLoop(dram, size, DramCapacity)

\* SRAM evicts in LRU order: in the first run, from cold tiers, its order is
\* that of the last accesses of its objects.
LastAccess(o) ==
    Max({0} \union {i \in DOMAIN trace : i < pos /\ trace[i].object = o})
SramIsLru ==
    runs = 1 => \A i, j \in DOMAIN sram.order :
        i < j => LastAccess(sram.order[i]) < LastAccess(sram.order[j])

\* The bytes DRAM is charged for and does not hold come from prefetches of
\* objects that a demand read had already staged, at most once for each
\* object of a run, so in the first run the drift never passes the size of
\* the prefetches.
DramDrift == dram.bytes - Total(dram.resident)
DriftIsPrefetched ==
    /\ DramDrift >= 0
    /\ runs = 1 => DramDrift <= Total(Prefetched)

\* In a run that prefetches everything it sees coming, over a trace of one
\* event a step, the only flash reads on the critical path are those of the
\* first event and of objects that were prefetched and evicted again; unless
\* the bytes DRAM lost track of leave no room for the object.
MissesWerePrefetched ==
    (/\ trace \in Streams
     /\ mode = "stream_to_scratchpad" /\ policy \in {"oracle", "predictive"}
     /\ Looking /\ pos > 1
     /\ Event.object \notin sram.resident \union dram.resident) =>
        \/ Event.object \in Prefetched
        \/ Bytes[Event.object] > DramCapacity - DramDrift

\* Every event of a finished run was served in exactly one way, every
\* sequential read was a prefetch, and only flash reads are policy failures.
EventsPartition ==
    phase = "idle" /\ runs > 0 =>
        /\ metrics["total_events"] = Len(trace)
        /\ metrics["total_events"] =
              metrics["sram_hits"] + metrics["dram_hits"]
                  + metrics["random_flash_reads"]
        /\ metrics["sequential_flash_reads"] = metrics["prefetched_objects"]
        /\ metrics["sync_flash_policy_failures"] <=
              metrics["random_flash_reads"]

\* At the end of a run every prefetch has been settled at least once, and at
\* most twice: evicted, fetched again on demand and then hit in DRAM.
PrefetchesSettled ==
    phase = "idle" =>
        /\ metrics["prefetched_objects"] = Cardinality(Prefetched)
        /\ metrics["useful_prefetches"] + metrics["wasted_prefetches"]
              \in Cardinality(Prefetched) .. 2 * Cardinality(Prefetched)

-----------------------------------------------------------------------------
(* Claims the code does not keep *)

\* tests/test_runner.py: a prefetch is settled once, so that useful and wasted
\* prefetches are no more than the prefetches.
SettledAtMostOnce ==
    phase = "idle" =>
        metrics["useful_prefetches"] + metrics["wasted_prefetches"]
            <= metrics["prefetched_objects"]

\* RELEASE_NOTES_v0.2.0.md: room is made "via LRU".  The order says when an
\* object was last added or touched by its last entry, and when it is evicted
\* by its first: these should put the objects of DRAM in the same order.
Entries(tier, o) == {i \in DOMAIN tier.order : tier.order[i] = o}
DramEvictsLru ==
    \A o, p \in dram.resident :
        Min(Entries(dram, o)) < Min(Entries(dram, p)) =>
            Max(Entries(dram, o)) < Max(Entries(dram, p))
=============================================================================
