# A verification of the Flash-SRAM-DRAM inference fabric

TLA+ models of the runtime and the simulator in this repository, their TLC
configurations, and theorems about them that TLAPS checks. Paths below are
relative to the repository; `tlc -config X.cfg M` runs a configuration and
`tlapm M.tla` checks a module's proofs.

## 1. The system

The repository streams model weights and KV blocks from flash through DRAM to
SRAM. It has two halves that share only the idea: a *runtime*, with threads,
files and buffers, and a *simulator*, which replays traces against three
modelled memories. Around them are offline tools and scripts.

| part | source | state | operations | who calls it |
|---|---|---|---|---|
| DRAMBufferPool | `runtime/buffer_pool.py` | list of slots: state, object, size, deadline | allocate, find_by_object, release, evict_one; mark_ready / consumed / evictable on a slot | TraceReplayer, anyone with a slot |
| AsyncFlashReader | `runtime/flash_io.py` | `_initialized`, `_fd`, `_fixed_buffers`, `layout_map`; under a lock `_in_flight`, `_cq` | initialize, close, register_layout, submit_read, poll_completions, wait_completion | TraceReplayer, LlamaBridge, any thread |
| TraceReplayer | `runtime/trace_replay.py` | a pool and a reader that outlive a replay; metrics of the replay | build_layout, replay | user code |
| LlamaBridge | `runtime/llama_bridge.py` | a reader, a KV layout, counters, FFI handles | register_kv_layout, kv_load, maybe_prefetch, inference calls | user code |
| tiers | `simulator/tiers.py` | dict of objects, eviction order, bytes; flash reads in flight | add, remove, touch, evict_one, transfer times | runner |
| runner, metrics | `simulator/runner.py`, `metrics.py` | prefetch records and counters of a run; tiers that outlive it | run_trace, _make_room | scripts |
| policies | `simulator/policies/` | LRUPolicy's history | plan | runner |
| workloads | `simulator/workloads.py` | none | generators of traces | scripts, tests |
| tools | `tools/` | none | linearize, pack, analyze | command line |
| scripts, diagrams | `scripts/`, `diagrams/` | none | sweeps, cost model, SVG | command line |

What is hard in each, and what makes it right:

* **Reader.** The only part with threads. `_in_flight` and `_cq` are guarded,
  `_initialized`, `_fd` and the buffers are not. "Deferred" reads are done
  inside submit_read, by the submitting thread, outside the lock. Right means:
  one read of an object at a time; each request reaches exactly one consumer,
  with its own final status; data stays put until then; the descriptor is
  usable when it is used; a failure gives the object back.
* **Pool.** No lock, but handles that outlive what they were handed out for.
  Right means: a slot changes owner only through FREE, a lookup sees the only
  slot of an object, eviction spares what is being read.
* **Replayer.** Carries a pool, a completion queue and in-flight reads from one
  replay to the next, also when a replay ends in an exception. Right means:
  each event is accounted for once, what piles up is bounded, a demand read
  looks at its own completion.
* **Bridge.** Adds to the reader who takes a completion: a load waits for one of
  its object, a prefetch for none. Right means: a load that waits is served, with
  bytes that are still where the address it returns points.
* **Simulator.** One thread, but prefetch, promotion, eviction and a set of
  flags about each prefetch interact over many events, and the tiers over many
  runs. Right means: bytes match contents, a prefetch is settled once, each
  event has one outcome, and what could be prefetched was.
* **Workloads.** Loops with modular arithmetic and samples. Right means what the
  runner relies on: one event a step where it looks ahead by steps.
* **Tools.** Merging of groups in the order they are met, offsets computed by one
  tool for the file another writes, a state variable of a scan that is only set
  at some events.

There is no persistent state and no network, so no crash recovery and no lost
messages. `PROJECT.json` lists every hazard with its line and the properties
aimed at it.

## 2. The modules

```
SlotTable  <-- BufferPool   <-- BufferPoolProofs, MCBufferPool
    ^
    +--------- TraceReplay  <-- TraceReplayProofs, MCTraceReplay
                   | INSTANCE
               ReadService
                   ^ implemented by (INSTANCE ... WITH)
               FlashReader  <-- FlashReaderProofs <-- FlashReaderRefinement
                   ^        <-- MCFlashReader
               LlamaBridge  <-- MCLlamaBridge
                            <-- LlamaBridgeProofs (with FlashReaderRefinement)

MemoryTier, PrefetchPolicy  <-- SimRunner  <-- SimRunnerProofs
                                    ^
                        Workloads   |   <-- MCSimRunner

ReadPattern  <-- FlashLayout  <-- FlashLayoutProofs, MCFlashLayout

DataLemmas  <-- the proof modules of all components but the pool
```

**SlotTable** has the slot record, each BufferSlot method as an operator, and
each scan of the pool as the set of matching slots (the code takes the `First`).

**BufferPool** adds the pool and its callers. `handle[o]` is the slot a caller
last got for o; nothing takes it back when the slot is released or reused, as in
the code. Each behaviour has callers of one kind, `checked` says which: FALSE
allows any calls; TRUE is a caller that looks an object up before it allocates,
as `TraceReplayer.replay` does, and uses handles only while they are current.
`checked` is a ghost, and so are `arrived` and `done`: the objects that callers
reported ready, and those they reported consumed or evictable. EvictionOrder is
stated with these, not with the states that evict_one looks at.

**ReadService** is the abstract specification of the reader: a set of reads in
flight and a queue of completions. No threads, lock, descriptor or buffer.

**FlashReader** is `AsyncFlashReader` under any number of threads. A frame per
thread holds the program counter and locals of its call. A locked block is one
step. Each unlocked access to a shared attribute is a step: the test of
`_initialized`, the open, the buffers, the final assignment; the test of `_fd`,
its second load, the pread, the publishing; in close the flag, the test, the
os.close, the assignment. Joined steps: the two tests of `_initialized` on the
way into initialize; `os.open` and the store of `_fd`; the lookup of the layout
entry and the start of the call; the pread, the copy to the buffer and the
status. `os.open` returns the lowest free descriptor, so a number closed may
come back as another descriptor. A layout entry is a model value and
`Truncated` are those whose read is short. A buffer holds the id of the request
that wrote it last; the ghost `others` has, of each request, those in flight when it
was accepted, which DataInPlace needs because they may write after it.

**LlamaBridge** EXTENDS FlashReader: each step a bridge call takes inside the
reader is the reader's own action, conjoined with what the bridge remembers.
`job` of a thread is the call it is in, what is left of its list of ids, and what
submit_read answered; `metrics` are the counters. An exception of the reader
leaves the bridge's call too, with its counters as they are. A counter goes up in
one step, because CPython does not switch threads inside an attribute's `+=` of
this form. close() is called when no call is under way (a close racing with a read
is the subject of reader_racing and reader_close), and nobody else waits or polls
on the bridge's reader. The five seconds of wait_completion never pass: that this
assumption is harmless is what WaitersAreServed shows.

**TraceReplay** composes SlotTable and ReadService. A turn of a loop is a step;
a read is two, accepted and then completed or raised, so that a raise leaves it
in flight. It uses ReadService rather than FlashReader because a replay is
single-threaded and opens and closes the device itself; FlashReader is shown to
implement ReadService, so the composition loses nothing that a caller can see.
Which entry an object gets depends on the whole trace (`build_layout` packs
objects by id), so a replay may register any. `initialize` failing changes
nothing and is left out. The ghosts `carried`, `aheadBefore` and `dropped` are the
slots that were in use when the replay began, the objects that earlier replays read
ahead, and the number of reads that found no slot free.

**MemoryTier** has the tier as a value: `resident`, `order` (with double and
stale ids), `bytes`. `_make_room` computes what is missing once (`Shortfall`) and
pops ids until the sizes of what it evicted (`Freed`) add up to that; it does not
look at the tier's bytes again. What it evicts is the resident part of a prefix of
`order`, and `PopCount` is the length of the shortest that is `Enough`, so the loop
needs no recursion. `MakesRoom`, what it returns, says that there is such a prefix;
that the object then fits is a property (WithinCapacity), not a definition.
`RoomLoop` is the loop as it is written, an id of the order a turn; LoopAsStated
compares the two on every tier the runner gets into.

**PrefetchPolicy** has the set each policy plans; objects are the numbers parsed
out of their ids. Oracle and predictive both plan the whole window: the scores
of the second only order a list that run_trace turns into a set.

**SimRunner** is `run_trace`: `PlanEvent`, then `Prefetch` for each candidate in
any order (a Python set of strings), then one of `SramHit`, `DramHit`,
`FlashRead`; `EndRun` settles what is left. `RunTrace` starts another run on the
same tiers, as `scripts/run_sim.py` does. Latency and energy are left out, but
`StepsToLand`, which gives the ready step, is the integer form of the code's
formula with the one read in flight that submit_read counts. What a
configuration goes through is `Matrix`: for the first run, the second and so on,
the set of [trace, mode, policy] it may have.

**Workloads** has the six generators of `simulator/workloads.py` as functions of
their sizes. The two that draw samples are sets, of the traces for every draw. The
list of accesses of nested loops is `ForEach` in `ForEach`, numbered afterwards,
because every generator counts one step for each access. For equal arguments the
deterministic ones give the sequences the Python code gives. MCSimRunner feeds
them, small, to SimRunner beside all the traces over three objects.

**FlashLayout** is the offline pipeline: `linearize` by either strategy, then
`pack` of its bundles or of any other list, a step per turn of a loop. A bundle is
a set of objects. The layers are put in the order of their ids by `InOrder`, the
bijection that sorts, and a layer stands for the place of its bundle's id in that
order (with three digits, that of the numbers up to 999). The two header sizes are
the code's: pack declares 56 bytes and writes 68. **ReadPattern** is
`analyze_trace`, a pure function: a fold over the events, with a reference
definition (`Transitions`, the set of the accesses that are to be counted) beside
it; FlashLayout applies it to its traces in one step.

Definitions under "a bug the runs must catch" are deliberate errors, most of them
one-line helpers beside the right one.
`PROJECT.json` pairs each property with one that it must detect.

## 3. The runs

All bounds are constants: `MaxRequests` (guard of SubmitRead), `MaxBatches`
(guard of Close), `MaxReplays`, the length of `Matrix`; in the bridge also
`MaxFuture` (length of a list to prefetch) and `MaxDramLoads` (no load starts after
that many were answered from DRAM).
`Promised` counts the reads that calls under
way may still submit, so that MaxRequests stops new calls and never one half done.
`CHECK_DEADLOCK FALSE` stands in the replay, simulator and layout
configurations only, where the system stops at its last replay, run or bundle.

| run | instance | shows |
|---|---|---|
| pool | 2 slots, 3 objects (symmetric); any calls, and checked callers | reuse through FREE; for checked callers the order of eviction, no doubled or wrongly ready slot |
| reader_racing | 3 threads (symmetric), 2 requests for 2 objects in one buffer, I/O errors, short reads, closes | exclusion, accounting, order per object, no stale data in a shared buffer, refinement of ReadService, which includes final statuses |
| bridge | 2 threads racing through the first initialize, 2 objects in one buffer, 3 reads, lists of up to 3 ids cut to 2, I/O errors, quiet closes, fair | every call ends; each load finds a completion, the queue is what the prefetches left, no load returns stale bytes, descriptors are open; no deadlock |
| replay_many | 2 replays of any 3 events, 3 objects, 2 slots, I/O errors, fair | replays end; events and reads accounted for, also after an exception; bounded residue; own layout, but for what an earlier replay read ahead |
| sim | sizes 1 to 3, SRAM of 2, DRAM of 3. First run: every trace of 5 events on 3 objects of 2 kinds and layers, 3 modes, 6 policies, and small traces of all generators. Second run on the same tiers: 3 events on 3 blocks, alone or two in a step | exact SRAM, capacities, the room loop id by id, touch never raises, LRU in SRAM, drift bounded, misses explained, events and prefetches settled |
| layout | every trace of 4 accesses to 2 objects or none, in 2 layers, 3 strategies; 10 lists from elsewhere; the same traces analysed | nobody lost, mates together, payloads in order behind the table, transitions counted |

*Why these bounds are enough to be interesting.* Three threads are what it takes
for a submitter, a closer and a re-initialiser to interleave; two objects on one
buffer for an overwrite; two requests of an object for a stale completion. Two
slots for three objects make a pool that fills up and could hold one object
twice; a second replay meets the residue of the first. In the simulator neither
tier holds all three objects, so that prefetch, eviction, refetch, hit and
promotion of one object fit in five events. Four accesses are what it takes for a
co-access group to meet two bundles at once. The pack alignment of the model is
small, but like the default it is a multiple of a table row. Two loads and a
prefetch of one object are the fewest that could take each other's completion in
the bridge. The generators run with two to nine tokens, enough for each of their
branches: cold blocks, old context, a gap between the chunks and the tokens.
Objects are symmetric in pool and threads in reader_racing, where all have the same
rights; the runs with a liveness property use no symmetry. In the runs of the reader and
the bridge an object is registered once (`Relayout`); that its layout may change under a
reader is covered by the theorems, and in replay_many by each replay's own layout.

*Fairness.* `LlamaBridge!FairBridgeSpec` has weak fairness of the steps of a call per
thread: a thread inside a call is scheduled again, pread returns and the lock is let
go. Nobody has to make a call, or to close. CallsEnd rests on it, and on no timeout:
a load that waits is served although prefetches and other loads race with it, and
one whose object is in flight for ever, because a read of it raised, answers at once.
`TraceReplay!FairSpec` has weak fairness of the steps inside replay(): a call goes on
once made.

### Where code and documents part

Six runs end in a violation. Each checks one property, stated from the line
quoted in `PROJECT.json`.

* **pool_bytes**: `reset()` zeroes a slot's size for good; `used_bytes`
  undercounts from the second use on.
* **reader_close**: a close() finishes after submit_read accepted the request and
  before it tests `_fd`. The request is returned PENDING, without a read and
  without an exception, and the object is in `_in_flight` for ever: submit_read
  refuses it from then on.
* **replay_ahead**: what is read ahead never gets into the pool. At its event the
  object is read again, and a prefetch serves no demand.
* **sim_twice**: wasted by eviction, fetched again on demand, hit in DRAM: the
  prefetch is settled a second time. In TLC's trace the hit comes after the useful
  window and it is wasted twice; within the window it is wasted and useful. The
  release notes know a sum slightly above one and blame the end of the run.
* **dram_lru**: a prefetch of a resident object gives it a second entry in the
  order; touch() moves the older of the two, eviction takes the first, so DRAM is
  not LRU. SRAM is (SramIsLru), having one entry for each object.
* **analyze_raises**: `prev_ok` becomes true after any event, `prev_block` only
  after a block: a trace whose first block comes later raises TypeError. The
  RAG workload's trace is one.

The models show more, which need no run because a step or two make them
visible; they stay here as notes for whoever changes the code.

* An exception of pread leaves its object in `_in_flight` too, with nobody closing
  (`flash_io.py:143`): the removal comes after the read. Later reads of the object
  are refused.
* LRUPolicy's history is filled by nobody, so it prefetches nothing
  (`policies/lru.py:9`), where `RELEASE_NOTES_v0.2.0.md:41` say that it
  "prefetches recently accessed objects".
* `generate_rag_staging_trace` with fewer chunks than prefill steps leaves a gap in the
  steps, and the window is cut at the number of events (`runner.py:162`): the oracle
  never sees the last events, unlike the "Perfect future knowledge" of
  `RELEASE_NOTES_v0.2.0.md:44`.
* A slot stays IN_FLIGHT after its data has arrived (`trace_replay.py:142`), where
  `docs/LINUX_IO_RUNTIME.md:103` says "mark buffer ready".
* An event that waits for flash is a flash read and not a policy failure
  (`trace_replay.py:140`), unlike `RUNTIME.md:286`.
* In a second replay on a reader, a demand read takes the oldest completion of its
  object. If the first replay read the object ahead and left its completion, size and
  status are those of another read (`trace_replay.py:138`). OwnLayout says that
  nothing else brings this about.
* kv_load answers an object that is in flight as one that is not on flash: (0, 0),
  counted as a DRAM load (`llama_bridge.py:99`). It returns its buffer's address
  whatever the status of the read (`llama_bridge.py:98`), and objects share buffers
  (`hash % fixed_buffer_count`), so a read of another object that overlaps or follows
  may have overwritten it. LoadedInPlace says that nothing older can be there.
* prefetch_hits is incremented where prefetches_issued is (`llama_bridge.py:109`).
* `generate_moe_trace` with low entropy draws the experts of every token anew
  (`workloads.py:181`) and keeps them only over the layers.
* The sweeps pass `dram_capacity_bytes` to SimulatorConfig
  (`scripts/sweep_dram.py`, `scripts/sweep_lookahead_dram.py`), which has no such
  field.
* Prefetching an object that a demand read staged charges DRAM a second time
  (`runner.py:191`). The bytes never come back, so DRAM shrinks from run to run;
  DriftIsPrefetched says by how much at most; MissesWerePrefetched is false
  without its second disjunct, which says that DRAM may become too small for an
  object that fits it.
* Prefetched data can be hit before its ready step, even at the step it was
  issued, and is not reported late (`runner.py:205`).
* The offsets the linearizer records are those in a file without a header: pack
  puts every payload further on, by the aligned size of header and table
  (PackedInOrder), and the table itself is 12 bytes behind its declared offset.
* Co-access groups are merged with the first bundle they meet only
  (`linearize_trace.py:81`), so an object can end up in two bundles.

## 4. The proofs

Every safety property that a passing run checks, but for LoopAsStated, is also a
theorem, for all values of the constants, under the ASSUMEs of the modules. These
say only that counts are naturals, flags Booleans, None is none of the values,
every object has an entry in the maps the code would look it up in, a trace is a
sequence of events in the order of their steps, and `Streams`, the traces that
MissesWerePrefetched is about, have one event a step. Some theorems have a
hypothesis of their own, named below; each holds in the run that checks the
property, but for NobodyClosesNobodyFails, beside which LoadsReadOpenDevice
stands.

* **BufferPoolProofs.** `TypeCorrect`. `SlotReuse` (ReuseGoesThroughFree): by types
  alone, since only a FREE slot is assigned. `CheckedCallersOwnTheirSlots`:
  with the types, three invariants are inductive (the third, NoStrandedSlot, says
  that a slot in use names an object). ReadyMeansMarked (`ReadyWasMarked`) needs
  UniqueResidency: the mark must land on the slot the object owns.
  `EvictionSparesReads` (EvictionOrder) needs both, and `StatesTellWhoIsDone`: the
  states that evict_one prefers are exactly those of the objects reported done since
  they were allocated.
* **FlashReaderProofs.** `FlightInv` is TypeOK, `FramesOK` (which locals a program
  counter implies) and `FlightOK`: the request of a reading thread is the one
  `_in_flight` has for its object, requests of readers differ, and whatever is in
  flight is below `nextId`. OneReadPerObject alone is not inductive: Publish
  removes an *object* from `_in_flight`, and that this is the thread's own request
  is what FlightOK adds. All steps but accept and publish are shown `Quiet` first.
  `AccountOK`, over sets of ids, extends it to `RequestsAreAccounted`. The
  invariants survive ReadRaises because nothing is ever freed by it.
  `BuffersComeFirst` rests on `BatchesOK`: whoever has seen the flag set, or is
  past the buffers in initialize, leaves a batch behind that close() keeps.
  `NobodyClosesNobodyFails` (ReadsOpenDevice) is about a reader that nobody
  closes; `OpenOK` says that then every descriptor that was loaded is open, the
  leaked one of a raced initialize too, and `OpenStep` that every step keeps it
  that does not close. The bridge, which does close, builds on that.
* **FlashReaderRefinement.** `OldestFirst` (PerObjectOrder): `OrderOK` adds that
  an object's read in flight is younger than its completions in the queue.
  `BytesStayFresh` (DataInPlace), for any assignment of objects to buffers and any
  re-registration: `PlaceOK` says that a buffer whose read is complete holds a
  request of the same buffer that was accepted with it in flight, or later. It is
  kept because a read that is over writes no more: whoever writes after r was in
  flight when r was accepted (`others`, by `FlightSteps`) or has a higher id.
  `ReaderIsService` is the refinement that reader_racing checks: `DataOK` says
  that the request of each frame, and of each object in flight, is one of that
  object with an entry; accepting a request, publishing it, polling and taking are
  the four actions of ReadService, all other steps leave the mapped variables
  alone. With it TraceReplay's use of ReadService stands for the reader under any
  number of threads.
* **LlamaBridgeProofs.** Every step of the bridge is one of FlashReader, or leaves
  the reader alone, so `ReaderInv` holds of it; `BridgeInv` adds `JobOK`, which ties
  a thread's job to its frame, and `DeviceOK`: close() runs alone, so a read uses an
  open device. `PrefetchesFillTheQueue` (QueueIsPrefetches) counts: `CountOK` is the
  property, and each step moves a thread from one counted set to another or adds an
  element to the queue. `LoadsNeverSleep` (WaitersAreServed): `ServedOK` says that
  of each object at least as many completions are queued as threads have one to come
  to them; a prefetch only adds to the queue, which is why it can take nothing from
  a load. Both need a finite set of threads, and DeferredCompletion, the mode whose
  completions are queued. `LoadsReturnFreshBytes` (LoadedInPlace) needs only the latter:
  what a load has read is over (`ReadOver`), its status stays, and `PlaceOK` of the
  reader says the rest. `LoadsReadOpenDevice` (ReadsOpenDevice), with closers: `QuietOK`
  says that every loaded descriptor is open until a close that is alone has closed
  it, and that such a close finds nobody between the load of `_fd` and its use.
* **TraceReplayProofs.** `ReplayInv` adds to the property that between a DRAM miss
  and the store the current object has no slot, which the look-ahead keeps since it
  never touches the pool. `NoObjectTwice`, `EveryEventOnce` (EventsAccounted, also of a
  replay that an exception ended). `ReplayTypesHold` needs
  `InBounds`, the range of the indices at each program counter.
  `OwnLayoutServed` (OwnLayout) from `LayoutInv`: what an object has in the queue that
  no replay before this one read ahead has an entry of the present layout
  (`QueueCurrent`); between replays nothing else is left (`Left`), since a demand read
  takes what is there and a read that raised is never completed (`UnderWay`).
  `NoHitForNothing` (HitsArePaidFor) counts: a hit frees one slot, a store fills one
  or is counted as dropped.
  `QueueGrowsByReplays` (ResidueBounded): `ResidueInv` bounds what is left of an
  object by the replays before this one, and what this one may still leave by
  whether it read the object ahead or waits for it.
* **SimRunnerProofs**, for any trace, sizes, capacities, policies and number of
  runs. It begins with the tiers: `Sound` says that the order of a tier is a
  sequence of objects with an entry for everything resident; `Exact` adds that the
  bytes are the sum of what is resident and that no entry is double, `Accounted`
  that the bytes are at least that sum. SRAM stays exact because a promotion
  follows a miss in SRAM; DRAM only accounted, because a prefetch may stage what
  is there. From `TiersOK`: `TouchesFindEntries`, `SramIsExact`.
  `TiersStayWithinCapacity` (WithinCapacity) from `MakeRoomAccounted`: what the
  loop counts as freed is what the tier gave back, each object once, so that freed
  bytes up to a need computed before the first eviction are room after the last.
  `RunsCountEveryEvent` (EventsPartition): `CountersOK` ties what is counted to
  the place in the trace; that evictions and settled prefetches are charged to
  other counters is a lemma each. `ComingOK` carries "is ahead, and planned by a
  policy that plans" from the window through the candidates to the record. With
  the types these are `RunOK`, which gives `RunTypes`. `DriftComesFromPrefetches`
  (DriftIsPrefetched): an object is prefetched once a run, and adds its size to
  the drift at most once; eviction and misses do not. `SramEvictsLru` (SramIsLru):
  the order is sorted by the position of the last access, and every access puts
  its object last. `PrefetchesAreSettled`: until a run ends the two counters count
  the records `useful` and `wasted`, of which one prefetch may have both, and the
  end of the run records the rest. `OnlyPrefetchedMissed` (MissesWerePrefetched)
  assumes a lookahead of at least 1: the next event of a stream is in the window
  of the one before (`MissOK`), so when the run comes to it, it was prefetched or
  did not fit what the drift left of DRAM. Theorem and property are about every
  run, not only the first.
* **FlashLayoutProofs**, for any traces, sizes, alignments and lists from elsewhere.
  `LayoutInv` says what each loop of the linearizer has done at its index:
  `GroupsOK` one group for each key, with all the objects met under it; `MergedOK`
  each group within one of the merged sets, which grow but never shrink; `BundlesOK`
  pages that follow each other, each with room for its objects. Hence `NobodyIsLost`
  (EveryObjectPlaced), `MatesStayTogether` (KeptTogether) and, with `PositionOK`,
  `ToolTypes`. `PayloadsFollowTheTable` (PackedInOrder) assumes that the alignment
  is a multiple of a row of the table, as the default is, and the model's: the
  header has 12 bytes more than it declares, and only then does rounding up always
  leave room for them (`TableFits`). `TransitionsAreCounted` (TransitionsCounted) is
  about the fold of `analyze_trace`: `Counted`, by induction over the events, says
  that `prev_block` is the latest block named, that the count is that of the
  transitions so far, and that it has raised if and only if the first event named no
  block and a later one did.
* **DataLemmas**: what taking an element out of a queue leaves, and does to a count
  of its elements; least and greatest elements; sums over finite sets, by element
  and by part; that a finite set can be put in the order of its keys.

*Folds.* The library states induction, and facts about folds, with operators as
parameters, which the provers cannot instantiate. `EveryNatural` is induction for a
set of numbers, and with it the function that a fold is defined by is shown to
exist: by size of the set for sums (`SumsExist`), by length of the trace for
`analyze_trace` (`AnalysesExist`). SortSeq and SelectSeq hide their recursion from
the prover; that is why `InOrder` and `Transitions` say what they are instead of how
it is computed.

Model-checked only: liveness (CallsEnd, ReplayEnds) is beyond the prover.
LoopAsStated is checked, not proved: its loop is a fold over the order, there to be
compared with the closed form that SimRunnerProofs is about. The properties of the six
violations are false. SramIsLru is about the first run, as a second starts with an
order that its own trace did not make.

## 5. Not modelled

`TierState.remove` and `evict_objects` have no caller outside the tests.
Of LlamaBridge, load_model, run_inference and get_logits: they call libllama, which
is not in the repository, and the reader is not touched. Its inference timer and
byte counter are never written. The loaders, `analyze_csv`, the scripts and the
diagrams read, compute and print; `run_deployment_model.py` is a cost model in
floating point without state. What `analyze_trace` counts beside transitions are
sums and set sizes. `queue_depth` and the compression options of FlashIOConfig are
read by no code. The lseek branch of `_read_at`
serves systems without pread. The flash tier's in-flight map is always empty when the
runner looks, so its queue-depth test only matters when the depth is 0, which
SimRunner excludes; the release notes' "prefetches block when in_flight >=
queue_depth" therefore never happens.

## 6. Plan

Done, in this order: pool, reader with its service, replayer over the service,
simulator, layout tools; the bridge over the reader, the generators that feed the
simulator, the analyzer; type invariants and safety theorems of the runtime; the
refinement of ReadService; the counters, prefetches, orders and bytes of the
simulator; the bridge's counts and bytes; the linearizer, the packer and the
analyzer.

Open:
1. LoopAsStated proved for every size of tier: it needs that the loop has popped, so
   far, a prefix of the order it was called with. A machine of a tier under any
   caller, with `remove` and `evict_objects`.
2. A composition of the bridge and a closing thread, stating what a load may return
   when the device goes away under it.
3. Lemmas about the generators: that each gives a trace of one event a step, which
   is what StreamsAssumption asks of the traces in `Streams`.
