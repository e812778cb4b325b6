---------------------------- MODULE LlamaBridge ----------------------------
(***************************************************************************)
(* LlamaBridge (runtime/llama_bridge.py): the loads and prefetches of a    *)
(* model's KV objects, made by several threads on one AsyncFlashReader.    *)
(*                                                                         *)
(* Every step of a call inside the reader is a step of FlashReader; this   *)
(* module adds what the bridge does around it: which call the thread is    *)
(* in, what is left of its list, what submit_read answered, and the        *)
(* counters of BridgeMetrics.  An exception of the reader leaves the       *)
(* bridge's call too.  A counter is incremented in one step, as CPython    *)
(* runs an attribute's += without switching threads in between.            *)
(*                                                                         *)
(* bridge.close() is called when no call is under way: what a close racing *)
(* with a read does is FlashReader's subject.  A wait_completion never     *)
(* runs into its deadline of 5 seconds: WaitersAreServed shows that the    *)
(* first look at the queue finds the completion.                           *)
(***************************************************************************)
EXTENDS FlashReader

CONSTANTS
    EnablePrefetch,    \* config.enable_prefetch
    LookaheadTokens,   \* config.lookahead_tokens
    MaxFuture,         \* bound: objects in the list given to maybe_prefetch
    MaxDramLoads       \* bound: no load starts after this many answered by DRAM

ASSUME BridgeAssumption ==
    /\ EnablePrefetch \in BOOLEAN
    /\ LookaheadTokens \in Nat
    /\ MaxFuture \in Nat
    /\ MaxDramLoads \in Nat

VARIABLES
    job,      \* the bridge's call of each thread
    metrics   \* BridgeMetrics

bridge == <<job, metrics>>
bridgeVars == <<vars, bridge>>

\* load: the call is kv_load; rest: the objects left to prefetch; request: what
\* submit_read accepted.  A thread with NoJob is outside the bridge.
NoJob == [load |-> FALSE, rest |-> <<>>, request |-> None]

\* prefetch_hits counts what prefetches_issued counts: one counter for both.
NoMetrics == [kv_loads_from_flash |-> 0, kv_loads_from_dram |-> 0, prefetches_issued |-> 0]

Count(counter) == metrics' = [metrics EXCEPT ![counter] = @ + 1]
EndJob(t) == job' = [job EXCEPT ![t] = NoJob]

BridgeInit ==
    /\ Init
    /\ job = [t \in Threads |-> NoJob]
    /\ metrics = NoMetrics

Free(t) == At(t, "idle") /\ job[t] = NoJob
Closing == \E t \in Threads : call[t].pc \in {"check_close", "os_close", "clear"}

\* The reads the calls under way may still submit; with MaxRequests they bound
\* new calls.
Promised ==
    Cardinality(Submitting) + FoldFunction(LAMBDA j, n : Len(j.rest) + n, 0, job)
MayPromise(n) == nextId + Promised + n <= MaxRequests + 1

----------------------------------------------------------------------------
(* kv_load(object_id)                                                      *)

MayLoad(t) ==
    /\ Free(t) /\ ~Closing
    /\ metrics.kv_loads_from_dram < MaxDramLoads

\* An object without a layout: the reader is not asked.
KvLoadUnknown(t, o) ==
    /\ MayLoad(t)
    /\ layout_map[o] = None
    /\ Count("kv_loads_from_dram")
    /\ UNCHANGED <<vars, job>>

KvLoad(t, o) ==
    /\ MayLoad(t) /\ MayPromise(1)
    /\ SubmitRead(t, o)
    /\ job' = [job EXCEPT ![t].load = TRUE]
    /\ UNCHANGED metrics

\* A bug the runs must catch: refused, the load asks again for as long as the
\* object is in flight, which after a read that raised is for good.
KvLoadRetries(t) ==
    /\ At(t, "idle") /\ job[t].load /\ job[t].request = None
    /\ IF \A o \in Objects : in_flight[o] = None
         THEN Count("kv_loads_from_dram") /\ EndJob(t)
         ELSE UNCHANGED bridge
    /\ UNCHANGED vars

\* submit_read answered None.
KvLoadFromDram(t) ==
    /\ At(t, "idle") /\ job[t].load /\ job[t].request = None
    /\ Count("kv_loads_from_dram")
    /\ EndJob(t)
    /\ UNCHANGED vars

\* A bug the runs must catch: the completion is left in the queue.
KvDoesNotWait(t) ==
    /\ At(t, "idle") /\ job[t].load /\ job[t].request # None
    /\ Count("kv_loads_from_flash")
    /\ EndJob(t)
    /\ UNCHANGED vars

KvWait(t) ==
    /\ At(t, "idle") /\ job[t].load /\ job[t].request # None
    /\ Count("kv_loads_from_flash")
    /\ WaitCompletion(t, requests[job[t].request].object)
    /\ UNCHANGED job

\* The completion is dropped: kv_load answers with the buffer and the size of
\* the request, whatever its status.
KvLoadReturns(t) ==
    /\ WaitTakes(t)
    /\ EndJob(t)
    /\ UNCHANGED metrics

----------------------------------------------------------------------------
(* maybe_prefetch(future_ids)                                              *)

\* The head of the list: no more objects than lookahead_tokens.
Lookahead(ids) == SubSeq(ids, 1, IF Len(ids) < LookaheadTokens THEN Len(ids) ELSE LookaheadTokens)

MaybePrefetch(t, ids) ==
    /\ EnablePrefetch
    /\ Free(t) /\ ~Closing /\ MayPromise(Len(Lookahead(ids)))
    /\ job' = [job EXCEPT ![t].rest = Lookahead(ids)]
    /\ UNCHANGED <<vars, metrics>>

Prefetching(t) ==
    /\ At(t, "idle") /\ job[t].request = None /\ job[t].rest # <<>>
    /\ job' = [job EXCEPT ![t].rest = Tail(@)]
    /\ UNCHANGED metrics

PrefetchSkip(t) ==
    /\ Prefetching(t)
    /\ layout_map[Head(job[t].rest)] = None
    /\ UNCHANGED vars

PrefetchNext(t) == Prefetching(t) /\ SubmitRead(t, Head(job[t].rest))

PrefetchCount(t) ==
    /\ At(t, "idle") /\ ~job[t].load /\ job[t].request # None
    /\ Count("prefetches_issued")
    /\ job' = [job EXCEPT ![t].request = None]
    /\ UNCHANGED vars

----------------------------------------------------------------------------
(* The reader's steps inside the bridge's calls.                           *)

\* submit_read will return this request.
BridgeAccepted(t) ==
    /\ SubmitAccepted(t)
    /\ job' = [job EXCEPT ![t].request = nextId]
    /\ UNCHANGED metrics

\* The exception leaves kv_load or maybe_prefetch.
BridgeRaises(t) ==
    /\ OpenRaises(t) \/ ReadRaises(t)
    /\ EndJob(t)
    /\ UNCHANGED metrics

\* Registering puts the layout in the bridge's and in the reader's map; an
\* object known to only one of them is loaded like one known to neither.
RegisterKvLayout(o, e) == RegisterLayout(o, e) /\ UNCHANGED bridge

ReaderStep(t) ==
    /\ \/ InitCheck(t) \/ OpenDevice(t) \/ AllocateFixedBuffers(t) \/ FinishInitialize(t)
       \/ SubmitRefused(t) \/ CheckFd(t) \/ LoadFd(t) \/ ReadAt(t) \/ Publish(t)
    /\ UNCHANGED bridge

BridgeClose(t) ==
    /\ \/ (\A u \in Threads : Free(u)) /\ Close(t)
       \/ CheckClose(t) \/ OsClose(t) \/ ClearFd(t)
    /\ UNCHANGED bridge

CallStep(t) ==
    \/ ReaderStep(t) \/ BridgeAccepted(t) \/ BridgeRaises(t)
    \/ KvLoadFromDram(t) \/ KvWait(t) \/ KvLoadReturns(t)
    \/ PrefetchSkip(t) \/ PrefetchNext(t) \/ PrefetchCount(t)

BridgeNext ==
    \/ \E o \in Objects, e \in Entries : RegisterKvLayout(o, e)
    \/ \E t \in Threads :
          \/ CallStep(t)
          \/ \E o \in Objects : KvLoad(t, o) \/ KvLoadUnknown(t, o)
          \/ \E ids \in BoundedSeq(Objects, MaxFuture) : MaybePrefetch(t, ids)
    \/ \E t \in Closers : BridgeClose(t)

BridgeSpec == BridgeInit /\ [][BridgeNext]_bridgeVars

\* A thread inside a call is scheduled again: pread returns, the lock is let go.
FairBridgeSpec == BridgeSpec /\ \A t \in Threads : WF_bridgeVars(CallStep(t))

----------------------------------------------------------------------------
Loaded(t) == job[t].load /\ job[t].request # None /\ call[t].pc \in {"idle", "wait"}

(* A kv_load that waits finds a completion of its object, however many     *)
(* threads load or prefetch that object: nobody else takes the one it      *)
(* queued without leaving one, so no load sleeps for its 5 seconds.        *)
WaitersAreServed ==
    \A o \in Objects :
        Cardinality({t \in Threads : Loaded(t) /\ requests[job[t].request].object = o})
            <= Cardinality({i \in DOMAIN cq : requests[cq[i]].object = o})

(* The completions of prefetches are never taken: the queue holds one for  *)
(* every prefetch issued, besides those of the loads about to return, and  *)
(* each load takes one.                                                    *)
QueueIsPrefetches ==
    /\ Len(cq) = metrics.prefetches_issued
                 + Cardinality({t \in Threads : At(t, "idle") /\ ~job[t].load
                                                /\ job[t].request # None})
                 + Cardinality({t \in Threads : Loaded(t)})
    /\ Cardinality(delivered) + Cardinality({t \in Threads : At(t, "wait")})
           = metrics.kv_loads_from_flash

(* When a kv_load goes to wait and when it returns, its own read is over,  *)
(* although the completion it takes may be that of an older prefetch; and  *)
(* the buffer whose address it returns has not gone back to what was there *)
(* before: only reads accepted since, or under way when its own was        *)
(* accepted, may have replaced its bytes, of any object that shares it.    *)
LoadedInPlace ==
    \A t \in Threads :
        Loaded(t) => /\ requests[job[t].request].status # "PENDING"
                     /\ BytesFresh(job[t].request)

(* Every kv_load and maybe_prefetch returns or raises: also when another   *)
(* thread takes the completion a load has queued, and when the object is   *)
(* in flight for good because a read of it raised.                         *)
CallsEnd == \A t \in Threads : job[t] # NoJob ~> job[t] = NoJob
============================================================================
