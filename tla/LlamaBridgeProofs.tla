------------------------- MODULE LlamaBridgeProofs -------------------------
(***************************************************************************)
(* What holds of LlamaBridge for any number of threads, objects, requests, *)
(* prefetch lists and closes.  Every step of the bridge is a step of the   *)
(* reader or leaves it alone, so the reader's invariants are the bridge's. *)
(* JobOK relates what a thread does in the bridge to where it is in the    *)
(* reader, and DeviceOK says that a read finds the device open, because    *)
(* the bridge is closed between its calls.                                 *)
(***************************************************************************)
EXTENDS LlamaBridge, FlashReaderRefinement, FiniteSetTheorems

----------------------------------------------------------------------------
SubmitPC == {"init", "open", "allocate", "set", "lock"}
ClosePC == {"check_close", "os_close", "clear"}

Job == [load : BOOLEAN, rest : Seq(Objects), request : RequestIds \cup {None}]
Counters == [kv_loads_from_flash : Nat, kv_loads_from_dram : Nat, prefetches_issued : Nat]
JobTypes == job \in [Threads -> Job] /\ metrics \in Counters

(* The job of a thread, where the thread is in the reader, and the request *)
(* that submit_read accepted for it.                                       *)
JobFits(j, frame) ==
    /\ frame.pc \in SubmitPC => j.request = None
    /\ frame.pc \in ReadPC => j.request = frame.request
    /\ frame.pc = "wait" => j.load /\ j.request # None
    /\ frame.pc \in ClosePC => j = NoJob
JobRequests ==
    \A t \in Threads :
        /\ job[t].request # None => /\ job[t].request \in Accepted
                                    /\ requests[job[t].request].object \in Objects
        /\ call[t].pc = "wait" => call[t].object = requests[job[t].request].object
JobOK ==
    /\ JobTypes
    /\ \A t \in Threads : JobFits(job[t], call[t])
    /\ JobRequests

(* The sequences given to maybe_prefetch, and the part of one it uses.     *)
LEMMA LookaheadTyped ==
    ASSUME NEW ids \in BoundedSeq(Objects, MaxFuture)
    PROVE  Lookahead(ids) \in Seq(Objects)
<1>1. ids \in Seq(Objects)
  <2>1. PICK m \in 0 .. MaxFuture : ids \in [1 .. m -> Objects]
    BY BridgeAssumption DEF BoundedSeq, SeqOf
  <2>2. m \in Nat
    BY <2>1, BridgeAssumption
  <2> QED
    BY <2>1, <2>2
<1>2. Len(ids) \in Nat
  BY <1>1
<1> QED
  BY <1>1, <1>2, BridgeAssumption DEF Lookahead

(* Every step of the bridge is one of the reader or invisible to it.       *)
LEMMA BridgeSteps == JobOK /\ [BridgeNext]_bridgeVars => [Next]_vars
<1> SUFFICES ASSUME JobOK, [BridgeNext]_bridgeVars PROVE [Next]_vars
  OBVIOUS
<1>1. ASSUME NEW o \in Objects, NEW e \in Entries, RegisterKvLayout(o, e) PROVE Next
  BY <1>1 DEF RegisterKvLayout, Next
<1>2. ASSUME NEW t \in Threads, ReaderStep(t) \/ BridgeAccepted(t) \/ BridgeRaises(t)
      PROVE  Next
  BY <1>2 DEF ReaderStep, BridgeAccepted, BridgeRaises, Next, ReadStep
<1>3. ASSUME NEW t \in Threads, KvLoadFromDram(t) \/ PrefetchSkip(t) \/ PrefetchCount(t)
      PROVE  UNCHANGED vars
  BY <1>3 DEF KvLoadFromDram, PrefetchSkip, PrefetchCount
<1>4. ASSUME NEW t \in Threads, KvWait(t) PROVE Next
  BY <1>4 DEF KvWait, Next, JobOK, JobRequests
<1>5. ASSUME NEW t \in Threads, KvLoadReturns(t) PROVE Next
  BY <1>5 DEF KvLoadReturns, Next
<1>6. ASSUME NEW t \in Threads, PrefetchNext(t) PROVE Next
  <2>1. Head(job[t].rest) \in Objects
    BY <1>6 DEF PrefetchNext, Prefetching, JobOK, JobTypes, Job
  <2> QED
    BY <1>6, <2>1 DEF PrefetchNext, Next
<1>7. ASSUME NEW t \in Threads, NEW o \in Objects, KvLoad(t, o) \/ KvLoadUnknown(t, o)
      PROVE  [Next]_vars
  BY <1>7 DEF KvLoad, KvLoadUnknown, Next
<1>8. ASSUME NEW t \in Threads, NEW ids, MaybePrefetch(t, ids) PROVE UNCHANGED vars
  BY <1>8 DEF MaybePrefetch
<1>9. ASSUME NEW t \in Closers, BridgeClose(t) PROVE Next
  BY <1>9 DEF BridgeClose, Next
<1>10. CASE UNCHANGED bridgeVars
  BY <1>10 DEF bridgeVars
<1> QED
  BY <1>1, <1>2, <1>3, <1>4, <1>5, <1>6, <1>7, <1>8, <1>9, <1>10 DEF BridgeNext, CallStep

----------------------------------------------------------------------------
(* The steps of the bridge by what they do to a thread's call and job, to  *)
(* the queue and to the counters.  The other threads stay where they are.  *)
Others(t) == \A u \in Threads \ {t} : call'[u] = call[u] /\ job'[u] = job[u]
SameQueue == UNCHANGED <<cq, delivered>>
SameCounts == UNCHANGED <<metrics.kv_loads_from_flash, metrics.prefetches_issued>>
Calm == SameQueue /\ SameCounts

\* A call of the bridge begins, goes on to its next read, or ends without one.
Begins(t) ==
    /\ call[t].pc = "idle" /\ job[t].request = None /\ (job[t] # NoJob \/ ~Closing)
    /\ call'[t].pc \in {"idle", "init"} /\ job'[t].request = None
    /\ Calm /\ UNCHANGED <<requests, nextId>>

\* submit_read, before its request is accepted, or ending without one.
Submits(t) ==
    /\ call[t].pc \in SubmitPC /\ call'[t].pc \in SubmitPC \cup {"idle"}
    /\ job'[t] \in {job[t], NoJob}
    /\ Calm /\ UNCHANGED <<requests, nextId>>

Accepts(t) ==
    /\ SubmitAccepted(t)
    /\ call[t].pc = "lock" /\ call'[t].pc = "check_fd"
    /\ call'[t].request = nextId /\ job'[t] = [job[t] EXCEPT !.request = nextId]
    /\ Calm

Reads(t) ==
    /\ call[t].pc \in ReadPC /\ call'[t].pc \in ReadPC
    /\ call'[t].request = call[t].request /\ job'[t] = job[t]
    /\ Calm

\* The read raises, or the request is returned PENDING for want of a device.
Raises(t) ==
    /\ call[t].pc = "read" /\ call'[t].pc = "idle" /\ job'[t] = NoJob
    /\ Calm /\ UNCHANGED <<requests, nextId>>
ReturnsPending(t) ==
    /\ call[t].pc = "check_fd" /\ ~(fd # None /\ DeferredCompletion)
    /\ call'[t].pc = "idle" /\ job'[t] = job[t]
    /\ Calm /\ UNCHANGED <<requests, nextId>>

Publishes(t) ==
    /\ call[t].pc = "publish" /\ call'[t].pc = "idle" /\ job'[t] = job[t]
    /\ cq' = Append(cq, call[t].request) /\ UNCHANGED delivered
    /\ SameCounts /\ UNCHANGED <<requests, nextId>>

Counts(t) ==
    /\ call[t].pc = "idle" /\ ~job[t].load /\ job[t].request # None
    /\ call'[t].pc = "idle" /\ job'[t].request = None
    /\ SameQueue /\ UNCHANGED metrics.kv_loads_from_flash
    /\ metrics.prefetches_issued' = metrics.prefetches_issued + 1
    /\ UNCHANGED <<requests, nextId>>

StartsWaiting(t) ==
    /\ call[t].pc = "idle" /\ job[t].load /\ job[t].request # None
    /\ call'[t].pc = "wait" /\ job'[t] = job[t]
    /\ call'[t].object = requests[job[t].request].object
    /\ SameQueue /\ UNCHANGED metrics.prefetches_issued
    /\ metrics.kv_loads_from_flash' = metrics.kv_loads_from_flash + 1
    /\ UNCHANGED <<requests, nextId>>

Takes(t) ==
    /\ call[t].pc = "wait" /\ call'[t].pc = "idle" /\ job'[t] = NoJob
    /\ \E i \in 1 .. Len(cq) : /\ requests[cq[i]].object = call[t].object
                               /\ cq' = RemoveAt(cq, i)
                               /\ delivered' = delivered \cup {cq[i]}
    /\ SameCounts /\ UNCHANGED <<requests, nextId>>

Closes(t) ==
    /\ \/ call[t].pc = "idle" /\ \A u \in Threads : Free(u)
       \/ call[t].pc \in ClosePC
    /\ call'[t].pc \in ClosePC \cup {"idle"} /\ job'[t] = job[t]
    /\ Calm /\ UNCHANGED <<requests, nextId>>

JobStep(t) ==
    /\ Others(t)
    /\ \/ Begins(t) \/ Submits(t) \/ Accepts(t) \/ Reads(t) \/ Raises(t) \/ ReturnsPending(t)
       \/ Publishes(t) \/ Counts(t) \/ StartsWaiting(t) \/ Takes(t) \/ Closes(t)
NoJobStep == UNCHANGED <<call, job, requests, nextId>> /\ Calm

(* Every step of the bridge is one of these.                               *)
LEMMA JobSteps ==
    ASSUME TypeOK, JobOK, [BridgeNext]_bridgeVars
    PROVE  NoJobStep \/ \E t \in Threads : JobStep(t)
<1> USE DEF TypeOK, tracking, device, bridge, At
<1>0. job \in [Threads -> Job] /\ metrics \in Counters
  BY DEF JobOK, JobTypes
\* A thread moves to another program counter, or returns.
<1>g. ASSUME NEW t \in Threads, NEW pc, Goto(t, pc)
      PROVE  /\ call'[t].pc = pc /\ call'[t].request = call[t].request
             /\ \A u \in Threads \ {t} : call'[u] = call[u]
  BY <1>g DEF Goto, Frame
<1>r. ASSUME NEW t \in Threads, Return(t)
      PROVE  call'[t].pc = "idle" /\ \A u \in Threads \ {t} : call'[u] = call[u]
  BY <1>r DEF Return, Idle
<1>e. ASSUME NEW t \in Threads, EndJob(t)
      PROVE  job'[t] = NoJob /\ \A u \in Threads \ {t} : job'[u] = job[u]
  BY <1>0, <1>e DEF EndJob
<1>s. ASSUME NEW t \in Threads, NEW o \in Objects, SubmitRead(t, o)
      PROVE  /\ call'[t].pc = "init" /\ \A u \in Threads \ {t} : call'[u] = call[u]
             /\ call[t].pc = "idle" /\ UNCHANGED <<cq, delivered, requests, nextId>>
  BY <1>s DEF SubmitRead, Idle
<1>1. ASSUME NEW o \in Objects, NEW e \in Entries, RegisterKvLayout(o, e) PROVE NoJobStep
  BY <1>1 DEF RegisterKvLayout, RegisterLayout, NoJobStep, Calm, SameQueue, SameCounts
<1>2. ASSUME NEW t \in Threads,
             \/ InitCheck(t) \/ OpenDevice(t) \/ AllocateFixedBuffers(t)
             \/ FinishInitialize(t) \/ SubmitRefused(t),
             UNCHANGED bridge
      PROVE  JobStep(t)
  <2>1. /\ \/ Return(t)
           \/ \E pc \in {"open", "allocate", "set", "lock"} : Goto(t, pc)
        /\ call[t].pc \in SubmitPC
        /\ UNCHANGED tracking
    BY <1>2 DEF InitCheck, Initialized, OpenDevice, AllocateFixedBuffers, FinishInitialize,
       SubmitRefused, SubmitPC
  <2>2. call'[t].pc \in SubmitPC \cup {"idle"} /\ \A u \in Threads \ {t} : call'[u] = call[u]
    BY <2>1, <1>g, <1>r DEF SubmitPC
  <2> QED
    BY <1>2, <2>1, <2>2 DEF JobStep, Others, Submits, Calm, SameQueue, SameCounts
<1>3. ASSUME NEW t \in Threads, CheckFd(t), UNCHANGED bridge PROVE JobStep(t)
  <2>1. /\ call[t].pc = "check_fd" /\ UNCHANGED tracking
        /\ \/ Goto(t, "load_fd")
           \/ ~(fd # None /\ DeferredCompletion) /\ Return(t)
    BY <1>3 DEF CheckFd
  <2>2. CASE Goto(t, "load_fd")
    BY <1>3, <1>g, <2>1, <2>2 DEF JobStep, Others, Reads, ReadPC, Calm, SameQueue, SameCounts
  <2>3. CASE ~(fd # None /\ DeferredCompletion) /\ Return(t)
    BY <1>3, <1>r, <2>1, <2>3
       DEF JobStep, Others, ReturnsPending, Calm, SameQueue, SameCounts
  <2> QED
    BY <2>1, <2>2, <2>3
<1>4. ASSUME NEW t \in Threads, LoadFd(t), UNCHANGED bridge PROVE JobStep(t)
  <2>1. /\ call'[t].pc = "read" /\ call'[t].request = call[t].request
        /\ \A u \in Threads \ {t} : call'[u] = call[u]
        /\ call[t].pc = "load_fd" /\ UNCHANGED tracking
    BY <1>4 DEF LoadFd, Frame
  <2> QED
    BY <1>4, <2>1 DEF JobStep, Others, Reads, ReadPC, Calm, SameQueue, SameCounts
<1>5. ASSUME NEW t \in Threads, ReadAt(t), UNCHANGED bridge PROVE JobStep(t)
  <2>1. Goto(t, "publish") /\ call[t].pc = "read" /\ UNCHANGED <<cq, delivered>>
    BY <1>5 DEF ReadAt
  <2> QED
    BY <1>5, <1>g, <2>1 DEF JobStep, Others, Reads, ReadPC, Calm, SameQueue, SameCounts
<1>6. ASSUME NEW t \in Threads, Publish(t), UNCHANGED bridge PROVE JobStep(t)
  <2>1. /\ Return(t) /\ call[t].pc = "publish" /\ UNCHANGED <<delivered, requests, nextId>>
        /\ cq' = Append(cq, call[t].request)
    BY <1>6 DEF Publish, QueuedLast
  <2> QED
    BY <1>6, <1>r, <2>1 DEF JobStep, Others, Publishes, SameCounts
<1>7. ASSUME NEW t \in Threads, BridgeAccepted(t) PROVE JobStep(t)
  <2>1. /\ call'[t].pc = "check_fd" /\ call'[t].request = nextId
        /\ \A u \in Threads \ {t} : call'[u] = call[u]
        /\ call[t].pc = "lock" /\ UNCHANGED <<cq, delivered>>
        /\ SubmitAccepted(t)
    BY <1>7 DEF BridgeAccepted, SubmitAccepted, Frame
  <2>2. /\ job'[t] = [job[t] EXCEPT !.request = nextId]
        /\ \A u \in Threads \ {t} : job'[u] = job[u]
        /\ UNCHANGED metrics
    BY <1>0, <1>7 DEF BridgeAccepted
  <2> QED
    BY <2>1, <2>2 DEF JobStep, Others, Accepts, Calm, SameQueue, SameCounts
<1>8. ASSUME NEW t \in Threads, BridgeRaises(t) PROVE JobStep(t)
  <2>1. /\ Return(t) /\ EndJob(t) /\ UNCHANGED tracking /\ UNCHANGED metrics
        /\ call[t].pc \in {"open", "read"}
    BY <1>8 DEF BridgeRaises, OpenRaises, ReadRaises
  <2> QED
    BY <1>r, <1>e, <2>1
       DEF JobStep, Others, Submits, SubmitPC, Raises, Calm, SameQueue, SameCounts
<1>9. ASSUME NEW t \in Threads, KvLoadFromDram(t) PROVE JobStep(t)
  <2>1. /\ call[t].pc = "idle" /\ job[t].load /\ job[t].request = None
        /\ EndJob(t) /\ UNCHANGED <<call, cq, delivered, requests, nextId>>
    BY <1>9 DEF KvLoadFromDram, vars
  <2>2. SameCounts
    BY <1>0, <1>9 DEF KvLoadFromDram, Count, Counters, SameCounts
  <2>3. job[t] # NoJob
    BY <2>1 DEF NoJob
  <2> QED
    BY <1>e, <2>1, <2>2, <2>3 DEF JobStep, Others, Begins, Calm, SameQueue, NoJob
<1>10. ASSUME NEW t \in Threads, KvWait(t) PROVE JobStep(t)
  <2> DEFINE o == requests[job[t].request].object
             frame == [Idle EXCEPT !.pc = "wait", !.object = o]
  <2>1. /\ call[t].pc = "idle" /\ job[t].load /\ job[t].request # None
        /\ UNCHANGED job /\ UNCHANGED tracking
        /\ call' = [call EXCEPT ![t] = frame]
    BY <1>10 DEF KvWait, WaitCompletion
  <2>2. frame.pc = "wait" /\ frame.object = o
    BY DEF Idle
  <2>3. /\ metrics.kv_loads_from_flash' = metrics.kv_loads_from_flash + 1
        /\ UNCHANGED metrics.prefetches_issued
    BY <1>0, <1>10 DEF KvWait, Count, Counters
  <2> HIDE DEF frame
  <2> QED
    BY <2>1, <2>2, <2>3 DEF JobStep, Others, StartsWaiting, SameQueue
<1>11. ASSUME NEW t \in Threads, KvLoadReturns(t) PROVE JobStep(t)
  <2>1. /\ call[t].pc = "wait" /\ Return(t) /\ EndJob(t)
        /\ UNCHANGED <<requests, nextId, metrics>>
    BY <1>11 DEF KvLoadReturns, WaitTakes
  <2>2. \E i \in 1 .. Len(cq) : /\ requests[cq[i]].object = call[t].object
                               /\ cq' = RemoveAt(cq, i)
                               /\ delivered' = delivered \cup {cq[i]}
    BY <1>11 DEF KvLoadReturns, WaitTakes, FirstOf
  <2> QED
    BY <1>r, <1>e, <2>1, <2>2 DEF JobStep, Others, Takes, SameCounts
<1>12. ASSUME NEW t \in Threads, Prefetching(t),
              \/ UNCHANGED vars
              \/ \E o \in Objects : SubmitRead(t, o)
       PROVE  JobStep(t)
  <2>1. /\ call[t].pc = "idle" /\ job[t].request = None /\ job[t].rest # <<>>
        /\ job'[t].request = None /\ \A u \in Threads \ {t} : job'[u] = job[u]
        /\ UNCHANGED metrics
    BY <1>0, <1>12 DEF Prefetching, Job
  <2>2. job[t] # NoJob
    BY <2>1 DEF NoJob
  <2>3. /\ call'[t].pc \in {"idle", "init"} /\ \A u \in Threads \ {t} : call'[u] = call[u]
        /\ UNCHANGED <<cq, delivered, requests, nextId>>
    BY <1>12, <1>s, <2>1 DEF vars
  <2> QED
    BY <2>1, <2>2, <2>3 DEF JobStep, Others, Begins, Calm, SameQueue, SameCounts
<1>13. ASSUME NEW t \in Threads, PrefetchSkip(t) \/ PrefetchNext(t) PROVE JobStep(t)
  <2>1. Prefetching(t)
    BY <1>13 DEF PrefetchSkip, PrefetchNext
  <2>2. Head(job[t].rest) \in Objects
    BY <1>0, <2>1 DEF Prefetching, Job
  <2> QED
    BY <1>12, <1>13, <2>1, <2>2 DEF PrefetchSkip, PrefetchNext
<1>14. ASSUME NEW t \in Threads, PrefetchCount(t) PROVE JobStep(t)
  <2>1. /\ call[t].pc = "idle" /\ ~job[t].load /\ job[t].request # None
        /\ UNCHANGED <<call, cq, delivered, requests, nextId>>
        /\ job'[t].request = None /\ \A u \in Threads \ {t} : job'[u] = job[u]
    BY <1>0, <1>14 DEF PrefetchCount, vars, Job
  <2>2. /\ metrics.prefetches_issued' = metrics.prefetches_issued + 1
        /\ UNCHANGED metrics.kv_loads_from_flash
    BY <1>0, <1>14 DEF PrefetchCount, Count, Counters
  <2> QED
    BY <2>1, <2>2 DEF JobStep, Others, Counts, SameQueue
<1>15. ASSUME NEW t \in Threads, NEW o \in Objects, KvLoad(t, o) PROVE JobStep(t)
  <2>1. /\ call[t].pc = "idle" /\ job[t].request = None /\ ~Closing
        /\ SubmitRead(t, o) /\ UNCHANGED metrics
        /\ job' = [job EXCEPT ![t].load = TRUE]
    BY <1>15 DEF KvLoad, MayLoad, Free, NoJob
  <2>2. job'[t].request = None /\ \A u \in Threads \ {t} : job'[u] = job[u]
    BY <1>0, <2>1 DEF Job
  <2> QED
    BY <1>s, <2>1, <2>2 DEF JobStep, Others, Begins, Calm, SameQueue, SameCounts
<1>16. ASSUME NEW t \in Threads, NEW o \in Objects, KvLoadUnknown(t, o) PROVE NoJobStep
  <2>1. SameCounts
    BY <1>0, <1>16 DEF KvLoadUnknown, Count, Counters, SameCounts
  <2> QED
    BY <1>16, <2>1 DEF KvLoadUnknown, NoJobStep, Calm, SameQueue, vars
<1>17. ASSUME NEW t \in Threads, NEW ids, MaybePrefetch(t, ids) PROVE JobStep(t)
  <2>1. /\ call[t].pc = "idle" /\ job[t].request = None /\ ~Closing
        /\ UNCHANGED <<call, cq, delivered, requests, nextId, metrics>>
        /\ job' = [job EXCEPT ![t].rest = Lookahead(ids)]
    BY <1>17 DEF MaybePrefetch, Free, NoJob, vars
  <2>2. job'[t].request = None /\ \A u \in Threads \ {t} : job'[u] = job[u]
    BY <1>0, <2>1 DEF Job
  <2> QED
    BY <2>1, <2>2 DEF JobStep, Others, Begins, Calm, SameQueue, SameCounts
<1>18. ASSUME NEW t \in Threads, BridgeClose(t) PROVE JobStep(t)
  <2>1. /\ \/ call[t].pc = "idle" /\ \A u \in Threads : Free(u)
           \/ call[t].pc \in ClosePC
        /\ Return(t) \/ Goto(t, "check_close") \/ Goto(t, "os_close") \/ Goto(t, "clear")
        /\ UNCHANGED tracking /\ UNCHANGED bridge
    BY <1>18 DEF BridgeClose, Close, CheckClose, OsClose, ClearFd, ClosePC
  <2>2. call'[t].pc \in ClosePC \cup {"idle"} /\ \A u \in Threads \ {t} : call'[u] = call[u]
    BY <1>g, <1>r, <2>1 DEF ClosePC
  <2> QED
    BY <2>1, <2>2 DEF JobStep, Others, Closes, Calm, SameQueue, SameCounts
<1>19. CASE UNCHANGED bridgeVars
  BY <1>19 DEF bridgeVars, vars, NoJobStep, Calm, SameQueue, SameCounts
<1> QED
  BY <1>1, <1>2, <1>3, <1>4, <1>5, <1>6, <1>7, <1>8, <1>9, <1>10, <1>11, <1>13, <1>14,
     <1>15, <1>16, <1>17, <1>18, <1>19, ThreadsAssumption DEF BridgeNext, CallStep, ReaderStep

----------------------------------------------------------------------------
(* Jobs and counters keep their types.                                     *)
LEMMA JobTypesStep == TypeOK /\ JobOK /\ [BridgeNext]_bridgeVars => JobTypes'
<1> SUFFICES ASSUME TypeOK, JobOK, [BridgeNext]_bridgeVars PROVE JobTypes'
  OBVIOUS
<1> USE DEF bridge
<1>0. job \in [Threads -> Job] /\ metrics \in Counters
  BY DEF JobOK, JobTypes
<1>1. NoJob \in Job
  BY DEF NoJob, Job
<1>2. ASSUME NEW t \in Threads, EndJob(t) PROVE job' \in [Threads -> Job]
  BY <1>0, <1>1, <1>2 DEF EndJob
<1>3. ASSUME NEW c \in {"kv_loads_from_flash", "kv_loads_from_dram", "prefetches_issued"},
             Count(c)
      PROVE  metrics' \in Counters
  BY <1>0, <1>3 DEF Count, Counters
<1>4. ASSUME NEW t \in Threads, ReaderStep(t) \/ BridgeClose(t) PROVE JobTypes'
  BY <1>0, <1>4 DEF ReaderStep, BridgeClose, JobTypes
<1>5. ASSUME NEW t \in Threads, BridgeAccepted(t) PROVE JobTypes'
  <2>1. nextId \in RequestIds
    BY <1>5 DEF BridgeAccepted, SubmitAccepted
  <2>2. [job[t] EXCEPT !.request = nextId] \in Job
    BY <1>0, <2>1 DEF Job
  <2> QED
    BY <1>0, <1>5, <2>2 DEF BridgeAccepted, JobTypes
<1>6. ASSUME NEW t \in Threads, BridgeRaises(t) \/ KvLoadReturns(t) PROVE JobTypes'
  BY <1>0, <1>2, <1>6 DEF BridgeRaises, KvLoadReturns, JobTypes
<1>7. ASSUME NEW t \in Threads, KvLoadFromDram(t) \/ KvWait(t) PROVE JobTypes'
  BY <1>0, <1>2, <1>3, <1>7 DEF KvLoadFromDram, KvWait, JobTypes
<1>8. ASSUME NEW t \in Threads, Prefetching(t) PROVE JobTypes'
  <2>1. [job[t] EXCEPT !.rest = Tail(@)] \in Job
    <3>1. Tail(job[t].rest) \in Seq(Objects)
      BY <1>0, <1>8 DEF Prefetching, Job
    <3> QED
      BY <1>0, <3>1 DEF Job
  <2> QED
    BY <1>0, <1>8, <2>1 DEF Prefetching, JobTypes
<1>9. ASSUME NEW t \in Threads, PrefetchCount(t) PROVE JobTypes'
  <2>1. [job[t] EXCEPT !.request = None] \in Job
    BY <1>0 DEF Job
  <2> QED
    BY <1>0, <1>3, <1>9, <2>1 DEF PrefetchCount, JobTypes
<1>10. ASSUME NEW t \in Threads, NEW o \in Objects, KvLoad(t, o) \/ KvLoadUnknown(t, o)
       PROVE  JobTypes'
  <2>1. [job[t] EXCEPT !.load = TRUE] \in Job
    BY <1>0 DEF Job
  <2> QED
    BY <1>0, <1>3, <1>10, <2>1 DEF KvLoad, KvLoadUnknown, JobTypes
<1>11. ASSUME NEW t \in Threads, NEW ids \in BoundedSeq(Objects, MaxFuture),
              MaybePrefetch(t, ids)
       PROVE  JobTypes'
  <2>1. [job[t] EXCEPT !.rest = Lookahead(ids)] \in Job
    BY <1>0, LookaheadTyped DEF Job
  <2> QED
    BY <1>0, <1>11, <2>1 DEF MaybePrefetch, JobTypes
<1>12. CASE UNCHANGED bridge
  BY <1>0, <1>12 DEF JobTypes
<1> QED
  BY <1>4, <1>5, <1>6, <1>7, <1>8, <1>9, <1>10, <1>11, <1>12, ThreadsAssumption
     DEF BridgeNext, CallStep, RegisterKvLayout, bridgeVars, PrefetchSkip, PrefetchNext

(* Every step of the bridge keeps the jobs true to the reader's calls.     *)
LEMMA JobOKStep == ReaderInv /\ JobOK /\ [BridgeNext]_bridgeVars => JobOK'
<1> SUFFICES ASSUME ReaderInv, JobOK, [BridgeNext]_bridgeVars PROVE JobOK'
  OBVIOUS
<1> USE DEF ReadPC, SubmitPC, ClosePC
<1>1. [Next]_vars /\ TypeOK
  BY BridgeSteps DEF ReaderInv, FlightInv
<1>2. JobTypes'
  BY <1>1, JobTypesStep
<1>3. /\ \A r \in Accepted : /\ requests'[r].object = requests[r].object
                             /\ r \in Accepted'
  BY <1>1, MadeRequests DEF Accepted, RequestIds
<1>4. ASSUME NEW u \in Threads, call'[u] = call[u], job'[u] = job[u]
      PROVE  /\ JobFits(job'[u], call'[u])
             /\ job'[u].request # None =>
                   /\ job'[u].request \in Accepted'
                   /\ requests'[job'[u].request].object \in Objects
             /\ call'[u].pc = "wait" => call'[u].object = requests'[job'[u].request].object
  BY <1>3, <1>4 DEF JobOK, JobRequests, JobFits
<1>5. CASE NoJobStep
  BY <1>2, <1>4, <1>5 DEF NoJobStep, JobOK, JobRequests
<1>6. ASSUME NEW t \in Threads, JobStep(t) PROVE JobOK'
  <2>0. /\ job[t].request # None => /\ job[t].request \in Accepted
                                    /\ requests[job[t].request].object \in Objects
        /\ JobFits(job[t], call[t])
        /\ NoJob.request = None
        /\ job[t] \in Job
    BY DEF JobOK, JobRequests, NoJob, JobTypes
  <2>1. SUFFICES /\ JobFits(job'[t], call'[t])
                 /\ job'[t].request # None =>
                       /\ job'[t].request \in Accepted'
                       /\ requests'[job'[t].request].object \in Objects
                 /\ call'[t].pc = "wait" => call'[t].object = requests'[job'[t].request].object
    <3>1. ASSUME NEW u \in Threads
          PROVE  /\ JobFits(job'[u], call'[u])
                 /\ job'[u].request # None =>
                       /\ job'[u].request \in Accepted'
                       /\ requests'[job'[u].request].object \in Objects
                 /\ call'[u].pc = "wait" => call'[u].object = requests'[job'[u].request].object
      BY <1>4, <1>6, <2>1 DEF JobStep, Others
    <3> QED
      BY <1>2, <3>1 DEF JobOK, JobRequests
  <2>2. CASE Begins(t) \/ Submits(t)
    BY <2>0, <2>2 DEF Begins, Submits, JobFits
  <2>3. CASE Accepts(t)
    <3>1. /\ nextId \in RequestIds /\ nextId' = nextId + 1
          /\ requests'[nextId].object \in Objects
      BY <2>3, AcceptedRequest DEF Accepts, ReaderInv
    <3>2. nextId \in Accepted'
      BY <3>1 DEF Accepted, RequestIds
    <3>3. job'[t].request = nextId /\ call'[t].pc = "check_fd" /\ call'[t].request = nextId
      BY <2>0, <2>3 DEF Accepts, Job
    <3> QED
      BY <3>1, <3>2, <3>3 DEF JobFits
  <2>4. CASE Reads(t)
    BY <1>3, <2>0, <2>4 DEF Reads, JobFits
  <2>5. CASE Raises(t) \/ Counts(t) \/ Takes(t)
    BY <2>0, <2>5 DEF Raises, Counts, Takes, JobFits
  <2>6. CASE ReturnsPending(t) \/ Publishes(t)
    BY <1>3, <2>0, <2>6 DEF ReturnsPending, Publishes, JobFits
  <2>7. CASE StartsWaiting(t)
    BY <1>3, <2>0, <2>7 DEF StartsWaiting, JobFits
  <2>8. CASE Closes(t)
    BY <1>3, <2>0, <2>8 DEF Closes, JobFits, Free, At
  <2> QED
    BY <1>6, <2>2, <2>3, <2>4, <2>5, <2>6, <2>7, <2>8 DEF JobStep
<1> QED
  BY <1>1, <1>5, <1>6, JobSteps

----------------------------------------------------------------------------
(* Why a read finds the device open: a thread that closes is alone in the  *)
(* bridge and has cleared _initialized, which otherwise says that _fd is   *)
(* set, as does a thread past the opening of the device.                   *)
Opening == {"allocate", "set", "lock"} \cup ReadPC
OpenedOK ==
    /\ initialized => fd # None
    /\ \A t \in Threads : call[t].pc \in Opening => fd # None
ClosingAlone ==
    \A t \in Threads :
        call[t].pc \in ClosePC => ~initialized /\ \A u \in Threads \ {t} : Free(u)
DeviceOK == OpenedOK /\ ClosingAlone

(* A thread that closes stays alone in the bridge.                         *)
LEMMA AloneStep ==
    ASSUME TypeOK, JobOK, DeviceOK, [BridgeNext]_bridgeVars,
           NEW t \in Threads, NEW u \in Threads \ {t}, call'[t].pc \in ClosePC
    PROVE  Free(u)'
<1> USE DEF ClosePC, SubmitPC, ReadPC
<1>1. CASE NoJobStep
  BY <1>1 DEF NoJobStep, DeviceOK, ClosingAlone, Free, At
<1>2. ASSUME NEW s \in Threads, JobStep(s) PROVE Free(u)'
  <2>1. CASE s = t
    <3>1. Closes(t)
      BY <1>2, <2>1 DEF JobStep, Begins, Submits, Accepts, Reads, Raises, ReturnsPending,
         Publishes, Counts, StartsWaiting, Takes
    <3>2. Free(u)
      BY <3>1 DEF Closes, DeviceOK, ClosingAlone
    <3>3. call'[u] = call[u] /\ job'[u] = job[u]
      BY <1>2, <2>1 DEF JobStep, Others
    <3> QED
      BY <3>2, <3>3 DEF Free, At
  <2>2. CASE s # t
    <3>1. call[t].pc \in ClosePC
      BY <1>2, <2>2 DEF JobStep, Others
    <3>2. Free(s) /\ Closing /\ ~Free(t)
      BY <2>2, <3>1 DEF DeviceOK, ClosingAlone, Closing, Free, At
    <3>3. call[s].pc = "idle" /\ job[s] = NoJob /\ job[s].request = None
      BY <3>2 DEF Free, At, NoJob
    <3>4. FALSE
      BY <1>2, <3>2, <3>3 DEF JobStep, Begins, Submits, Accepts, Reads, Raises,
         ReturnsPending, Publishes, Counts, StartsWaiting, Takes, Closes
    <3> QED
      BY <3>4
  <2> QED
    BY <2>1, <2>2
<1> QED
  BY <1>1, <1>2, JobSteps

(* Every step of the bridge leaves the device open to those who read.      *)
LEMMA DeviceStep == TypeOK /\ JobOK /\ DeviceOK /\ [BridgeNext]_bridgeVars => DeviceOK'
<1> SUFFICES ASSUME TypeOK, JobOK, DeviceOK, [BridgeNext]_bridgeVars PROVE DeviceOK'
  OBVIOUS
<1> USE DEF TypeOK, device, tracking, At, ClosePC, Opening, ReadPC
<1>0. None \notin Fds
  BY NoneAssumption
<1>g. ASSUME NEW t \in Threads, NEW pc, Goto(t, pc)
      PROVE  call'[t].pc = pc /\ \A u \in Threads \ {t} : call'[u] = call[u]
  BY <1>g DEF Goto, Frame
<1>r. ASSUME NEW t \in Threads, Return(t)
      PROVE  call'[t].pc = "idle" /\ \A u \in Threads \ {t} : call'[u] = call[u]
  BY <1>r DEF Return, Idle
<1>1. SUFFICES OpenedOK' /\ \A t \in Threads : call'[t].pc \in ClosePC => ~initialized'
  BY <1>1, AloneStep DEF DeviceOK, ClosingAlone
\* t moves, _initialized and _fd stay.
<1>2. ASSUME NEW t \in Threads, \A u \in Threads \ {t} : call'[u] = call[u],
             UNCHANGED <<initialized, fd>>,
             call'[t].pc \in Opening => call[t].pc \in Opening \/ initialized,
             call'[t].pc \in ClosePC => call[t].pc \in ClosePC
      PROVE  OpenedOK' /\ \A u \in Threads : call'[u].pc \in ClosePC => ~initialized'
  BY <1>2 DEF DeviceOK, OpenedOK, ClosingAlone
<1>3. ASSUME NEW t \in Threads, Return(t), UNCHANGED <<initialized, fd>>
      PROVE  OpenedOK' /\ \A u \in Threads : call'[u].pc \in ClosePC => ~initialized'
  BY <1>2, <1>3, <1>r
<1>4. ASSUME NEW t \in Threads, InitCheck(t) \/ AllocateFixedBuffers(t) \/ CheckFd(t)
                                \/ ReadAt(t)
      PROVE  OpenedOK' /\ \A u \in Threads : call'[u].pc \in ClosePC => ~initialized'
  <2>1. /\ UNCHANGED <<initialized, fd>>
        /\ \/ Return(t)
           \/ Goto(t, "lock") /\ initialized
           \/ Goto(t, "open")
           \/ Goto(t, "set") /\ call[t].pc = "allocate"
           \/ Goto(t, "load_fd") /\ call[t].pc = "check_fd"
           \/ Goto(t, "publish") /\ call[t].pc = "read"
    BY <1>4 DEF InitCheck, IsInitialized, Initialized, AllocateFixedBuffers, CheckFd, ReadAt
  <2> QED
    BY <1>2, <1>3, <1>g, <2>1
<1>5. ASSUME NEW t \in Threads,
             \/ SubmitRefused(t) \/ Publish(t) \/ OpenRaises(t) \/ ReadRaises(t)
             \/ KvLoadReturns(t)
      PROVE  OpenedOK' /\ \A u \in Threads : call'[u].pc \in ClosePC => ~initialized'
  BY <1>3, <1>5 DEF SubmitRefused, Publish, OpenRaises, ReadRaises, KvLoadReturns, WaitTakes
<1>6. ASSUME NEW t \in Threads, SubmitAccepted(t) \/ LoadFd(t)
      PROVE  OpenedOK' /\ \A u \in Threads : call'[u].pc \in ClosePC => ~initialized'
  <2>1. /\ UNCHANGED <<initialized, fd>> /\ call[t].pc \in {"lock", "load_fd"}
        /\ call'[t].pc \in {"check_fd", "read"}
        /\ \A u \in Threads \ {t} : call'[u] = call[u]
    <3>1. SubmitAccepted(t) => call'[t].pc = "check_fd"
      BY DEF SubmitAccepted, Frame
    <3>2. LoadFd(t) => call'[t].pc = "read"
      BY DEF LoadFd, Frame
    <3>3. /\ UNCHANGED <<initialized, fd>> /\ call[t].pc \in {"lock", "load_fd"}
          /\ \A u \in Threads \ {t} : call'[u] = call[u]
      BY <1>6 DEF SubmitAccepted, LoadFd
    <3> QED
      BY <1>6, <3>1, <3>2, <3>3
  <2> QED
    BY <1>2, <2>1
<1>7. ASSUME NEW t \in Threads, NEW o \in Objects, SubmitRead(t, o) \/ WaitCompletion(t, o)
      PROVE  OpenedOK' /\ \A u \in Threads : call'[u].pc \in ClosePC => ~initialized'
  <2>1. /\ UNCHANGED <<initialized, fd>>
        /\ call'[t].pc \in {"init", "wait"}
        /\ \A u \in Threads \ {t} : call'[u] = call[u]
    BY <1>7 DEF SubmitRead, WaitCompletion, Idle
  <2> QED
    BY <1>2, <2>1
<1>8. ASSUME NEW t \in Threads, OpenDevice(t)
      PROVE  OpenedOK' /\ \A u \in Threads : call'[u].pc \in ClosePC => ~initialized'
  <2>1. /\ fd' # None /\ UNCHANGED initialized
        /\ call'[t].pc = "allocate" /\ \A u \in Threads \ {t} : call'[u] = call[u]
    BY <1>0, <1>8, <1>g DEF OpenDevice, LowestFree
  <2> QED
    BY <2>1 DEF DeviceOK, OpenedOK, ClosingAlone
<1>9. ASSUME NEW t \in Threads, FinishInitialize(t)
      PROVE  OpenedOK' /\ \A u \in Threads : call'[u].pc \in ClosePC => ~initialized'
  <2>1. /\ call[t].pc = "set" /\ UNCHANGED fd
        /\ Return(t) \/ Goto(t, "lock")
    BY <1>9 DEF FinishInitialize, Initialized
  <2>2. /\ call'[t].pc \in {"idle", "lock"} /\ \A u \in Threads \ {t} : call'[u] = call[u]
    BY <1>g, <1>r, <2>1
  <2>3. \A u \in Threads : call[u].pc \notin ClosePC
    BY <2>1 DEF DeviceOK, ClosingAlone, Free
  <2>4. fd # None
    BY <2>1 DEF DeviceOK, OpenedOK
  <2> QED
    BY <2>1, <2>2, <2>3, <2>4 DEF OpenedOK
<1>10. ASSUME NEW t \in Closers, BridgeClose(t)
       PROVE  OpenedOK' /\ \A u \in Threads : call'[u].pc \in ClosePC => ~initialized'
  <2>0. t \in Threads
    BY <1>10, ThreadsAssumption
  <2>1. CASE (\A u \in Threads : Free(u)) /\ Close(t)
    <3>1. /\ ~initialized' /\ UNCHANGED fd
          /\ \A u \in Threads : call'[u].pc \in {"idle", "check_close"}
      BY <1>g, <2>0, <2>1 DEF Close, Free
    <3> QED
      BY <3>1 DEF OpenedOK
  <2>2. CASE CheckClose(t) \/ OsClose(t)
    <3>1. /\ UNCHANGED <<initialized, fd>> /\ call[t].pc \in ClosePC
          /\ Return(t) \/ Goto(t, "os_close") \/ Goto(t, "clear")
      BY <2>2 DEF CheckClose, OsClose
    <3> QED
      BY <1>2, <1>3, <1>g, <2>0, <3>1
  <2>3. CASE ClearFd(t)
    <3>1. call[t].pc = "clear" /\ Return(t) /\ UNCHANGED initialized
      BY <2>3 DEF ClearFd
    <3>2. ~initialized /\ \A u \in Threads \ {t} : call[u].pc = "idle"
      BY <2>0, <3>1 DEF DeviceOK, ClosingAlone, Free
    <3>3. \A u \in Threads : call'[u].pc = "idle"
      BY <1>r, <2>0, <3>1, <3>2
    <3> QED
      BY <3>1, <3>2, <3>3 DEF OpenedOK
  <2> QED
    BY <1>10, <2>1, <2>2, <2>3 DEF BridgeClose
<1>11. CASE UNCHANGED <<call, initialized, fd>>
  BY <1>11 DEF DeviceOK, OpenedOK, ClosingAlone
<1>12. ASSUME NEW t \in Threads, CallStep(t)
       PROVE  OpenedOK' /\ \A u \in Threads : call'[u].pc \in ClosePC => ~initialized'
  <2>1. CASE ReaderStep(t) \/ BridgeAccepted(t) \/ BridgeRaises(t) \/ KvLoadReturns(t)
    BY <1>4, <1>5, <1>6, <1>8, <1>9, <2>1 DEF ReaderStep, BridgeAccepted, BridgeRaises
  <2>2. CASE KvLoadFromDram(t) \/ PrefetchSkip(t) \/ PrefetchCount(t)
    BY <1>11, <2>2 DEF KvLoadFromDram, PrefetchSkip, PrefetchCount, vars
  <2>3. CASE KvWait(t)
    BY <1>7, <2>3 DEF KvWait, JobOK, JobRequests
  <2>4. CASE PrefetchNext(t)
    <3>1. Head(job[t].rest) \in Objects
      BY <2>4 DEF PrefetchNext, Prefetching, JobOK, JobTypes, Job
    <3> QED
      BY <1>7, <2>4, <3>1 DEF PrefetchNext
  <2> QED
    BY <1>12, <2>1, <2>2, <2>3, <2>4 DEF CallStep
<1> QED
  BY <1>7, <1>10, <1>11, <1>12 DEF BridgeNext, RegisterKvLayout, RegisterLayout, KvLoad,
     KvLoadUnknown, MaybePrefetch, bridgeVars, vars

----------------------------------------------------------------------------
BridgeInv == ReaderInv /\ JobOK /\ DeviceOK

(* What the counting needs holds from the start, also when the device was  *)
(* opened before the threads began.                                        *)
LEMMA InitBridge == BridgeInit => BridgeInv
<1> SUFFICES ASSUME BridgeInit PROVE BridgeInv
  OBVIOUS
<1>1. ReaderInv
  BY InitReader DEF BridgeInit
<1>2. JobOK
  <2>1. NoJob \in Job /\ NoMetrics \in Counters /\ NoJob.request = None
    BY DEF NoJob, Job, NoMetrics, Counters
  <2> QED
    BY <2>1 DEF BridgeInit, Init, JobOK, JobTypes, JobRequests, JobFits, Idle, ReadPC,
       SubmitPC, ClosePC
<1>3. DeviceOK
  <2>1. initialized => fd # None
    BY NoneAssumption DEF BridgeInit, Init
  <2> QED
    BY <2>1 DEF BridgeInit, Init, Idle, DeviceOK, OpenedOK, ClosingAlone, Opening, ReadPC,
       ClosePC
<1> QED
  BY <1>1, <1>2, <1>3 DEF BridgeInv

(* Every step of the bridge keeps it.                                      *)
LEMMA BridgeInvStep == BridgeInv /\ [BridgeNext]_bridgeVars => BridgeInv'
<1> SUFFICES ASSUME BridgeInv, [BridgeNext]_bridgeVars PROVE BridgeInv'
  OBVIOUS
<1>1. TypeOK
  BY DEF BridgeInv, ReaderInv, FlightInv
<1>2. ReaderInv'
  BY BridgeSteps, ReaderInvStep DEF BridgeInv
<1> QED
  BY <1>1, <1>2, JobOKStep, DeviceStep DEF BridgeInv

----------------------------------------------------------------------------
(* The threads that the invariants of the bridge count.                    *)
Fetched(t) == At(t, "idle") /\ ~job[t].load /\ job[t].request # None
LoadedThreads == {t \in Threads : Loaded(t)}
FetchedThreads == {t \in Threads : Fetched(t)}
WaitingThreads == {t \in Threads : At(t, "wait")}
WantedThreads(o) == {t \in Threads : Loaded(t) /\ requests[job[t].request].object = o}

(* Two sets of threads that differ by one thread at most.                  *)
LEMMA CountThreads ==
    ASSUME IsFiniteSet(Threads), NEW t \in Threads,
           NEW A \in SUBSET Threads, NEW B \in SUBSET Threads,
           \A u \in Threads \ {t} : u \in A <=> u \in B
    PROVE  /\ Cardinality(A) \in Nat /\ Cardinality(B) \in Nat
           /\ t \in A /\ t \in B => Cardinality(B) = Cardinality(A)
           /\ t \notin A /\ t \notin B => Cardinality(B) = Cardinality(A)
           /\ t \notin A /\ t \in B => Cardinality(B) = Cardinality(A) + 1
           /\ t \in A /\ t \notin B => Cardinality(B) = Cardinality(A) - 1
<1>1. /\ IsFiniteSet(A) /\ IsFiniteSet(B)
      /\ Cardinality(A) \in Nat /\ Cardinality(B) \in Nat
  BY FS_Subset, FS_CardinalityType
<1>2. ASSUME (t \in A) <=> (t \in B) PROVE Cardinality(B) = Cardinality(A)
  <2>1. B = A
    BY <1>2
  <2> QED
    BY <2>1, Zenon
<1>3. ASSUME t \notin A, t \in B PROVE Cardinality(B) = Cardinality(A) + 1
  <2>1. B = A \cup {t}
    BY <1>3
  <2>2. Cardinality(A \cup {t}) = Cardinality(A) + 1
    BY <1>1, <1>3, FS_AddElement
  <2>3. Cardinality(B) = Cardinality(A \cup {t})
    BY <2>1, Zenon
  <2> QED
    BY <2>2, <2>3
<1>4. ASSUME t \in A, t \notin B PROVE Cardinality(B) = Cardinality(A) - 1
  <2>1. A = B \cup {t}
    BY <1>4
  <2>2. Cardinality(B \cup {t}) = Cardinality(B) + 1
    BY <1>1, <1>4, FS_AddElement
  <2>3. Cardinality(A) = Cardinality(B \cup {t})
    BY <2>1, Zenon
  <2> QED
    BY <1>1, <2>2, <2>3
<1> QED
  BY <1>1, <1>2, <1>3, <1>4

(* What a step does to the counted threads other than its own: nothing.    *)
LEMMA OthersCounted ==
    ASSUME BridgeInv, [BridgeNext]_bridgeVars, NEW u \in Threads,
           call'[u] = call[u], job'[u] = job[u], NEW o
    PROVE  /\ u \in LoadedThreads' <=> u \in LoadedThreads
           /\ u \in FetchedThreads' <=> u \in FetchedThreads
           /\ u \in WaitingThreads' <=> u \in WaitingThreads
           /\ u \in WantedThreads(o)' <=> u \in WantedThreads(o)
<1>1. job[u].request # None => requests'[job[u].request].object = requests[job[u].request].object
  <2>1. job[u].request # None => job[u].request \in Accepted
    BY DEF BridgeInv, JobOK, JobRequests
  <2>2. [Next]_vars /\ ReaderInv
    BY BridgeSteps DEF BridgeInv
  <2> QED
    BY <2>1, <2>2, MadeRequests
<1> QED
  BY <1>1 DEF LoadedThreads, FetchedThreads, WaitingThreads, WantedThreads, Loaded, Fetched, At

(* Most steps count no thread: the one that moves is in none of the sets,  *)
(* before and after.                                                       *)
Uncounted(t) ==
    /\ Begins(t) \/ Submits(t) \/ Accepts(t) \/ Reads(t) \/ Raises(t) \/ Closes(t)
    /\ Others(t)

(* With completions deferred no request is returned PENDING: the device is *)
(* open when it is asked for.                                              *)
LEMMA CountedSteps ==
    ASSUME DeferredCompletion, BridgeInv, NEW t \in Threads, JobStep(t)
    PROVE  \/ Uncounted(t)
           \/ Others(t) /\ (Publishes(t) \/ Counts(t) \/ StartsWaiting(t) \/ Takes(t))
<1>1. call[t].pc = "check_fd" => fd # None
  BY DEF BridgeInv, DeviceOK, OpenedOK, Opening, ReadPC
<1> QED
  BY <1>1 DEF JobStep, Uncounted, ReturnsPending

(* An uncounted step changes neither the queue, nor the counters, nor any  *)
(* of the counted sets.                                                    *)
LEMMA UncountedStep ==
    ASSUME BridgeInv, [BridgeNext]_bridgeVars, NEW t \in Threads, Uncounted(t), NEW o
    PROVE  /\ Calm
           /\ UNCHANGED <<LoadedThreads, FetchedThreads, WaitingThreads>>
           /\ WantedThreads(o)' = WantedThreads(o)
<1>0. JobFits(job[t], call[t]) /\ NoJob.request = None /\ (ReadPC \cap {"idle", "wait"} = {})
  BY DEF BridgeInv, JobOK, NoJob, ReadPC
<1>1. ~Loaded(t) /\ ~Fetched(t) /\ ~At(t, "wait")
  BY <1>0 DEF Uncounted, Begins, Submits, Accepts, Reads, Raises, Closes, Loaded, Fetched, At,
     SubmitPC, ReadPC, ClosePC, Free
<1>2. ~Loaded(t)' /\ ~Fetched(t)' /\ ~At(t, "wait")'
  BY <1>0 DEF Uncounted, Begins, Submits, Accepts, Reads, Raises, Closes, Loaded, Fetched, At,
     SubmitPC, ReadPC, ClosePC, Free, JobFits
<1>3. \A u \in Threads :
         /\ u \in LoadedThreads' <=> u \in LoadedThreads
         /\ u \in FetchedThreads' <=> u \in FetchedThreads
         /\ u \in WaitingThreads' <=> u \in WaitingThreads
         /\ u \in WantedThreads(o)' <=> u \in WantedThreads(o)
  <2> TAKE u \in Threads
  <2>1. CASE u = t
    BY <1>1, <1>2, <2>1 DEF LoadedThreads, FetchedThreads, WaitingThreads, WantedThreads
  <2>2. CASE u # t
    BY <2>2, OthersCounted DEF Uncounted, Others
  <2> QED
    BY <2>1, <2>2
<1>4. Calm
  BY DEF Uncounted, Begins, Submits, Accepts, Reads, Raises, Closes
<1> QED
  BY <1>3, <1>4 DEF LoadedThreads, FetchedThreads, WaitingThreads, WantedThreads

----------------------------------------------------------------------------
CountOK ==
    /\ Len(cq) = metrics.prefetches_issued + Cardinality(FetchedThreads)
                 + Cardinality(LoadedThreads)
    /\ Cardinality(delivered) + Cardinality(WaitingThreads) = metrics.kv_loads_from_flash

(* QueueIsPrefetches, with the counted sets named.                         *)
LEMMA CountsNamed == CountOK <=> QueueIsPrefetches
<1>1. /\ FetchedThreads = {t \in Threads : At(t, "idle") /\ ~job[t].load
                                           /\ job[t].request # None}
      /\ LoadedThreads = {t \in Threads : Loaded(t)}
      /\ WaitingThreads = {t \in Threads : At(t, "wait")}
  BY DEF FetchedThreads, Fetched, LoadedThreads, WaitingThreads
<1> QED
  BY <1>1, Zenon DEF CountOK, QueueIsPrefetches

(* Which of the counted sets the thread that moves is in, before and after.*)
LEMMA CountedThread ==
    ASSUME BridgeInv, BridgeInv', NEW t \in Threads
    PROVE  /\ Publishes(t) =>
                /\ t \notin LoadedThreads /\ (t \in LoadedThreads' <=> job[t].load)
                /\ t \notin FetchedThreads /\ (t \in FetchedThreads' <=> ~job[t].load)
                /\ t \notin WaitingThreads /\ t \notin WaitingThreads'
                /\ job[t].request = call[t].request /\ job'[t] = job[t]
                /\ call[t].request # None
           /\ Counts(t) =>
                /\ t \notin LoadedThreads /\ t \notin LoadedThreads'
                /\ t \in FetchedThreads /\ t \notin FetchedThreads'
                /\ t \notin WaitingThreads /\ t \notin WaitingThreads'
           /\ StartsWaiting(t) =>
                /\ t \in LoadedThreads /\ t \in LoadedThreads'
                /\ t \notin FetchedThreads /\ t \notin FetchedThreads'
                /\ t \notin WaitingThreads /\ t \in WaitingThreads'
           /\ Takes(t) =>
                /\ t \in LoadedThreads /\ t \notin LoadedThreads'
                /\ t \notin FetchedThreads /\ t \notin FetchedThreads'
                /\ t \in WaitingThreads /\ t \notin WaitingThreads'
                /\ call[t].object = requests[job[t].request].object
<1> USE DEF LoadedThreads, FetchedThreads, WaitingThreads, Loaded, Fetched, At
<1>0. /\ JobFits(job[t], call[t]) /\ JobRequests /\ NoJob.request = None
      /\ call[t].pc \in ReadPC => call[t].request \in RequestIds
      /\ None \notin RequestIds
      /\ job[t].load \in BOOLEAN /\ job'[t].load \in BOOLEAN
  BY NoneAssumption
     DEF BridgeInv, JobOK, JobTypes, Job, NoJob, ReaderInv, FlightInv, FramesOK, FrameOK, RequestIds
<1>1. Publishes(t) =>
        /\ t \notin LoadedThreads /\ (t \in LoadedThreads' <=> job[t].load)
        /\ t \notin FetchedThreads /\ (t \in FetchedThreads' <=> ~job[t].load)
        /\ t \notin WaitingThreads /\ t \notin WaitingThreads'
        /\ job[t].request = call[t].request /\ job'[t] = job[t]
        /\ call[t].request # None
  BY <1>0 DEF Publishes, JobFits, ReadPC
<1>2. Counts(t) =>
        /\ t \notin LoadedThreads /\ t \notin LoadedThreads'
        /\ t \in FetchedThreads /\ t \notin FetchedThreads'
        /\ t \notin WaitingThreads /\ t \notin WaitingThreads'
  BY <1>0 DEF Counts
<1>3. StartsWaiting(t) =>
        /\ t \in LoadedThreads /\ t \in LoadedThreads'
        /\ t \notin FetchedThreads /\ t \notin FetchedThreads'
        /\ t \notin WaitingThreads /\ t \in WaitingThreads'
  BY <1>0 DEF StartsWaiting
<1>4. Takes(t) =>
        /\ t \in LoadedThreads /\ t \notin LoadedThreads'
        /\ t \notin FetchedThreads /\ t \notin FetchedThreads'
        /\ t \in WaitingThreads /\ t \notin WaitingThreads'
        /\ call[t].object = requests[job[t].request].object
  BY <1>0 DEF Takes, JobFits, JobRequests
<1> QED
  BY <1>1, <1>2, <1>3, <1>4

(* Every step keeps the counts.                                            *)
LEMMA CountStep ==
    ASSUME IsFiniteSet(Threads), DeferredCompletion, BridgeInv, BridgeInv', CountOK,
           [BridgeNext]_bridgeVars
    PROVE  CountOK'
<1> DEFINE L == Cardinality(LoadedThreads)
           F == Cardinality(FetchedThreads)
           W == Cardinality(WaitingThreads)
           D == Cardinality(delivered)
<1>0. /\ metrics.prefetches_issued \in Nat /\ metrics.kv_loads_from_flash \in Nat
      /\ cq \in Seq(RequestIds) /\ Len(cq) \in Nat
      /\ delivered \in SUBSET RequestIds
  BY DEF BridgeInv, JobOK, JobTypes, Counters, ReaderInv, FlightInv, TypeOK
<1>d. IsFiniteSet(delivered) /\ D \in Nat
  <2>1. IsFiniteSet(RequestIds)
    BY FS_Interval, BoundsAssumption DEF RequestIds
  <2> QED
    BY <1>0, <2>1, FS_Subset, FS_CardinalityType
<1>1. CASE NoJobStep
  <2>1. /\ LoadedThreads' = LoadedThreads
        /\ FetchedThreads' = FetchedThreads
        /\ WaitingThreads' = WaitingThreads
    BY <1>1 DEF NoJobStep, LoadedThreads, FetchedThreads, WaitingThreads, Loaded, Fetched, At
  <2>2. UNCHANGED <<L, F, W>>
    BY <2>1, Zenon
  <2> QED
    BY <1>1, <2>2 DEF NoJobStep, Calm, SameQueue, SameCounts, CountOK
<1>2. ASSUME NEW t \in Threads, Uncounted(t) PROVE CountOK'
  <2>1. /\ Calm /\ LoadedThreads' = LoadedThreads /\ FetchedThreads' = FetchedThreads
        /\ WaitingThreads' = WaitingThreads
    BY <1>2, UncountedStep
  <2>2. UNCHANGED <<L, F, W>>
    BY <2>1, Zenon
  <2> QED
    BY <2>1, <2>2 DEF Calm, SameQueue, SameCounts, CountOK
<1>3. ASSUME NEW t \in Threads, Others(t),
             Publishes(t) \/ Counts(t) \/ StartsWaiting(t) \/ Takes(t)
      PROVE  CountOK'
  <2>o. \A u \in Threads \ {t} :
           /\ u \in LoadedThreads' <=> u \in LoadedThreads
           /\ u \in FetchedThreads' <=> u \in FetchedThreads
           /\ u \in WaitingThreads' <=> u \in WaitingThreads
    BY <1>3, OthersCounted DEF Others
  <2>s. /\ LoadedThreads \in SUBSET Threads /\ LoadedThreads' \in SUBSET Threads
        /\ FetchedThreads \in SUBSET Threads /\ FetchedThreads' \in SUBSET Threads
        /\ WaitingThreads \in SUBSET Threads /\ WaitingThreads' \in SUBSET Threads
    BY DEF LoadedThreads, FetchedThreads, WaitingThreads
  <2>l. /\ L \in Nat /\ L' \in Nat
        /\ t \in LoadedThreads /\ t \in LoadedThreads' => L' = L
        /\ t \notin LoadedThreads /\ t \notin LoadedThreads' => L' = L
        /\ t \notin LoadedThreads /\ t \in LoadedThreads' => L' = L + 1
        /\ t \in LoadedThreads /\ t \notin LoadedThreads' => L' = L - 1
    BY <2>o, <2>s, CountThreads
  <2>f. /\ F \in Nat /\ F' \in Nat
        /\ t \notin FetchedThreads /\ t \notin FetchedThreads' => F' = F
        /\ t \notin FetchedThreads /\ t \in FetchedThreads' => F' = F + 1
        /\ t \in FetchedThreads /\ t \notin FetchedThreads' => F' = F - 1
    BY <2>o, <2>s, CountThreads
  <2>w. /\ W \in Nat /\ W' \in Nat
        /\ t \notin WaitingThreads /\ t \notin WaitingThreads' => W' = W
        /\ t \notin WaitingThreads /\ t \in WaitingThreads' => W' = W + 1
        /\ t \in WaitingThreads /\ t \notin WaitingThreads' => W' = W - 1
    BY <2>o, <2>s, CountThreads
  <2>1. CASE Publishes(t)
    <3>1. /\ cq' = Append(cq, call[t].request) /\ delivered' = delivered
          /\ SameCounts
      BY <2>1 DEF Publishes
    <3>2. Len(cq') = Len(cq) + 1
      BY <1>0, <3>1
    <3>3. /\ W' = W
          /\ \/ L' = L + 1 /\ F' = F
             \/ L' = L /\ F' = F + 1
      BY <2>1, <2>l, <2>f, <2>w, CountedThread
    <3>4. D' = D
      BY <3>1, Zenon
    <3>7. SameCounts
      BY <3>1
    <3>5. CountOK <=> /\ Len(cq) = metrics.prefetches_issued + F + L
                      /\ D + W = metrics.kv_loads_from_flash
      BY Zenon DEF CountOK
    <3>6. CountOK' <=> /\ Len(cq') = metrics.prefetches_issued' + F' + L'
                       /\ D' + W' = metrics.kv_loads_from_flash'
      BY Zenon DEF CountOK
    <3>8. /\ metrics'.prefetches_issued = metrics.prefetches_issued
          /\ metrics'.kv_loads_from_flash = metrics.kv_loads_from_flash
      BY <3>7 DEF SameCounts
    <3>9. /\ Len(cq) = metrics.prefetches_issued + F + L
          /\ D + W = metrics.kv_loads_from_flash
      BY <3>5, CountOK, Zenon
    <3>n. /\ metrics.prefetches_issued \in Nat /\ Len(cq) \in Nat
          /\ L \in Nat /\ F \in Nat
      BY <1>0, <2>l, <2>f
    <3> HIDE DEF L, F, W, D
    <3>10. Len(cq') = metrics'.prefetches_issued + F' + L'
      BY <3>2, <3>3, <3>8, <3>9, <3>n
    <3>11. D' + W' = metrics'.kv_loads_from_flash
      BY <3>3, <3>4, <3>8, <3>9
    <3> QED
      BY <3>6, <3>10, <3>11
  <2>2. CASE Counts(t)
    <3>1. W' = W /\ L' = L /\ F' = F - 1
      BY <2>2, <2>l, <2>f, <2>w, CountedThread
    <3>2. cq' = cq /\ delivered' = delivered
          /\ metrics'.prefetches_issued = metrics.prefetches_issued + 1
          /\ metrics'.kv_loads_from_flash = metrics.kv_loads_from_flash
      BY <2>2 DEF Counts, SameQueue
    <3>3. Len(cq') = Len(cq) /\ D' = D
      BY <3>2, Zenon
    <3>4. /\ Len(cq) = metrics.prefetches_issued + F + L
          /\ D + W = metrics.kv_loads_from_flash
      BY CountOK, Zenon DEF CountOK
    <3>5. CountOK' <=> /\ Len(cq') = metrics'.prefetches_issued + F' + L'
                       /\ D' + W' = metrics'.kv_loads_from_flash
      BY Zenon DEF CountOK
    <3>n. /\ metrics.prefetches_issued \in Nat /\ metrics.kv_loads_from_flash \in Nat
          /\ Len(cq) \in Nat /\ L \in Nat /\ F \in Nat /\ W \in Nat /\ D \in Nat
      BY <1>0, <1>d, <2>l, <2>f, <2>w
    <3> HIDE DEF L, F, W, D
    <3>6. Len(cq') = metrics'.prefetches_issued + F' + L'
      BY <3>1, <3>2, <3>3, <3>4, <3>n
    <3>7. D' + W' = metrics'.kv_loads_from_flash
      BY <3>1, <3>2, <3>3, <3>4, <3>n
    <3> QED
      BY <3>5, <3>6, <3>7
  <2>3. CASE StartsWaiting(t)
    <3>1. W' = W + 1 /\ L' = L /\ F' = F
      BY <2>3, <2>l, <2>f, <2>w, CountedThread
    <3>2. cq' = cq /\ delivered' = delivered
          /\ metrics'.prefetches_issued = metrics.prefetches_issued
          /\ metrics'.kv_loads_from_flash = metrics.kv_loads_from_flash + 1
      BY <2>3 DEF StartsWaiting, SameQueue
    <3>3. Len(cq') = Len(cq) /\ D' = D
      BY <3>2, Zenon
    <3>4. /\ Len(cq) = metrics.prefetches_issued + F + L
          /\ D + W = metrics.kv_loads_from_flash
      BY CountOK, Zenon DEF CountOK
    <3>5. CountOK' <=> /\ Len(cq') = metrics'.prefetches_issued + F' + L'
                       /\ D' + W' = metrics'.kv_loads_from_flash
      BY Zenon DEF CountOK
    <3>n. /\ metrics.prefetches_issued \in Nat /\ metrics.kv_loads_from_flash \in Nat
          /\ Len(cq) \in Nat /\ L \in Nat /\ F \in Nat /\ W \in Nat /\ D \in Nat
      BY <1>0, <1>d, <2>l, <2>f, <2>w
    <3> HIDE DEF L, F, W, D
    <3>6. Len(cq') = metrics'.prefetches_issued + F' + L'
      BY <3>1, <3>2, <3>3, <3>4, <3>n
    <3>7. D' + W' = metrics'.kv_loads_from_flash
      BY <3>1, <3>2, <3>3, <3>4, <3>n
    <3> QED
      BY <3>5, <3>6, <3>7
  <2>4. CASE Takes(t)
    <3>1. W' = W - 1 /\ L' = L - 1 /\ F' = F
      BY <2>4, <2>l, <2>f, <2>w, CountedThread
    <3>2. PICK i \in 1 .. Len(cq) : cq' = RemoveAt(cq, i) /\ delivered' = delivered \cup {cq[i]}
      BY <2>4 DEF Takes
    <3>3. Len(cq') = Len(cq) - 1
      BY <1>0, <3>2, RemoveAtLemma
    <3>4. cq[i] \notin delivered
      BY <1>0 DEF BridgeInv, ReaderInv, AccountOK, Elements
    <3>5. D' = D + 1
      <4>1. Cardinality(delivered \cup {cq[i]}) = D + 1
        BY <1>d, <3>4, FS_AddElement
      <4> QED
        BY <3>2, <4>1, Zenon
    <3>6. SameCounts
      BY <2>4 DEF Takes
    <3>7. CountOK <=> /\ Len(cq) = metrics.prefetches_issued + F + L
                      /\ D + W = metrics.kv_loads_from_flash
      BY Zenon DEF CountOK
    <3>8. CountOK' <=> /\ Len(cq') = metrics.prefetches_issued' + F' + L'
                       /\ D' + W' = metrics.kv_loads_from_flash'
      BY Zenon DEF CountOK
    <3> HIDE DEF L, F, W, D
    <3> QED
      BY <1>0, <1>d, <2>l, <2>f, <2>w, <3>1, <3>3, <3>5, <3>6, <3>7, <3>8 DEF SameCounts
  <2> QED
    BY <1>3, <2>1, <2>2, <2>3, <2>4
<1> QED
  BY <1>1, <1>2, <1>3, JobSteps, CountedSteps DEF BridgeInv, ReaderInv, FlightInv, JobStep

(* Each prefetch that is issued leaves one completion in the queue for     *)
(* ever, and every load takes one: so it is for any finite set of threads  *)
(* and any lists of objects, whatever raises, when completions are         *)
(* deferred.                                                               *)
THEOREM PrefetchesFillTheQueue ==
    ASSUME IsFiniteSet(Threads), DeferredCompletion
    PROVE  BridgeSpec => []QueueIsPrefetches
<1>1. BridgeInit => CountOK
  <2> SUFFICES ASSUME BridgeInit PROVE CountOK
    OBVIOUS
  <2>1. Len(cq) = 0 /\ delivered = {} /\ metrics = NoMetrics
    BY DEF BridgeInit, Init
  <2>2. LoadedThreads = {} /\ FetchedThreads = {} /\ WaitingThreads = {}
    BY DEF BridgeInit, Init, Idle, NoJob, LoadedThreads, FetchedThreads, WaitingThreads,
       Loaded, Fetched, At
  <2>3. Cardinality({}) = 0
    BY FS_EmptySet
  <2>4. /\ Cardinality(LoadedThreads) = 0 /\ Cardinality(FetchedThreads) = 0
        /\ Cardinality(WaitingThreads) = 0 /\ Cardinality(delivered) = 0
    BY <2>1, <2>2, <2>3, Zenon
  <2> QED
    BY <2>1, <2>4 DEF CountOK, NoMetrics
<1>2. BridgeInv /\ BridgeInv' /\ CountOK /\ [BridgeNext]_bridgeVars => CountOK'
  BY CountStep
<1> QED
  BY <1>1, <1>2, CountsNamed, InitBridge, BridgeInvStep, PTL DEF BridgeSpec

----------------------------------------------------------------------------
(* The completions of one object in the queue.                             *)
OfObject(o) == {r \in Accepted : requests[r].object = o}
QueuedOf(o) == {i \in DOMAIN cq : requests[cq[i]].object = o}
ServedOK == \A o \in Objects : Cardinality(WantedThreads(o)) <= Cardinality(QueuedOf(o))

(* They are at the places of the object's requests.                        *)
LEMMA QueuedPlaces ==
    ASSUME BridgeInv, NEW o
    PROVE  /\ QueuedOf(o) = Places(cq, OfObject(o))
           /\ Cardinality(QueuedOf(o)) = Cardinality(Places(cq, OfObject(o)))
           /\ Cardinality(QueuedOf(o)) \in Nat
<1>1. cq \in Seq(RequestIds) /\ \A i \in DOMAIN cq : cq[i] \in Accepted
  BY DEF BridgeInv, ReaderInv, FlightInv, TypeOK, AccountOK, Elements, Accepted
<1>2. QueuedOf(o) = Places(cq, OfObject(o))
  BY <1>1 DEF QueuedOf, Places, OfObject
<1>3. Cardinality(QueuedOf(o)) = Cardinality(Places(cq, OfObject(o)))
  BY <1>2, Zenon
<1> QED
  BY <1>1, <1>2, <1>3, PlacesFinite

(* So they are in the next state.                                          *)
LEMMA QueuedPlacesNext ==
    ASSUME BridgeInv', NEW o
    PROVE  /\ Cardinality(QueuedOf(o))' = Cardinality(Places(cq, OfObject(o)))'
           /\ Cardinality(QueuedOf(o))' \in Nat
<1>1. cq' \in Seq(RequestIds) /\ \A i \in DOMAIN cq' : cq'[i] \in Accepted'
  BY DEF BridgeInv, ReaderInv, FlightInv, TypeOK, AccountOK, Elements, Accepted
<1>2. QueuedOf(o)' = Places(cq, OfObject(o))'
  BY <1>1 DEF QueuedOf, Places, OfObject
<1>3. Cardinality(QueuedOf(o))' = Cardinality(Places(cq, OfObject(o)))'
  BY <1>2, Zenon
<1>4. Cardinality(Places(cq, OfObject(o)))' \in Nat
  <2>1. Cardinality(Places(cq', OfObject(o)')) \in Nat
    BY <1>1, PlacesFinite
  <2>2. Places(cq, OfObject(o))' = Places(cq', OfObject(o)')
    BY DEF Places
  <2> QED
    BY <2>1, <2>2, Zenon
<1> QED
  BY <1>3, <1>4

(* A step that leaves the queue alone leaves them alone.                   *)
LEMMA QueuedKept ==
    ASSUME BridgeInv, [BridgeNext]_bridgeVars, UNCHANGED cq, NEW o
    PROVE  Cardinality(QueuedOf(o))' = Cardinality(QueuedOf(o))
<1>1. \A i \in DOMAIN cq : cq[i] \in Accepted
  BY DEF BridgeInv, ReaderInv, FlightInv, TypeOK, AccountOK, Elements, Accepted
<1>2. \A r \in Accepted : requests'[r].object = requests[r].object
  BY BridgeSteps, MadeRequests DEF BridgeInv
<1>3. QueuedOf(o)' = QueuedOf(o)
  BY <1>1, <1>2 DEF QueuedOf
<1> QED
  BY <1>3, Zenon

(* A publication adds a completion for the object of its request.          *)
LEMMA QueuedPublished ==
    ASSUME BridgeInv, BridgeInv', NEW t \in Threads, Publishes(t), NEW o
    PROVE  Cardinality(QueuedOf(o))' =
              Cardinality(QueuedOf(o)) + (IF requests[call[t].request].object = o THEN 1 ELSE 0)
<1>1. /\ cq \in Seq(RequestIds) /\ cq' = Append(cq, call[t].request)
      /\ UNCHANGED <<requests, nextId>>
  BY DEF Publishes, BridgeInv, ReaderInv, FlightInv, TypeOK
<1>2. call[t].request \in Accepted
  <2>1. Reading(t) /\ call[t].request \in RequestIds /\ call[t].object \in Objects
    BY DEF Publishes, Reading, BridgeInv, ReaderInv, FlightInv, FramesOK, FrameOK, ReadPC
  <2> QED
    BY <2>1, NoneAssumption
       DEF BridgeInv, ReaderInv, FlightInv, FlightOK, Accepted, RequestIds
<1>3. OfObject(o)' = OfObject(o)
  BY <1>1 DEF OfObject, Accepted
<1>4. Places(cq, OfObject(o))' = Places(Append(cq, call[t].request), OfObject(o))
  BY <1>1, <1>3 DEF Places
<1>5. Cardinality(Places(cq, OfObject(o)))' =
         Cardinality(Places(Append(cq, call[t].request), OfObject(o)))
  BY <1>4, Zenon
<1>6. Cardinality(Places(Append(cq, call[t].request), OfObject(o))) =
         Cardinality(Places(cq, OfObject(o)))
            + (IF call[t].request \in OfObject(o) THEN 1 ELSE 0)
  <2>1. call[t].request \in RequestIds
    BY <1>2 DEF Accepted
  <2> QED
    BY <1>1, <2>1, CountAppend
<1>7. call[t].request \in OfObject(o) <=> requests[call[t].request].object = o
  BY <1>2 DEF OfObject
<1>8. Cardinality(QueuedOf(o))' = Cardinality(Places(cq, OfObject(o)))'
  BY QueuedPlacesNext
<1> QED
  BY <1>5, <1>6, <1>7, <1>8, QueuedPlaces

(* A load that returns takes a completion of its own object.               *)
LEMMA QueuedTaken ==
    ASSUME BridgeInv, BridgeInv', NEW t \in Threads, Takes(t), NEW o
    PROVE  Cardinality(QueuedOf(o))' =
              Cardinality(QueuedOf(o)) - (IF call[t].object = o THEN 1 ELSE 0)
<1>1. cq \in Seq(RequestIds) /\ UNCHANGED <<requests, nextId>>
  BY DEF Takes, BridgeInv, ReaderInv, FlightInv, TypeOK
<1>2. PICK i \in 1 .. Len(cq) : requests[cq[i]].object = call[t].object /\ cq' = RemoveAt(cq, i)
  BY DEF Takes
<1>3. OfObject(o)' = OfObject(o)
  BY <1>1 DEF OfObject, Accepted
<1>4. Places(cq, OfObject(o))' = Places(RemoveAt(cq, i), OfObject(o))
  BY <1>2, <1>3, Zenon DEF Places
<1>5. Cardinality(Places(cq, OfObject(o)))' = Cardinality(Places(RemoveAt(cq, i), OfObject(o)))
  BY <1>4, Zenon
<1>6. Cardinality(Places(RemoveAt(cq, i), OfObject(o))) =
         Cardinality(Places(cq, OfObject(o))) - (IF cq[i] \in OfObject(o) THEN 1 ELSE 0)
  BY <1>1, CountRemoveAt
<1>7. cq[i] \in OfObject(o) <=> call[t].object = o
  <2>1. cq[i] \in Accepted
    BY <1>1 DEF BridgeInv, ReaderInv, AccountOK, Elements, Accepted
  <2> QED
    BY <1>2, <2>1 DEF OfObject
<1>8. Cardinality(QueuedOf(o))' = Cardinality(Places(cq, OfObject(o)))'
  BY QueuedPlacesNext
<1> QED
  BY <1>5, <1>6, <1>7, <1>8, QueuedPlaces

(* Every step keeps a completion in the queue for each load that will take *)
(* one.                                                                    *)
LEMMA ServedStep ==
    ASSUME IsFiniteSet(Threads), DeferredCompletion, BridgeInv, BridgeInv', ServedOK,
           [BridgeNext]_bridgeVars
    PROVE  ServedOK'
<1> SUFFICES ASSUME NEW o \in Objects
             PROVE  Cardinality(WantedThreads(o))' <= Cardinality(QueuedOf(o))'
  BY DEF ServedOK
<1> DEFINE W == Cardinality(WantedThreads(o))
           Q == Cardinality(QueuedOf(o))
<1>0. W <= Q /\ Q \in Nat /\ Q' \in Nat
  BY QueuedPlaces, QueuedPlacesNext DEF ServedOK
<1>1. CASE NoJobStep
  <2>1. WantedThreads(o)' = WantedThreads(o)
    BY <1>1 DEF NoJobStep, WantedThreads, Loaded
  <2>2. W' = W
    BY <2>1, Zenon
  <2>3. Q' = Q
    BY <1>1, QueuedKept DEF NoJobStep, Calm, SameQueue
  <2> QED
    BY <1>0, <2>2, <2>3
<1>2. ASSUME NEW t \in Threads, Uncounted(t) PROVE W' <= Q'
  <2>1. Calm /\ WantedThreads(o)' = WantedThreads(o)
    BY <1>2, UncountedStep
  <2>2. W' = W
    BY <2>1, Zenon
  <2>3. Q' = Q
    BY <2>1, QueuedKept DEF Calm, SameQueue
  <2> QED
    BY <1>0, <2>2, <2>3
<1>3. ASSUME NEW t \in Threads, Others(t),
             Publishes(t) \/ Counts(t) \/ StartsWaiting(t) \/ Takes(t)
      PROVE  W' <= Q'
  <2>o. \A u \in Threads \ {t} : u \in WantedThreads(o)' <=> u \in WantedThreads(o)
    BY <1>3, OthersCounted DEF Others
  <2>s. WantedThreads(o) \in SUBSET Threads /\ WantedThreads(o)' \in SUBSET Threads
    BY DEF WantedThreads
  <2>w. /\ W \in Nat /\ W' \in Nat
        /\ t \in WantedThreads(o) /\ t \in WantedThreads(o)' => W' = W
        /\ t \notin WantedThreads(o) /\ t \notin WantedThreads(o)' => W' = W
        /\ t \notin WantedThreads(o) /\ t \in WantedThreads(o)' => W' = W + 1
        /\ t \in WantedThreads(o) /\ t \notin WantedThreads(o)' => W' = W - 1
    BY <2>o, <2>s, CountThreads
  <2>m. /\ t \in WantedThreads(o) <=>
             t \in LoadedThreads /\ requests[job[t].request].object = o
        /\ t \in WantedThreads(o)' <=>
             t \in LoadedThreads' /\ requests'[job'[t].request].object = o
    BY DEF WantedThreads, LoadedThreads
  <2>1. CASE Publishes(t)
    <3>1. Q' = Q + (IF requests[call[t].request].object = o THEN 1 ELSE 0)
      BY <2>1, QueuedPublished
    <3>2. /\ t \notin LoadedThreads
          /\ job[t].request = call[t].request /\ job'[t] = job[t]
          /\ UNCHANGED requests
      BY <2>1, CountedThread DEF Publishes
    <3> HIDE DEF W, Q
    <3> QED
      BY <1>0, <2>w, <2>m, <3>1, <3>2
  <2>2. CASE Counts(t)
    <3>1. t \notin LoadedThreads /\ t \notin LoadedThreads'
      BY <2>2, CountedThread
    <3>2. Q' = Q
      BY <2>2, QueuedKept DEF Counts, SameQueue
    <3> HIDE DEF W, Q
    <3> QED
      BY <1>0, <2>w, <2>m, <3>1, <3>2
  <2>3. CASE StartsWaiting(t)
    <3>1. /\ t \in LoadedThreads /\ t \in LoadedThreads'
          /\ job'[t] = job[t] /\ UNCHANGED requests
      BY <2>3, CountedThread DEF StartsWaiting
    <3>2. Q' = Q
      BY <2>3, QueuedKept DEF StartsWaiting, SameQueue
    <3> HIDE DEF W, Q
    <3> QED
      BY <1>0, <2>w, <2>m, <3>1, <3>2
  <2>4. CASE Takes(t)
    <3>1. /\ t \in LoadedThreads /\ t \notin LoadedThreads'
          /\ call[t].object = requests[job[t].request].object
      BY <2>4, CountedThread
    <3>2. Q' = Q - (IF call[t].object = o THEN 1 ELSE 0)
      BY <2>4, QueuedTaken
    <3> HIDE DEF W, Q
    <3> QED
      BY <1>0, <2>w, <2>m, <3>1, <3>2
  <2> QED
    BY <1>3, <2>1, <2>2, <2>3, <2>4
<1> QED
  BY <1>1, <1>2, <1>3, JobSteps, CountedSteps DEF BridgeInv, ReaderInv, FlightInv, JobStep

(* However many threads load and prefetch an object, a load that waits     *)
(* finds a completion of it in the queue: none sleeps for its 5 seconds.   *)
THEOREM LoadsNeverSleep ==
    ASSUME IsFiniteSet(Threads), DeferredCompletion
    PROVE  BridgeSpec => []WaitersAreServed
<1>1. BridgeInit => ServedOK
  <2> SUFFICES ASSUME BridgeInit, NEW o \in Objects
               PROVE  Cardinality(WantedThreads(o)) <= Cardinality(QueuedOf(o))
    BY DEF ServedOK
  <2>1. WantedThreads(o) = {} /\ QueuedOf(o) = {}
    BY DEF BridgeInit, Init, Idle, NoJob, WantedThreads, Loaded, QueuedOf
  <2>2. Cardinality({}) = 0
    BY FS_EmptySet
  <2>3. Cardinality(WantedThreads(o)) = 0 /\ Cardinality(QueuedOf(o)) = 0
    BY <2>1, <2>2, Zenon
  <2> QED
    BY <2>3
<1>2. ServedOK => WaitersAreServed
  BY Zenon DEF ServedOK, WaitersAreServed, WantedThreads, QueuedOf
<1>3. BridgeInv /\ BridgeInv' /\ ServedOK /\ [BridgeNext]_bridgeVars => ServedOK'
  BY ServedStep
<1> QED
  BY <1>1, <1>2, <1>3, InitBridge, BridgeInvStep, PTL DEF BridgeSpec

----------------------------------------------------------------------------
(* A load that is about to wait, or waits, has had its own read finished.  *)
ReadOver == \A t \in Threads : Loaded(t) => requests[job[t].request].status # "PENDING"

(* A request that was made keeps a status other than PENDING.              *)
LEMMA StatusKept ==
    ASSUME ReaderInv, [Next]_vars, NEW r \in Accepted, requests[r].status # "PENDING"
    PROVE  requests'[r].status # "PENDING"
<1>0. r \in RequestIds /\ r # nextId
  BY DEF Accepted, ReaderInv, FlightInv, TypeOK, RequestIds
<1>1. ASSUME NEW t \in Threads, SubmitAccepted(t) PROVE requests'[r] = requests[r]
  BY <1>0, <1>1, AcceptedRequest DEF ReaderInv
<1>2. ASSUME NEW t \in Threads, ReadAt(t) PROVE requests'[r].status # "PENDING"
  BY <1>0, <1>2, ReadRequest DEF ReaderInv, StatusOf
<1> QED
  BY <1>1, <1>2, RequestSteps

(* A thread comes to wait from the end of its own read alone: with         *)
(* completions deferred, no request is returned PENDING.                   *)
LEMMA ReadOverStep ==
    ASSUME DeferredCompletion, BridgeInv, BridgeInv', ReadOver, [BridgeNext]_bridgeVars
    PROVE  ReadOver'
<1> SUFFICES ASSUME NEW u \in Threads, Loaded(u)'
             PROVE  requests'[job'[u].request].status # "PENDING"
  BY DEF ReadOver
<1>0. ReaderInv /\ [Next]_vars
  BY BridgeSteps DEF BridgeInv
<1>1. CASE Loaded(u) /\ job'[u].request = job[u].request
  <2>1. job[u].request \in Accepted
    BY <1>1 DEF Loaded, BridgeInv, JobOK, JobRequests
  <2> QED
    BY <1>0, <1>1, <2>1, StatusKept DEF ReadOver
<1>2. CASE NoJobStep
  BY <1>1, <1>2 DEF NoJobStep, Loaded
<1>3. ASSUME NEW t \in Threads, JobStep(t)
      PROVE  requests'[job'[u].request].status # "PENDING"
  <2>1. CASE u # t
    BY <1>1, <1>3, <2>1 DEF JobStep, Others, Loaded
  <2>2. CASE u = t /\ Uncounted(t)
    <3>1. LoadedThreads' = LoadedThreads
      BY <2>2, UncountedStep
    <3>2. /\ JobFits(job[t], call[t]) /\ NoJob.request = None
          /\ (ReadPC \cap {"idle", "wait"} = {})
      BY DEF BridgeInv, JobOK, NoJob, ReadPC
    <3>3. ~Loaded(t)
      BY <2>2, <3>2 DEF Uncounted, Begins, Submits, Accepts, Reads, Raises, Closes, Loaded,
         SubmitPC, ReadPC, ClosePC, Free, At
    <3> QED
      BY <2>2, <3>1, <3>3 DEF LoadedThreads
  <2>3. CASE u = t /\ Publishes(t)
    <3>1. job[t].request = call[t].request /\ job'[t] = job[t]
      BY CountedThread, <2>3
    <3>2. requests[call[t].request].status = StatusOf(call[t].entry) /\ UNCHANGED requests
      BY <2>3 DEF Publishes, BridgeInv, ReaderInv, DataOK, FramesData, FrameData
    <3> QED
      BY <2>3, <3>1, <3>2 DEF StatusOf
  <2>4. CASE u = t /\ (Counts(t) \/ Takes(t))
    BY <2>4, CountedThread DEF LoadedThreads
  <2>5. CASE u = t /\ StartsWaiting(t)
    <3>1. Loaded(t) /\ job'[t] = job[t]
      BY <2>5, CountedThread DEF StartsWaiting, LoadedThreads
    <3> QED
      BY <1>1, <2>5, <3>1
  <2> QED
    BY <1>3, <2>1, <2>2, <2>3, <2>4, <2>5, CountedSteps
<1> QED
  BY <1>2, <1>3, JobSteps DEF BridgeInv, ReaderInv, FlightInv

----------------------------------------------------------------------------
(* A descriptor is open until a close has closed it, and then nobody reads *)
(* until it is forgotten.                                                  *)
QuietOK == OpenOK \/ \E t \in Threads : At(t, "clear")

(* While a thread is about to forget the descriptor, only it moves.        *)
LEMMA ClearAlone ==
    ASSUME JobOK, DeviceOK, [BridgeNext]_bridgeVars, NEW s \in Threads, At(s, "clear")
    PROVE  ClearFd(s) \/ At(s, "clear")'
<1>1. \A u \in Threads \ {s} : Free(u)
  BY DEF DeviceOK, ClosingAlone, ClosePC, At
<1>2. Closing /\ ~Free(s)
  BY DEF Closing, Free, At
<1>3. ASSUME NEW t \in Threads, CallStep(t) PROVE FALSE
  <2>1. CASE t = s
    BY <1>3, <2>1 DEF CallStep, ReaderStep, BridgeAccepted, BridgeRaises, KvLoadFromDram, KvWait,
       KvLoadReturns, WaitTakes, PrefetchSkip, PrefetchNext, PrefetchCount, Prefetching, At,
       InitCheck, OpenDevice, OpenRaises, AllocateFixedBuffers, FinishInitialize, SubmitRefused,
       SubmitAccepted, CheckFd, LoadFd, ReadAt, ReadRaises, Publish
  <2>2. CASE t # s
    <3>1. call[t].pc = "idle" /\ job[t] = NoJob
      BY <1>1, <2>2 DEF Free, At
    <3> QED
      BY <1>3, <3>1 DEF CallStep, ReaderStep, BridgeAccepted, BridgeRaises, KvLoadFromDram, KvWait,
       KvLoadReturns, WaitTakes, PrefetchSkip, PrefetchNext, PrefetchCount, Prefetching, At,
       InitCheck, OpenDevice, OpenRaises, AllocateFixedBuffers, FinishInitialize, SubmitRefused,
       SubmitAccepted, CheckFd, LoadFd, ReadAt, ReadRaises, Publish, NoJob
  <2> QED
    BY <2>1, <2>2
<1>4. ASSUME NEW t \in Closers, BridgeClose(t) PROVE ClearFd(s)
  <2>1. t \in Threads
    BY <1>4, ThreadsAssumption
  <2> QED
    BY <1>1, <1>2, <1>4, <2>1 DEF BridgeClose, CheckClose, OsClose, ClearFd, Free, At
<1>5. CASE UNCHANGED call
  BY <1>5 DEF At
<1> QED
  BY <1>2, <1>3, <1>4, <1>5 DEF BridgeNext, RegisterKvLayout, RegisterLayout, KvLoad, KvLoadUnknown,
     MayLoad, MaybePrefetch, bridgeVars, vars

(* A close that waits for the calls under way takes no descriptor from     *)
(* them.                                                                   *)
LEMMA QuietStep ==
    ASSUME TypeOK, JobOK, DeviceOK, QuietOK, [BridgeNext]_bridgeVars
    PROVE  QuietOK'
<1>1. ASSUME NEW s \in Threads, At(s, "clear") PROVE QuietOK'
  <2>1. CASE ClearFd(s)
    <3>1. fd' = None /\ call'[s].pc = "idle" /\ \A u \in Threads \ {s} : call'[u] = call[u]
      BY <2>1 DEF ClearFd, NoFd, Return, Idle, TypeOK
    <3>2. \A u \in Threads \ {s} : call[u].pc = "idle"
      BY <1>1 DEF DeviceOK, ClosingAlone, ClosePC, Free, At
    <3> QED
      BY <3>1, <3>2 DEF QuietOK, OpenOK
  <2> QED
    BY <1>1, <2>1, ClearAlone DEF QuietOK
<1>2. ASSUME OpenOK, NEW t \in Threads, ClosesDevice(t), ~At(t, "clear") PROVE QuietOK'
  <2>1. CASE OsClose(t)
    <3>1. At(t, "clear")'
      BY <2>1 DEF OsClose, Goto, Frame, TypeOK, At
    <3> QED
      BY <3>1 DEF QuietOK
  <2>2. CASE Close(t) \/ CheckClose(t) \/ OsCloseRaises(t)
    <3>1. /\ UNCHANGED <<fd, openFds>> /\ call'[t].pc \in {"idle", "check_close", "os_close"}
          /\ \A u \in Threads \ {t} : call'[u] = call[u]
      BY <2>2 DEF Close, CheckClose, OsCloseRaises, Goto, Return, Idle, Frame, TypeOK, device
    <3> QED
      BY <1>2, <3>1 DEF QuietOK, OpenOK
  <2> QED
    BY <1>2, <2>1, <2>2 DEF ClosesDevice, ClearFd
<1>3. ASSUME OpenOK, \A t \in Closers : ~ClosesDevice(t) PROVE QuietOK'
  BY <1>3, OpenStep, BridgeSteps DEF QuietOK
<1> QED
  BY <1>1, <1>2, <1>3, ThreadsAssumption DEF QuietOK

(* However many threads load and prefetch, and race to open the device     *)
(* again after a close between calls, a read uses an open descriptor.      *)
THEOREM LoadsReadOpenDevice == BridgeSpec => []ReadsOpenDevice
<1>1. BridgeInit => QuietOK
  BY DEF BridgeInit, Init, Idle, QuietOK, OpenOK
<1>2. BridgeInv /\ QuietOK /\ [BridgeNext]_bridgeVars => QuietOK'
  BY QuietStep DEF BridgeInv, ReaderInv, FlightInv
<1>3. BridgeInv /\ QuietOK => ReadsOpenDevice
  <2> SUFFICES ASSUME BridgeInv, QuietOK, NEW t \in Threads, At(t, "read")
               PROVE  call[t].fd \in openFds
    BY DEF ReadsOpenDevice
  <2> QED
    BY DEF BridgeInv, DeviceOK, ClosingAlone, ClosePC, Free, QuietOK, OpenOK, At
<1> QED
  BY <1>1, <1>2, <1>3, InitBridge, BridgeInvStep, PTL DEF BridgeSpec

----------------------------------------------------------------------------
(* For any hash of the objects, any re-registrations and any number of     *)
(* threads that load and prefetch meanwhile: a load waits and returns      *)
(* after its own read only, and the bytes at the address it returns are    *)
(* its own or those of a read that overlapped it or came later.            *)
THEOREM LoadsReturnFreshBytes ==
    ASSUME DeferredCompletion
    PROVE  BridgeSpec => []LoadedInPlace
<1>1. BridgeInit => ReadOver /\ PlaceOK
  <2>1. BridgeInit => PlaceOK
    BY InitPlace DEF BridgeInit
  <2>2. BridgeInit => ReadOver
    BY DEF BridgeInit, Init, Idle, NoJob, ReadOver, Loaded
  <2> QED
    BY <2>1, <2>2
<1>2. /\ BridgeInv /\ BridgeInv' /\ ReadOver /\ [BridgeNext]_bridgeVars => ReadOver'
      /\ BridgeInv /\ PlaceOK /\ [BridgeNext]_bridgeVars => PlaceOK'
  BY ReadOverStep, PlaceStep, BridgeSteps DEF BridgeInv
<1>3. BridgeInv /\ ReadOver /\ PlaceOK => LoadedInPlace
  BY DEF BridgeInv, JobOK, JobRequests, ReadOver, PlaceOK, LoadedInPlace, Loaded
<1> QED
  BY <1>1, <1>2, <1>3, InitBridge, BridgeInvStep, PTL DEF BridgeSpec
============================================================================
