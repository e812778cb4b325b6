---------------------------- MODULE FlashReader ----------------------------
(***************************************************************************)
(* AsyncFlashReader (runtime/flash_io.py) as used from several threads.    *)
(*                                                                         *)
(* Each thread runs one call at a time; the frame of its call is a program *)
(* counter and the locals the rest of the call reads.  A "with self._lock" *)
(* block is one step, because nothing inside one blocks.  Outside the lock *)
(* every access to a shared attribute is a step of its own: the code tests *)
(* _initialized and then opens, tests _fd and then reads _fd again, closes *)
(* the descriptor and then forgets it.  Steps of which one only touches    *)
(* locals are joined with the next.                                        *)
(*                                                                         *)
(* A flash layout entry (offset, size) is a model value.  A read of an     *)
(* entry in Truncated returns fewer bytes than the entry asks for: it runs *)
(* past the end of the device, or is larger than a fixed buffer.           *)
(***************************************************************************)
EXTENDS Naturals, Sequences, FiniteSets, SequencesExt

CONSTANTS
    Threads,
    Closers,             \* the threads that may call close()
    Objects,             \* object ids
    Entries,             \* flash layout entries
    Truncated,           \* the entries whose read comes back short
    None,                \* Python's None
    FixedBufferCount,    \* config.fixed_buffer_count
    BufferOf,            \* hash(object_id) % fixed_buffer_count
    DeferredCompletion,  \* config.deferred_completion
    IOErrors,            \* whether os.open and os.pread may raise
    Preinitialized,      \* whether initialize() returned before threads start
    Relayout,            \* whether an object may be registered again
    Fds,                 \* descriptor numbers the process may have open
    MaxRequests,         \* bound: requests accepted in a behaviour
    MaxBatches           \* bound: close() is not called after this many batches

ASSUME ThreadsAssumption == Closers \subseteq Threads
ASSUME EntriesAssumption == Truncated \subseteq Entries
ASSUME BufferAssumption ==
    /\ FixedBufferCount \in Nat \ {0}
    /\ BufferOf \in [Objects -> 0 .. FixedBufferCount - 1]
ASSUME FlagsAssumption ==
    /\ DeferredCompletion \in BOOLEAN
    /\ IOErrors \in BOOLEAN
    /\ Preinitialized \in BOOLEAN
    /\ Relayout \in BOOLEAN
ASSUME BoundsAssumption ==
    /\ Fds \subseteq Nat
    /\ MaxRequests \in Nat
    /\ MaxBatches \in Nat
ASSUME PreinitializedAssumption == Preinitialized => Fds # {}
ASSUME NoneAssumption ==
    None \notin Objects \cup Entries \cup Fds \cup (1 .. MaxRequests)

RequestIds == 1 .. MaxRequests
Buffers == 0 .. FixedBufferCount - 1
IOStatus == {"PENDING", "COMPLETED", "FAILED"}

\* An IORequest; requests not made yet have no object.
IORequest ==
    [object : Objects \cup {None}, entry : Entries \cup {None}, status : IOStatus]
NoRequest == [object |-> None, entry |-> None, status |-> "PENDING"]

\* Where a thread is, and the locals of its call.
ProgramCounter ==
    {"idle",
     "init", "open", "allocate", "set",                  \* initialize
     "lock", "check_fd", "load_fd", "read", "publish",   \* submit_read
     "wait",                                             \* wait_completion
     "check_close", "os_close", "clear"}                 \* close
Frame ==
    [pc      : ProgramCounter,
     object  : Objects \cup {None},
     entry   : Entries \cup {None},
     request : RequestIds \cup {None},
     fd      : Fds \cup {None}]
Idle == [pc |-> "idle", object |-> None, entry |-> None, request |-> None, fd |-> None]

VARIABLES
    layout_map,   \* object id -> layout entry
    initialized,  \* _initialized
    fd,           \* _fd
    openFds,      \* the descriptors the process has open on the device
    batches,      \* times _fixed_buffers was filled with fixed_buffer_count more
    buffers,      \* the request whose read was last to fill each fixed buffer
    requests,     \* the IORequest of each request id
    nextId,       \* the id of the next request
    in_flight,    \* _in_flight: object id -> request id
    cq,           \* _cq: a sequence of request ids
    delivered,    \* ghost: the requests handed to a poller or a waiter
    others,       \* ghost: the requests in flight when each one was accepted
    call          \* the frame of each thread

device == <<initialized, fd, openFds, batches>>
tracking == <<requests, nextId, in_flight, cq, delivered, others>>
vars == <<layout_map, device, buffers, tracking, call>>

\* The kernel gives out the lowest descriptor that is free.
LowestFree(f) == f \in Fds \ openFds /\ \A g \in Fds \ openFds : f <= g

Init ==
    /\ layout_map = [o \in Objects |-> None]
    /\ \/ /\ ~Preinitialized
          /\ initialized = FALSE /\ fd = None /\ openFds = {} /\ batches = 0
       \/ /\ Preinitialized
          /\ initialized = TRUE /\ fd \in Fds /\ (\A g \in Fds : fd <= g)
          /\ openFds = {fd} /\ batches = 1
    /\ buffers = [b \in Buffers |-> None]
    /\ requests = [r \in RequestIds |-> NoRequest]
    /\ nextId = 1
    /\ in_flight = [o \in Objects |-> None]
    /\ cq = <<>>
    /\ delivered = {}
    /\ others = [r \in RequestIds |-> {}]
    /\ call = [t \in Threads |-> Idle]

At(t, pc) == call[t].pc = pc
Goto(t, pc) == call' = [call EXCEPT ![t].pc = pc]
Return(t) == call' = [call EXCEPT ![t] = Idle]

RegisterLayout(o, e) ==
    /\ Relayout \/ layout_map[o] = None
    /\ layout_map' = [layout_map EXCEPT ![o] = e]
    /\ UNCHANGED <<device, buffers, tracking, call>>

----------------------------------------------------------------------------
(* initialize(): called directly, or by submit_read on its way in.         *)

Initialize(t) ==
    /\ At(t, "idle")
    /\ Goto(t, "init")
    /\ UNCHANGED <<layout_map, device, buffers, tracking>>

\* A direct call returns; a submit_read goes on to its locked block.
Initialized(t) == IF call[t].object = None THEN Return(t) ELSE Goto(t, "lock")

\* The test of _initialized, and a bug the runs must catch: one of _fd instead.
IsInitializedByFd == fd # None
IsInitialized == initialized

InitCheck(t) ==
    /\ At(t, "init")
    /\ \/ IsInitialized /\ Initialized(t)
       \/ ~IsInitialized /\ Goto(t, "open")
    /\ UNCHANGED <<layout_map, device, buffers, tracking>>

\* A descriptor an earlier initialize opened is forgotten, not closed.  A bug
\* the runs must catch: a re-open that closes it.
OpenedOnce(f) == (openFds \ {fd}) \cup {f}
Opened(f) == openFds \cup {f}

OpenDevice(t) ==
    /\ At(t, "open")
    /\ \E f \in Fds : LowestFree(f) /\ fd' = f /\ openFds' = Opened(f)
    /\ Goto(t, "allocate")
    /\ UNCHANGED <<layout_map, initialized, batches, buffers, tracking>>

\* os.open raises; the exception leaves initialize and its caller.
OpenRaises(t) ==
    /\ At(t, "open")
    /\ IOErrors \/ openFds = Fds
    /\ Return(t)
    /\ UNCHANGED <<layout_map, device, buffers, tracking>>

\* The new buffers are appended to those of earlier calls.
AllocateFixedBuffers(t) ==
    /\ At(t, "allocate")
    /\ batches' = batches + 1
    /\ Goto(t, "set")
    /\ UNCHANGED <<layout_map, initialized, fd, openFds, buffers, tracking>>

FinishInitialize(t) ==
    /\ At(t, "set")
    /\ initialized' = TRUE
    /\ Initialized(t)
    /\ UNCHANGED <<layout_map, fd, openFds, batches, buffers, tracking>>

----------------------------------------------------------------------------
(* submit_read(object_id).  An object without a layout entry is answered   *)
(* with None at once, which changes nothing.                               *)

\* The submits that may still be accepted; with MaxRequests they bound new ones.
Submitting == {t \in Threads : call[t].object # None /\ call[t].pc \in
                                  {"init", "open", "allocate", "set", "lock"}}

SubmitRead(t, o) ==
    /\ At(t, "idle")
    /\ nextId + Cardinality(Submitting) \in RequestIds
    /\ layout_map[o] # None
    /\ call' = [call EXCEPT ![t] =
                  [Idle EXCEPT !.pc = "init", !.object = o, !.entry = layout_map[o]]]
    /\ UNCHANGED <<layout_map, device, buffers, tracking>>

\* The in-flight test, and a bug the runs must catch: none.
NeverInFlight(o) == FALSE
InFlight(o) == in_flight[o] # None

\* The object is in flight already: submit_read returns None.
SubmitRefused(t) ==
    /\ At(t, "lock")
    /\ InFlight(call[t].object)
    /\ Return(t)
    /\ UNCHANGED <<layout_map, device, buffers, tracking>>

InFlightIds == {in_flight[o] : o \in Objects} \ {None}

SubmitAccepted(t) ==
    /\ At(t, "lock")
    /\ ~InFlight(call[t].object)
    /\ nextId \in RequestIds
    /\ requests' = [requests EXCEPT ![nextId] =
                      [object |-> call[t].object, entry |-> call[t].entry,
                       status |-> "PENDING"]]
    /\ in_flight' = [in_flight EXCEPT ![call[t].object] = nextId]
    /\ nextId' = nextId + 1
    /\ others' = [others EXCEPT ![nextId] = InFlightIds]
    /\ call' = [call EXCEPT ![t] = [@ EXCEPT !.pc = "check_fd", !.request = nextId]]
    /\ UNCHANGED <<layout_map, device, buffers, cq, delivered>>

\* Without a descriptor, or without deferred_completion, the request is
\* returned PENDING and stays in flight.
CheckFd(t) ==
    /\ At(t, "check_fd")
    /\ \/ fd # None /\ DeferredCompletion /\ Goto(t, "load_fd")
       \/ ~(fd # None /\ DeferredCompletion) /\ Return(t)
    /\ UNCHANGED <<layout_map, device, buffers, tracking>>

\* self._fd is read a second time, as the argument of _read_at.
LoadFd(t) ==
    /\ At(t, "load_fd")
    /\ call' = [call EXCEPT ![t] = [@ EXCEPT !.pc = "read", !.fd = fd]]
    /\ UNCHANGED <<layout_map, device, buffers, tracking>>

\* The status of a read and its buffer, and bugs the runs must catch: the byte
\* count is not compared, every object is read into the first buffer.
AlwaysCompleted(entry) == "COMPLETED"
StatusOf(entry) == IF entry \in Truncated THEN "FAILED" ELSE "COMPLETED"
FirstBuffer(o) == 0
BufferFor(o) == BufferOf[o]

ReadAt(t) ==
    /\ At(t, "read")
    /\ call[t].fd \in openFds
    /\ buffers' = [buffers EXCEPT ![BufferFor(call[t].object)] = call[t].request]
    /\ requests' = [requests EXCEPT ![call[t].request].status = StatusOf(call[t].entry)]
    /\ Goto(t, "publish")
    /\ UNCHANGED <<layout_map, device, nextId, in_flight, cq, delivered, others>>

\* os.pread raises: the device failed, or the descriptor is None or closed.
ReadRaises(t) ==
    /\ At(t, "read")
    /\ IOErrors \/ call[t].fd \notin openFds
    /\ Return(t)
    /\ UNCHANGED <<layout_map, device, buffers, tracking>>

\* What publishing does to _cq and to _in_flight, and bugs the runs must catch:
\* the newest completion goes first, an object has one completion at most, the
\* object is left in _in_flight.
QueuedFirst(r) == <<r>> \o cq
QueuedOnce(r) == IF \E i \in DOMAIN cq : requests[cq[i]].object = requests[r].object
                 THEN cq ELSE Append(cq, r)
QueuedLast(r) == Append(cq, r)
NoLongerInFlight(o) == [in_flight EXCEPT ![o] = None]

Publish(t) ==
    /\ At(t, "publish")
    /\ cq' = QueuedLast(call[t].request)
    /\ in_flight' = NoLongerInFlight(call[t].object)
    /\ Return(t)
    /\ UNCHANGED <<layout_map, device, buffers, requests, nextId, delivered, others>>

----------------------------------------------------------------------------
(* Completions.                                                            *)

\* The queue a poll leaves, and a bug the runs must catch: all of it.
AfterPollKeeping == cq
AfterPoll == <<>>

PollCompletions(t) ==
    /\ At(t, "idle")
    /\ cq' = AfterPoll
    /\ delivered' = delivered \cup {cq[i] : i \in DOMAIN cq}
    /\ UNCHANGED <<layout_map, device, buffers, requests, nextId, in_flight, others, call>>

WaitCompletion(t, o) ==
    /\ At(t, "idle")
    /\ call' = [call EXCEPT ![t] = [Idle EXCEPT !.pc = "wait", !.object = o]]
    /\ UNCHANGED <<layout_map, device, buffers, tracking>>

\* i is the first completion of the object o.
FirstOf(i, o) ==
    /\ i \in DOMAIN cq
    /\ requests[cq[i]].object = o
    /\ \A j \in 1 .. i - 1 : requests[cq[j]].object # o

WaitTakes(t) ==
    /\ At(t, "wait")
    /\ \E i \in DOMAIN cq :
          /\ FirstOf(i, call[t].object)
          /\ cq' = RemoveAt(cq, i)
          /\ delivered' = delivered \cup {cq[i]}
    /\ Return(t)
    /\ UNCHANGED <<layout_map, device, buffers, requests, nextId, in_flight, others>>

\* The deadline may pass at any moment between two looks at the queue.
WaitTimesOut(t) ==
    /\ At(t, "wait")
    /\ Return(t)
    /\ UNCHANGED <<layout_map, device, buffers, tracking>>

----------------------------------------------------------------------------
(* close()                                                                 *)

Close(t) ==
    /\ At(t, "idle")
    /\ batches < MaxBatches
    /\ initialized' = FALSE
    /\ Goto(t, "check_close")
    /\ UNCHANGED <<layout_map, fd, openFds, batches, buffers, tracking>>

CheckClose(t) ==
    /\ At(t, "check_close")
    /\ \/ fd # None /\ Goto(t, "os_close")
       \/ fd = None /\ Return(t)
    /\ UNCHANGED <<layout_map, device, buffers, tracking>>

OsClose(t) ==
    /\ At(t, "os_close")
    /\ fd \in openFds
    /\ openFds' = openFds \ {fd}
    /\ Goto(t, "clear")
    /\ UNCHANGED <<layout_map, initialized, fd, batches, buffers, tracking>>

\* Another close() was faster: os.close raises.
OsCloseRaises(t) ==
    /\ At(t, "os_close")
    /\ fd \notin openFds
    /\ Return(t)
    /\ UNCHANGED <<layout_map, device, buffers, tracking>>

\* What _fd becomes, and a bug the runs must catch: a number.
NoFdZero == 0
NoFd == None

ClearFd(t) ==
    /\ At(t, "clear")
    /\ fd' = NoFd
    /\ Return(t)
    /\ UNCHANGED <<layout_map, initialized, openFds, batches, buffers, tracking>>

----------------------------------------------------------------------------
\* The steps of a submit_read past its locked block.
ReadStep(t) ==
    CheckFd(t) \/ LoadFd(t) \/ ReadAt(t) \/ ReadRaises(t) \/ Publish(t)

Next ==
    \/ \E o \in Objects, e \in Entries : RegisterLayout(o, e)
    \/ \E t \in Threads :
          \/ Initialize(t) \/ InitCheck(t) \/ OpenDevice(t) \/ OpenRaises(t)
          \/ AllocateFixedBuffers(t) \/ FinishInitialize(t)
          \/ SubmitRefused(t) \/ SubmitAccepted(t) \/ ReadStep(t)
          \/ PollCompletions(t) \/ WaitTakes(t) \/ WaitTimesOut(t)
          \/ \E o \in Objects : SubmitRead(t, o) \/ WaitCompletion(t, o)
    \/ \E t \in Closers :
          Close(t) \/ CheckClose(t) \/ OsClose(t) \/ OsCloseRaises(t) \/ ClearFd(t)

Spec == Init /\ [][Next]_vars

----------------------------------------------------------------------------
(* Type invariant: the reader's attributes, the ghosts and the frames have *)
(* their types.                                                            *)
TypeOK ==
    /\ layout_map \in [Objects -> Entries \cup {None}]
    /\ initialized \in BOOLEAN
    /\ fd \in Fds \cup {None}
    /\ openFds \in SUBSET Fds
    /\ batches \in Nat
    /\ buffers \in [Buffers -> RequestIds \cup {None}]
    /\ requests \in [RequestIds -> IORequest]
    /\ nextId \in 1 .. MaxRequests + 1
    /\ in_flight \in [Objects -> RequestIds \cup {None}]
    /\ cq \in Seq(RequestIds)
    /\ delivered \in SUBSET RequestIds
    /\ others \in [RequestIds -> SUBSET RequestIds]
    /\ call \in [Threads -> Frame]

\* t is in a submit_read whose request was accepted and not yet published.
Reading(t) == call[t].pc \in {"check_fd", "load_fd", "read", "publish"}
Pending(r) == \E o \in Objects : in_flight[o] = r
Queued(r) == \E i \in DOMAIN cq : cq[i] = r
Accepted == {r \in RequestIds : r < nextId}

(* Two threads never read the same object at the same time, however their  *)
(* submits, initialisations and closes interleave: the in-flight test and  *)
(* the entry it makes are one locked block of submit_read.                 *)
OneReadPerObject ==
    \A t, u \in Threads :
        Reading(t) /\ Reading(u) /\ call[t].object = call[u].object => t = u

(* Every accepted request is in exactly one place: in flight, in the       *)
(* completion queue (once), or handed to one poller or waiter.  Pollers    *)
(* and waiters racing for a completion neither lose nor share it, and a    *)
(* thread that publishes removes its own request from _in_flight.          *)
RequestAccounting ==
    /\ \A r \in Accepted :
          \/ Pending(r) /\ ~Queued(r) /\ r \notin delivered
          \/ ~Pending(r) /\ Queued(r) /\ r \notin delivered
          \/ ~Pending(r) /\ ~Queued(r) /\ r \in delivered
    /\ \A i, j \in DOMAIN cq : cq[i] = cq[j] => i = j

(* Completions of one object are queued in the order its reads were        *)
(* accepted, so a waiter, which takes the first one, takes the oldest.     *)
PerObjectOrder ==
    \A i, j \in DOMAIN cq :
        i < j /\ requests[cq[i]].object = requests[cq[j]].object => cq[i] < cq[j]

(* A submit_read that reaches its locked block finds the fixed buffers     *)
(* allocated, even when another thread's initialize or close is under way: *)
(* _initialized is set last, and close keeps the buffers.                  *)
BuffersBeforeUse == \A t \in Threads : At(t, "lock") \/ Reading(t) => batches > 0

(* When nobody closes while a call is under way, pread is only ever given  *)
(* an open descriptor: two threads that both open the device leak one      *)
(* descriptor but leave every descriptor already loaded usable.            *)
ReadsOpenDevice == \A t \in Threads : At(t, "read") => call[t].fd \in openFds

\* The fixed buffer of the request r holds what r read into it, or what a read
\* of an object with the same buffer did that was in flight when r was accepted
\* or was accepted after r.
BytesFresh(r) ==
    LET q == buffers[BufferOf[requests[r].object]]
    IN  /\ q # None
        /\ BufferOf[requests[q].object] = BufferOf[requests[r].object]
        /\ r <= q \/ q \in others[r]

(* While a COMPLETED request waits in the queue its bytes are in the fixed *)
(* buffer, which is written without the lock and which objects may share:  *)
(* only a read accepted later, or one in flight when it was accepted, may  *)
(* have replaced them, and never one that was over before.                 *)
DataInPlace == \A i \in DOMAIN cq : requests[cq[i]].status = "COMPLETED" => BytesFresh(cq[i])

(* "Thread-safe in_flight tracking": an object in _in_flight is being read *)
(* by some thread, the one that put it there.                              *)
InFlightIsRead ==
    \A o \in Objects :
        in_flight[o] # None =>
            \E t \in Threads : Reading(t) /\ call[t].request = in_flight[o]

(* The reader as its callers see it: what is in flight, and the queue.     *)
Service == INSTANCE ReadService WITH
    inflight <- {[object |-> o, entry |-> requests[in_flight[o]].entry] :
                    o \in {p \in Objects : in_flight[p] # None}},
    completions <- [i \in DOMAIN cq |-> requests[cq[i]]]

(* The threads, the lock and the descriptors implement ReadService: every  *)
(* step of a call is one step of the service or is invisible to callers.   *)
ImplementsService == Service!ServiceSpec
============================================================================
