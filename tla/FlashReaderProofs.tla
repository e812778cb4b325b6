------------------------- MODULE FlashReaderProofs -------------------------
(***************************************************************************)
(* What holds of FlashReader for any number of threads, objects, requests, *)
(* descriptors and closes.  One invariant, FlightInv, carries the types    *)
(* and the exclusion of readers; AccountOK adds the queue and the ghost    *)
(* "delivered" to it.                                                      *)
(***************************************************************************)
EXTENDS FlashReader, DataLemmas

----------------------------------------------------------------------------
ReadPC == {"check_fd", "load_fd", "read", "publish"}

(* What the program counter says of the locals of a call.                  *)
FrameOK(frame) ==
    /\ frame.pc \in {"lock", "wait"} \cup ReadPC => frame.object \in Objects
    /\ frame.pc \in ReadPC => frame.request \in RequestIds
FramesOK == \A t \in Threads : FrameOK(call[t])

(* The frame of a submit_read whose request was just accepted is a frame.  *)
LEMMA AcceptedFrame ==
    ASSUME NEW frame \in Frame, NEW r \in RequestIds
    PROVE  [frame EXCEPT !.pc = "check_fd", !.request = r] \in Frame
  BY DEF Frame, ProgramCounter

(* A table of requests remains one when a request gets another status.     *)
LEMMA StatusTyped ==
    ASSUME NEW R \in [RequestIds -> IORequest], NEW r, NEW status \in IOStatus
    PROVE  [R EXCEPT ![r].status = status] \in [RequestIds -> IORequest]
<1> SUFFICES ASSUME NEW q \in RequestIds
             PROVE  [R[q] EXCEPT !.status = status] \in IORequest
  OBVIOUS
<1> QED
  BY DEF IORequest

(* The request that submit_read makes is an IORequest.                     *)
LEMMA RequestTyped ==
    ASSUME NEW o \in Objects, NEW e \in Entries \cup {None}
    PROVE  [object |-> o, entry |-> e, status |-> "PENDING"] \in IORequest
  BY DEF IORequest, IOStatus

(* Every step keeps the types of the reader's attributes and frames.       *)
LEMMA TypeStep == TypeOK /\ FramesOK /\ [Next]_vars => TypeOK'
<1> SUFFICES ASSUME TypeOK, FramesOK, [Next]_vars PROVE TypeOK'
  OBVIOUS
<1> USE DEF TypeOK, device, tracking, At, Goto, Return
<1>f. /\ Idle \in Frame
      /\ \A t \in Threads, pc \in ProgramCounter : [call[t] EXCEPT !.pc = pc] \in Frame
  <2>1. Idle \in Frame
    BY DEF Frame, Idle, ProgramCounter
  <2>2. ASSUME NEW t \in Threads, NEW pc \in ProgramCounter
        PROVE  [call[t] EXCEPT !.pc = pc] \in Frame
    <3>1. call[t] \in Frame
      OBVIOUS
    <3> QED
      BY <3>1 DEF Frame
  <2> QED
    BY <2>1, <2>2
<1>t. \A t \in Threads :
        /\ \A pc \in ProgramCounter :
              Goto(t, pc) => call' \in [Threads -> Frame]
        /\ Return(t) => call' \in [Threads -> Frame]
  BY <1>f
<1> HIDE DEF Goto, Return
<1>1. ASSUME NEW o \in Objects, NEW e \in Entries, RegisterLayout(o, e) PROVE TypeOK'
  BY <1>1 DEF RegisterLayout
<1>2. ASSUME NEW t \in Threads, Initialize(t) \/ InitCheck(t) \/ OpenRaises(t)
      PROVE TypeOK'
  BY <1>2, <1>t DEF Initialize, InitCheck, IsInitialized, Initialized, OpenRaises, ProgramCounter
<1>3. ASSUME NEW t \in Threads, OpenDevice(t) PROVE TypeOK'
  BY <1>3, <1>t DEF OpenDevice, Opened, LowestFree, ProgramCounter
<1>4. ASSUME NEW t \in Threads, AllocateFixedBuffers(t) PROVE TypeOK'
  BY <1>4, <1>t DEF AllocateFixedBuffers, ProgramCounter
<1>18. ASSUME NEW t \in Threads, FinishInitialize(t) PROVE TypeOK'
  BY <1>18, <1>t DEF FinishInitialize, Initialized, ProgramCounter
<1>5. ASSUME NEW t \in Threads, SubmitRefused(t) PROVE TypeOK'
  BY <1>5, <1>t DEF SubmitRefused, InFlight
<1>6. ASSUME NEW t \in Threads, SubmitAccepted(t) PROVE TypeOK'
  <2>0. [call[t] EXCEPT !.pc = "check_fd", !.request = nextId] \in Frame
    <3>1. call[t] \in Frame /\ nextId \in RequestIds
      BY <1>6 DEF SubmitAccepted, InFlight
    <3> QED
      BY <3>1, AcceptedFrame
  <2>1. call' \in [Threads -> Frame]
    <3>1. call' = [call EXCEPT ![t] = [call[t] EXCEPT !.pc = "check_fd", !.request = nextId]]
      BY <1>6 DEF SubmitAccepted, InFlight
    <3> QED
      BY <2>0, <3>1
  <2>2. requests' \in [RequestIds -> IORequest]
    <3>1. call[t].object \in Objects /\ call[t].entry \in Entries \cup {None}
      BY <1>6 DEF SubmitAccepted, InFlight, FramesOK, FrameOK, Frame
    <3>2. [object |-> call[t].object, entry |-> call[t].entry, status |-> "PENDING"]
             \in IORequest
      BY <3>1, RequestTyped
    <3> QED
      BY <1>6, <3>2 DEF SubmitAccepted, InFlight
  <2>3. nextId' \in 1 .. MaxRequests + 1
    BY <1>6, BoundsAssumption DEF SubmitAccepted, InFlight, RequestIds
  <2>4. others' \in [RequestIds -> SUBSET RequestIds]
    <3>1. InFlightIds \in SUBSET RequestIds
      BY DEF InFlightIds
    <3> QED
      BY <1>6, <3>1 DEF SubmitAccepted
  <2> QED
    BY <1>6, <2>1, <2>2, <2>3, <2>4 DEF SubmitAccepted, InFlight
<1>7. ASSUME NEW t \in Threads, CheckFd(t) \/ ReadRaises(t) PROVE TypeOK'
  BY <1>7, <1>t DEF CheckFd, ReadRaises, ProgramCounter
<1>8. ASSUME NEW t \in Threads, LoadFd(t) PROVE TypeOK'
  <2>1. call[t] \in Frame /\ fd \in Fds \cup {None}
    OBVIOUS
  <2>2. [call[t] EXCEPT !.pc = "read", !.fd = fd] \in Frame
    BY <2>1 DEF Frame, ProgramCounter
  <2>3. call' = [call EXCEPT ![t] = [call[t] EXCEPT !.pc = "read", !.fd = fd]]
    BY <1>8 DEF LoadFd
  <2>4. call' \in [Threads -> Frame]
    BY <2>2, <2>3
  <2> QED
    BY <1>8, <2>4 DEF LoadFd
<1>9. ASSUME NEW t \in Threads, ReadAt(t) PROVE TypeOK'
  <2>1. requests' \in [RequestIds -> IORequest]
    <3>1. PICK status \in IOStatus :
            requests' = [requests EXCEPT ![call[t].request].status = status]
      BY <1>9 DEF ReadAt, StatusOf, BufferFor, IOStatus
    <3> QED
      BY <3>1, StatusTyped
  <2>2. buffers' \in [Buffers -> RequestIds \cup {None}]
    <3>1. call[t].request \in RequestIds
      BY <1>9 DEF FramesOK, FrameOK, ReadPC, ReadAt
    <3> QED
      BY <1>9, <3>1 DEF ReadAt, BufferFor
  <2> QED
    BY <1>9, <1>t, <2>1, <2>2 DEF ReadAt, StatusOf, BufferFor, ProgramCounter
<1>10. ASSUME NEW t \in Threads, Publish(t) PROVE TypeOK'
  <2>1. call[t].request \in RequestIds
    BY <1>10 DEF FramesOK, FrameOK, ReadPC, Publish, QueuedLast, NoLongerInFlight
  <2>2. cq' \in Seq(RequestIds)
    BY <1>10, <2>1 DEF Publish, QueuedLast, NoLongerInFlight
  <2>3. in_flight' \in [Objects -> RequestIds \cup {None}]
    BY <1>10 DEF Publish, QueuedLast, NoLongerInFlight
  <2> QED
    BY <1>10, <1>t, <2>2, <2>3 DEF Publish, QueuedLast, NoLongerInFlight
<1>11. ASSUME NEW t \in Threads, PollCompletions(t) PROVE TypeOK'
  BY <1>11 DEF PollCompletions, AfterPoll
<1>12. ASSUME NEW t \in Threads, NEW o \in Objects, SubmitRead(t, o) PROVE TypeOK'
  BY <1>12 DEF SubmitRead, Idle, Frame, ProgramCounter
<1>13. ASSUME NEW t \in Threads, NEW o \in Objects, WaitCompletion(t, o) PROVE TypeOK'
  BY <1>13 DEF WaitCompletion, Idle, Frame, ProgramCounter
<1>14. ASSUME NEW t \in Threads, WaitTakes(t) PROVE TypeOK'
  BY <1>14, <1>t, RemoveAtLemma DEF WaitTakes
<1>15. ASSUME NEW t \in Threads, WaitTimesOut(t) PROVE TypeOK'
  BY <1>15, <1>t DEF WaitTimesOut
<1>16. ASSUME NEW t \in Closers,
              Close(t) \/ CheckClose(t) \/ OsClose(t) \/ OsCloseRaises(t) \/ ClearFd(t)
       PROVE TypeOK'
  BY <1>16, <1>t, ThreadsAssumption
     DEF Close, CheckClose, OsClose, OsCloseRaises, ClearFd, NoFd, ProgramCounter
<1>17. CASE UNCHANGED vars
  BY <1>17 DEF vars
<1> QED
  BY <1>1, <1>2, <1>3, <1>4, <1>5, <1>6, <1>7, <1>8, <1>9, <1>10, <1>11, <1>12, <1>13,
     <1>14, <1>15, <1>16, <1>17, <1>18 DEF Next, ReadStep

----------------------------------------------------------------------------
(* What makes OneReadPerObject inductive: each thread in a read is the one *)
(* whose request _in_flight records, no two have the same request, and a   *)
(* new request has an id that nothing in flight has.                       *)
FlightOK ==
    /\ \A t \in Threads : Reading(t) => in_flight[call[t].object] = call[t].request
    /\ \A t, u \in Threads :
          Reading(t) /\ Reading(u) /\ call[t].request = call[u].request => t = u
    /\ \A o \in Objects : in_flight[o] # None => in_flight[o] < nextId

FlightInv == TypeOK /\ FramesOK /\ FlightOK

\* A step that starts no read, ends none with a completion, and leaves
\* _in_flight alone.
Quiet ==
    /\ UNCHANGED <<nextId, in_flight>>
    /\ \A t \in Threads :
          Reading(t)' => /\ Reading(t)
                         /\ call'[t].object = call[t].object
                         /\ call'[t].request = call[t].request

(* A quiet step keeps FlightOK: the in-flight map and the reading frames   *)
(* are as they were.                                                       *)
LEMMA QuietFlight == FlightOK /\ Quiet => FlightOK'
  BY DEF FlightOK, Quiet

(* How a thread may move and still be quiet: it was not reading and is not *)
(* reading afterwards, or it goes on with its read.                        *)
LEMMA QuietMoves ==
    ASSUME TypeOK, UNCHANGED <<nextId, in_flight>>, NEW t \in Threads
    PROVE  /\ Return(t) => Quiet
           /\ \A pc \in {"init", "open", "allocate", "set", "lock",
                       "check_close", "os_close", "clear"} :
                 Goto(t, pc) => Quiet
           /\ \A pc \in {"load_fd", "publish"} : Reading(t) /\ Goto(t, pc) => Quiet
<1> USE DEF Quiet, Reading
<1>1. ASSUME NEW frame, call' = [call EXCEPT ![t] = frame],
             frame.pc \in {"check_fd", "load_fd", "read", "publish"} =>
               Reading(t) /\ frame.object = call[t].object /\ frame.request = call[t].request
      PROVE  Quiet
  BY <1>1 DEF TypeOK
<1>2. Return(t) => Quiet
  BY <1>1 DEF Return, Idle
<1>3. ASSUME NEW pc, Goto(t, pc), pc \in {"check_fd", "load_fd", "read", "publish"} => Reading(t)
      PROVE  Quiet
  <2> DEFINE frame == [call[t] EXCEPT !.pc = pc]
  <2>1. /\ frame.pc = pc
        /\ frame.object = call[t].object
        /\ frame.request = call[t].request
    BY DEF TypeOK, Frame
  <2>2. call' = [call EXCEPT ![t] = frame]
    BY <1>3 DEF Goto
  <2> HIDE DEF frame
  <2> QED
    BY <1>1, <1>3, <2>1, <2>2
<1> QED
  BY <1>2, <1>3

(* Every action other than the two that begin and end a read is quiet.     *)
LEMMA QuietSteps ==
    TypeOK /\ [Next]_vars =>
        \/ Quiet
        \/ \E t \in Threads : SubmitAccepted(t) \/ Publish(t)
<1> SUFFICES ASSUME TypeOK, [Next]_vars,
                    ~ \E t \in Threads : SubmitAccepted(t) \/ Publish(t)
             PROVE  Quiet
  OBVIOUS
<1> USE DEF device, tracking, At
<1>1. ASSUME NEW o \in Objects, NEW e \in Entries, RegisterLayout(o, e) PROVE Quiet
  BY <1>1 DEF RegisterLayout, Quiet, Reading
<1>2. ASSUME NEW t \in Threads, Initialize(t) PROVE Quiet
  BY <1>2, QuietMoves DEF Initialize
<1>3. ASSUME NEW t \in Threads, InitCheck(t) PROVE Quiet
  <2>1. CASE Return(t)
    BY <1>3, <2>1, QuietMoves DEF InitCheck, IsInitialized
  <2>2. CASE Goto(t, "lock") \/ Goto(t, "open")
    BY <1>3, <2>2, QuietMoves DEF InitCheck, IsInitialized
  <2> QED
    BY <1>3, <2>1, <2>2 DEF InitCheck, IsInitialized, Initialized
<1>4. ASSUME NEW t \in Threads, OpenDevice(t) PROVE Quiet
  BY <1>4, QuietMoves DEF OpenDevice, Opened
<1>5. ASSUME NEW t \in Threads, OpenRaises(t) PROVE Quiet
  BY <1>5, QuietMoves DEF OpenRaises
<1>6. ASSUME NEW t \in Threads, AllocateFixedBuffers(t) PROVE Quiet
  BY <1>6, QuietMoves DEF AllocateFixedBuffers
<1>7. ASSUME NEW t \in Threads, FinishInitialize(t) PROVE Quiet
  BY <1>7, QuietMoves DEF FinishInitialize, Initialized
<1>8. ASSUME NEW t \in Threads, SubmitRefused(t) PROVE Quiet
  BY <1>8, QuietMoves DEF SubmitRefused, InFlight
<1>9. ASSUME NEW t \in Threads, CheckFd(t) PROVE Quiet
  BY <1>9, QuietMoves DEF CheckFd, Reading
<1>10. ASSUME NEW t \in Threads, LoadFd(t) PROVE Quiet
  BY <1>10 DEF LoadFd, TypeOK, Frame, Quiet, Reading
<1>11. ASSUME NEW t \in Threads, ReadAt(t) PROVE Quiet
  BY <1>11, QuietMoves DEF ReadAt, StatusOf, BufferFor, Reading
<1>12. ASSUME NEW t \in Threads, ReadRaises(t) PROVE Quiet
  BY <1>12, QuietMoves DEF ReadRaises
<1>13. ASSUME NEW t \in Threads, PollCompletions(t) PROVE Quiet
  BY <1>13 DEF PollCompletions, AfterPoll, Quiet, Reading
<1>14. ASSUME NEW t \in Threads, NEW o \in Objects, SubmitRead(t, o) PROVE Quiet
  BY <1>14 DEF SubmitRead, TypeOK, Idle, Quiet, Reading
<1>15. ASSUME NEW t \in Threads, NEW o \in Objects, WaitCompletion(t, o) PROVE Quiet
  BY <1>15 DEF WaitCompletion, TypeOK, Idle, Quiet, Reading
<1>16. ASSUME NEW t \in Threads, WaitTakes(t) PROVE Quiet
  BY <1>16, QuietMoves DEF WaitTakes
<1>17. ASSUME NEW t \in Threads, WaitTimesOut(t) PROVE Quiet
  BY <1>17, QuietMoves DEF WaitTimesOut
<1>18. ASSUME NEW t \in Closers,
              Close(t) \/ CheckClose(t) \/ OsClose(t) \/ OsCloseRaises(t) \/ ClearFd(t)
       PROVE Quiet
  BY <1>18, ThreadsAssumption, QuietMoves
     DEF Close, CheckClose, OsClose, OsCloseRaises, ClearFd, NoFd
<1>20. CASE UNCHANGED vars
  BY <1>20 DEF vars, Quiet, Reading
<1> QED
  BY <1>1, <1>2, <1>3, <1>4, <1>5, <1>6, <1>7, <1>8, <1>9, <1>10, <1>11, <1>12, <1>13,
     <1>14, <1>15, <1>16, <1>17, <1>18, <1>20 DEF Next, ReadStep

(* How a thread may move and keep the frames well formed.                  *)
LEMMA FrameMoves ==
    ASSUME TypeOK, FramesOK, NEW t \in Threads
    PROVE  /\ Return(t) => FramesOK'
           /\ \A pc \in ProgramCounter \ ({"lock", "wait"} \cup ReadPC) :
                 Goto(t, pc) => FramesOK'
           /\ \A pc \in ReadPC : Reading(t) /\ Goto(t, pc) => FramesOK'
           /\ Initialized(t) => FramesOK'
<1>1. ASSUME NEW frame, call' = [call EXCEPT ![t] = frame], FrameOK(frame)
      PROVE  FramesOK'
  <2> SUFFICES ASSUME NEW u \in Threads PROVE FrameOK(call'[u])
    BY DEF FramesOK, FrameOK
  <2> QED
    BY <1>1 DEF TypeOK, FramesOK
<1>2. Return(t) => FramesOK'
  <2>1. FrameOK(Idle)
    BY DEF FrameOK, Idle, ReadPC
  <2> QED
    BY <1>1, <2>1 DEF Return
<1>3. ASSUME NEW pc \in ProgramCounter, Goto(t, pc),
             pc \in {"lock", "wait"} => call[t].object \in Objects,
             pc \in ReadPC => Reading(t)
      PROVE  FramesOK'
  <2> DEFINE frame == [call[t] EXCEPT !.pc = pc]
  <2>1. /\ frame.pc = pc
        /\ frame.object = call[t].object
        /\ frame.request = call[t].request
    BY DEF TypeOK, Frame
  <2>2. call' = [call EXCEPT ![t] = frame]
    BY <1>3 DEF Goto
  <2> HIDE DEF frame
  <2>3. FrameOK(frame)
    BY <1>3, <2>1 DEF FrameOK, FramesOK, Reading, ReadPC
  <2> QED
    BY <1>1, <2>2, <2>3
<1>4. Initialized(t) => FramesOK'
  BY <1>2, <1>3 DEF Initialized, TypeOK, Frame, ProgramCounter, ReadPC
<1> QED
  BY <1>2, <1>3, <1>4 DEF ProgramCounter, ReadPC

(* Every step keeps the frames well formed.                                *)
LEMMA FramesStep == TypeOK /\ FramesOK /\ [Next]_vars => FramesOK'
<1> SUFFICES ASSUME TypeOK, FramesOK, [Next]_vars PROVE FramesOK'
  OBVIOUS
<1> USE DEF At
<1>1. CASE UNCHANGED call
  BY <1>1 DEF FramesOK
<1>2. ASSUME NEW t \in Threads,
             Initialize(t) \/ InitCheck(t) \/ OpenDevice(t) \/ OpenRaises(t)
             \/ AllocateFixedBuffers(t) \/ FinishInitialize(t)
      PROVE  FramesOK'
  BY <1>2, FrameMoves DEF Initialize, InitCheck, IsInitialized, OpenDevice, Opened, OpenRaises,
     AllocateFixedBuffers, FinishInitialize, ProgramCounter, ReadPC
<1>3. ASSUME NEW t \in Threads,
             SubmitRefused(t) \/ CheckFd(t) \/ ReadAt(t) \/ ReadRaises(t) \/ Publish(t)
             \/ WaitTakes(t) \/ WaitTimesOut(t)
      PROVE  FramesOK'
  BY <1>3, FrameMoves DEF SubmitRefused, InFlight, CheckFd, ReadAt, StatusOf, BufferFor, ReadRaises, Publish, QueuedLast, NoLongerInFlight,
     WaitTakes, WaitTimesOut, Reading, ReadPC
<1>4. ASSUME NEW t \in Threads, SubmitAccepted(t) PROVE FramesOK'
  BY <1>4 DEF SubmitAccepted, InFlight, TypeOK, Frame, FramesOK, FrameOK, ReadPC
<1>5. ASSUME NEW t \in Threads, LoadFd(t) PROVE FramesOK'
  BY <1>5 DEF LoadFd, TypeOK, Frame, FramesOK, FrameOK, ReadPC
<1>6. ASSUME NEW t \in Threads, NEW o \in Objects, SubmitRead(t, o) PROVE FramesOK'
  BY <1>6 DEF SubmitRead, Idle, TypeOK, FramesOK, FrameOK, ReadPC
<1>8. ASSUME NEW t \in Threads, NEW o \in Objects, WaitCompletion(t, o) PROVE FramesOK'
  BY <1>8 DEF WaitCompletion, Idle, TypeOK, FramesOK, FrameOK, ReadPC
<1>7. ASSUME NEW t \in Closers,
             Close(t) \/ CheckClose(t) \/ OsClose(t) \/ OsCloseRaises(t) \/ ClearFd(t)
      PROVE  FramesOK'
  BY <1>7, ThreadsAssumption, FrameMoves DEF Close, CheckClose, OsClose, OsCloseRaises,
     ClearFd, NoFd, ProgramCounter, ReadPC
<1> QED
  BY <1>1, <1>2, <1>3, <1>4, <1>5, <1>6, <1>7, <1>8
     DEF Next, ReadStep, vars, RegisterLayout, PollCompletions, AfterPoll

(* The invariant of the in-flight map is inductive.                        *)
LEMMA FlightStep == FlightInv /\ [Next]_vars => FlightInv'
<1> SUFFICES ASSUME FlightInv, [Next]_vars PROVE FlightOK'
  BY TypeStep, FramesStep DEF FlightInv
<1> USE DEF FlightInv
<1>1. CASE Quiet
  BY <1>1, QuietFlight
<1>2. ASSUME NEW t \in Threads, SubmitAccepted(t) PROVE FlightOK'
  <2>1. /\ call[t].object \in Objects
        /\ in_flight[call[t].object] = None
    BY <1>2 DEF SubmitAccepted, InFlight, FramesOK, FrameOK, At
  <2>2. /\ call'[t].object = call[t].object
        /\ call'[t].request = nextId
        /\ \A u \in Threads \ {t} : call'[u] = call[u]
    BY <1>2 DEF SubmitAccepted, InFlight, TypeOK, Frame
  <2>3. /\ in_flight' = [in_flight EXCEPT ![call[t].object] = nextId]
        /\ nextId' = nextId + 1
        /\ nextId \in Nat
    BY <1>2 DEF SubmitAccepted, InFlight, TypeOK
  <2>4. \A u \in Threads : Reading(u) => /\ call[u].object \in Objects
                                        /\ call[u].request \in RequestIds
    BY DEF FramesOK, FrameOK, Reading, ReadPC
  <2>5. \A u \in Threads : Reading(u) => call[u].object # call[t].object
                                        /\ call[u].request < nextId
    BY <2>1, <2>4, NoneAssumption DEF FlightOK, RequestIds
  <2>6. \A u \in Threads \ {t} : Reading(u)' => Reading(u)
    BY <2>2 DEF Reading
  <2>7. \A u \in Threads : Reading(u)' => in_flight'[call'[u].object] = call'[u].request
    BY <2>1, <2>2, <2>3, <2>4, <2>5, <2>6 DEF FlightOK, TypeOK
  <2>8. \A u, v \in Threads :
          Reading(u)' /\ Reading(v)' /\ call'[u].request = call'[v].request => u = v
    BY <2>2, <2>3, <2>4, <2>5, <2>6 DEF FlightOK, RequestIds
  <2>9. \A o \in Objects : in_flight'[o] # None => in_flight'[o] < nextId'
    BY <2>1, <2>3 DEF FlightOK, TypeOK, RequestIds
  <2> QED
    BY <2>7, <2>8, <2>9 DEF FlightOK
<1>3. ASSUME NEW t \in Threads, Publish(t) PROVE FlightOK'
  <2>1. /\ ~Reading(t)'
        /\ \A u \in Threads \ {t} : call'[u] = call[u]
        /\ Reading(t)
    BY <1>3 DEF Publish, QueuedLast, NoLongerInFlight, Return, Idle, Reading, TypeOK, At
  <2>2. /\ in_flight' = [in_flight EXCEPT ![call[t].object] = None]
        /\ nextId' = nextId
    BY <1>3 DEF Publish, QueuedLast, NoLongerInFlight
  <2>3. \A u \in Threads \ {t} : Reading(u) => call[u].object # call[t].object
    BY <2>1 DEF FlightOK
  <2> QED
    BY <2>1, <2>2, <2>3 DEF FlightOK, Reading, TypeOK
<1> QED
  BY <1>1, <1>2, <1>3, QuietSteps

(* It holds in the initial states.                                         *)
LEMMA InitFlight == Init => FlightInv
<1> SUFFICES ASSUME Init PROVE FlightInv
  OBVIOUS
<1>1. /\ initialized \in BOOLEAN
      /\ fd \in Fds \cup {None}
      /\ openFds \in SUBSET Fds
      /\ batches \in Nat
  <2>1. CASE Preinitialized
    BY <2>1 DEF Init
  <2>2. CASE ~Preinitialized
    <3>1. initialized = FALSE /\ fd = None /\ openFds = {} /\ batches = 0
      BY <2>2 DEF Init
    <3> QED
      BY <3>1
  <2> QED
    BY <2>1, <2>2
<1>2. /\ nextId \in 1 .. MaxRequests + 1
      /\ cq \in Seq(RequestIds)
      /\ requests \in [RequestIds -> IORequest]
      /\ call \in [Threads -> Frame]
  BY BoundsAssumption DEF Init, NoRequest, IORequest, IOStatus, Idle, Frame, ProgramCounter
<1>3. TypeOK
  BY <1>1, <1>2 DEF Init, TypeOK
<1>4. FramesOK /\ FlightOK
  BY DEF Init, Idle, FramesOK, FrameOK, FlightOK, Reading, ReadPC
<1> QED
  BY <1>3, <1>4 DEF FlightInv

(* For any threads, objects, layout, descriptors and errors: two threads   *)
(* never read the same object at once.                                     *)
THEOREM ReadersAreAlone == Spec => []OneReadPerObject
<1>1. FlightInv => OneReadPerObject
  BY DEF FlightInv, FlightOK, OneReadPerObject
<1> QED
  BY <1>1, InitFlight, FlightStep, PTL DEF Spec

(* The attributes of the reader and the frames of its callers keep their   *)
(* types in every behaviour.                                               *)
THEOREM ReaderTypes == Spec => []TypeOK
<1>1. FlightInv => TypeOK
  BY DEF FlightInv
<1> QED
  BY <1>1, InitFlight, FlightStep, PTL DEF Spec

----------------------------------------------------------------------------
(* Where a request is: pending, queued or delivered.                       *)

Elements(s) == {s[i] : i \in 1 .. Len(s)}
NoRepeats(s) == \A i, j \in 1 .. Len(s) : s[i] = s[j] => i = j

(* The elements of a queue of distinct elements after one more is          *)
(* appended.                                                               *)
LEMMA AppendElements ==
    ASSUME NEW S, NEW s \in Seq(S), NEW e \in S, NoRepeats(s), e \notin Elements(s)
    PROVE  /\ Elements(Append(s, e)) = Elements(s) \cup {e}
           /\ NoRepeats(Append(s, e))
<1>1. /\ Len(Append(s, e)) = Len(s) + 1
      /\ \A i \in 1 .. Len(s) : Append(s, e)[i] = s[i]
      /\ Append(s, e)[Len(s) + 1] = e
      /\ Len(s) \in Nat
  BY AppendProperties
<1>2. Elements(Append(s, e)) = Elements(s) \cup {e}
  <2>1. 1 .. Len(s) + 1 = (1 .. Len(s)) \cup {Len(s) + 1}
    BY <1>1
  <2> QED
    BY <1>1, <2>1 DEF Elements
<1>3. NoRepeats(Append(s, e))
  BY <1>1 DEF NoRepeats, Elements
<1> QED
  BY <1>2, <1>3

(* The elements of a queue of distinct elements after one is removed.      *)
LEMMA RemoveElements ==
    ASSUME NEW S, NEW s \in Seq(S), NEW i \in 1 .. Len(s), NoRepeats(s)
    PROVE  /\ Elements(RemoveAt(s, i)) = Elements(s) \ {s[i]}
           /\ NoRepeats(RemoveAt(s, i))
<1> DEFINE r == RemoveAt(s, i)
<1>0. Len(s) \in Nat
  OBVIOUS
<1>a. /\ Len(r) = Len(s) - 1
      /\ \A j \in 1 .. Len(s) - 1 : r[j] = IF j < i THEN s[j] ELSE s[j + 1]
  BY RemoveAtLemma, Zenon
<1> HIDE DEF r
<1>1. /\ Len(r) = Len(s) - 1
      /\ Len(s) \in Nat
      /\ \A j \in 1 .. Len(s) - 1 : r[j] = IF j < i THEN s[j] ELSE s[j + 1]
  BY <1>0, <1>a
<1>2. NoRepeats(r)
  BY <1>1 DEF NoRepeats
<1>3. \A j \in 1 .. Len(r) : r[j] \in Elements(s) \ {s[i]}
  BY <1>1 DEF Elements, NoRepeats
<1>4. ASSUME NEW j \in 1 .. Len(s), j # i PROVE s[j] \in Elements(r)
  <2>1. CASE j < i
    BY <1>1, <2>1 DEF Elements
  <2>2. CASE j > i
    <3>1. j - 1 \in 1 .. Len(r) /\ r[j - 1] = s[j]
      BY <1>1, <2>2
    <3> QED
      BY <3>1 DEF Elements
  <2> QED
    BY <1>4, <2>1, <2>2
<1>5. Elements(r) = Elements(s) \ {s[i]}
  BY <1>3, <1>4 DEF Elements
<1> QED
  BY <1>2, <1>5 DEF r

(* What makes RequestAccounting inductive, over the set of queued ids:     *)
(* in_flight has a request once, every id in use is below nextId, and an   *)
(* id below it is in exactly one place.                                    *)
AccountOK ==
    /\ NoRepeats(cq)
    /\ \A o, p \in Objects : in_flight[o] = in_flight[p] /\ in_flight[o] # None => o = p
    /\ InFlightIds \cap Elements(cq) = {}
    /\ InFlightIds \cap delivered = {}
    /\ Elements(cq) \cap delivered = {}
    /\ InFlightIds \cup Elements(cq) \cup delivered = {r \in RequestIds : r < nextId}

(* Only four actions touch what AccountOK speaks of.                       *)
LEMMA QueueSteps ==
    [Next]_vars =>
        \/ /\ UNCHANGED <<in_flight, nextId, cq, delivered>>
        \/ \E t \in Threads :
              SubmitAccepted(t) \/ Publish(t) \/ PollCompletions(t) \/ WaitTakes(t)
  BY DEF Next, ReadStep, vars, device, tracking, RegisterLayout, Initialize, InitCheck, IsInitialized,
     OpenDevice, Opened, OpenRaises, AllocateFixedBuffers, FinishInitialize, SubmitRefused, InFlight,
     CheckFd, LoadFd, ReadAt, StatusOf, BufferFor, ReadRaises, WaitTimesOut, SubmitRead, WaitCompletion,
     Close, CheckClose, OsClose, OsCloseRaises, ClearFd, NoFd

(* Every step keeps each accepted request in exactly one place.            *)
LEMMA AccountStep == FlightInv /\ AccountOK /\ [Next]_vars => AccountOK'
<1> SUFFICES ASSUME FlightInv, AccountOK, [Next]_vars PROVE AccountOK'
  OBVIOUS
<1> USE DEF FlightInv, TypeOK
<1>1. CASE UNCHANGED <<in_flight, nextId, cq, delivered>>
  BY <1>1 DEF AccountOK, InFlightIds
<1>2. ASSUME NEW t \in Threads, SubmitAccepted(t) PROVE AccountOK'
  <2> DEFINE o == call[t].object
  <2>1. /\ o \in Objects /\ in_flight[o] = None
        /\ nextId \in RequestIds /\ nextId' = nextId + 1
        /\ in_flight' = [in_flight EXCEPT ![o] = nextId]
        /\ cq' = cq /\ delivered' = delivered
    BY <1>2 DEF SubmitAccepted, InFlight, FramesOK, FrameOK, At
  <2> HIDE DEF o
  <2>2. nextId # None /\ nextId \notin InFlightIds \cup Elements(cq) \cup delivered
    BY <2>1, NoneAssumption DEF AccountOK, RequestIds
  <2>3. InFlightIds' = InFlightIds \cup {nextId}
    BY <2>1, <2>2 DEF InFlightIds
  <2>4. \A p, q \in Objects : in_flight'[p] = in_flight'[q] /\ in_flight'[p] # None => p = q
    BY <2>1, <2>2 DEF AccountOK, InFlightIds
  <2>5. {r \in RequestIds : r < nextId'} = {r \in RequestIds : r < nextId} \cup {nextId}
    BY <2>1 DEF RequestIds
  <2> QED
    BY <2>1, <2>2, <2>3, <2>4, <2>5 DEF AccountOK
<1>3. ASSUME NEW t \in Threads, Publish(t) PROVE AccountOK'
  <2> DEFINE o == call[t].object
             r == call[t].request
  <2>1. /\ o \in Objects /\ r \in RequestIds /\ in_flight[o] = r
        /\ cq' = Append(cq, r)
        /\ in_flight' = [in_flight EXCEPT ![o] = None]
        /\ nextId' = nextId /\ delivered' = delivered
    BY <1>3 DEF Publish, QueuedLast, NoLongerInFlight, FramesOK, FrameOK, ReadPC, FlightOK, Reading, At
  <2> HIDE DEF o, r
  <2>2. r # None /\ r \in InFlightIds
    BY <2>1, NoneAssumption DEF InFlightIds, RequestIds
  <2>3. InFlightIds' = InFlightIds \ {r}
    BY <2>1, <2>2 DEF InFlightIds, AccountOK
  <2>4. Elements(cq') = Elements(cq) \cup {r} /\ NoRepeats(cq')
    BY <2>1, <2>2, AppendElements DEF AccountOK
  <2>5. \A p, q \in Objects : in_flight'[p] = in_flight'[q] /\ in_flight'[p] # None => p = q
    BY <2>1 DEF AccountOK
  <2> QED
    BY <2>1, <2>2, <2>3, <2>4, <2>5 DEF AccountOK
<1>4. ASSUME NEW t \in Threads, PollCompletions(t) PROVE AccountOK'
  <2>1. cq' = <<>> /\ delivered' = delivered \cup Elements(cq)
    BY <1>4 DEF PollCompletions, AfterPoll, Elements
  <2>2. Elements(cq') = {} /\ NoRepeats(cq')
    BY <2>1 DEF Elements, NoRepeats
  <2>3. in_flight' = in_flight /\ nextId' = nextId
    BY <1>4 DEF PollCompletions, AfterPoll
  <2> QED
    BY <2>1, <2>2, <2>3 DEF AccountOK, InFlightIds
<1>5. ASSUME NEW t \in Threads, WaitTakes(t) PROVE AccountOK'
  <2>1. PICK i \in 1 .. Len(cq) : /\ cq' = RemoveAt(cq, i)
                                 /\ delivered' = delivered \cup {cq[i]}
    BY <1>5 DEF WaitTakes
  <2>2. Elements(cq') = Elements(cq) \ {cq[i]} /\ NoRepeats(cq')
    BY <2>1, RemoveElements DEF AccountOK
  <2>3. cq[i] \in Elements(cq)
    BY DEF Elements
  <2>4. in_flight' = in_flight /\ nextId' = nextId
    BY <1>5 DEF WaitTakes
  <2> QED
    BY <2>1, <2>2, <2>3, <2>4 DEF AccountOK, InFlightIds
<1> QED
  BY <1>1, <1>2, <1>3, <1>4, <1>5, QueueSteps

(* In the initial states no request is anywhere.                           *)
LEMMA InitAccount == Init => AccountOK
<1> SUFFICES ASSUME Init PROVE AccountOK
  OBVIOUS
<1>1. NoRepeats(cq) /\ Elements(cq) = {}
  BY DEF Init, NoRepeats, Elements
<1>2. InFlightIds = {}
  BY DEF Init, InFlightIds
<1>3. {r \in RequestIds : r < nextId} = {}
  BY BoundsAssumption DEF Init, RequestIds
<1> QED
  BY <1>1, <1>2, <1>3 DEF Init, AccountOK

(* Every accepted request is in exactly one place, in flight, queued once  *)
(* or handed to one consumer, whatever pollers, waiters, errors and closes *)
(* do.                                                                     *)
THEOREM RequestsAreAccounted == Spec => []RequestAccounting
<1>1. FlightInv /\ AccountOK => RequestAccounting
  <2> SUFFICES ASSUME FlightInv, AccountOK PROVE RequestAccounting
    OBVIOUS
  <2>1. \A r \in RequestIds : Queued(r) <=> r \in Elements(cq)
    BY DEF Queued, Elements, FlightInv, TypeOK
  <2>2. \A r \in RequestIds : Pending(r) <=> r \in InFlightIds
    BY NoneAssumption DEF Pending, InFlightIds, RequestIds
  <2>3. \A i, j \in DOMAIN cq : cq[i] = cq[j] => i = j
    BY DEF AccountOK, NoRepeats, FlightInv, TypeOK
  <2>4. \A r \in Accepted :
          /\ r \in RequestIds
          /\ r \in InFlightIds \cup Elements(cq) \cup delivered
    BY DEF Accepted, AccountOK
  <2> QED
    BY <2>1, <2>2, <2>3, <2>4 DEF AccountOK, RequestAccounting
<1> QED
  BY <1>1, InitFlight, InitAccount, FlightStep, AccountStep, PTL DEF Spec

----------------------------------------------------------------------------
(* What makes BuffersBeforeUse inductive: _initialized, and a thread about *)
(* to set it or past its test, both imply that buffers were allocated.     *)
BatchesOK ==
    /\ initialized => batches > 0
    /\ \A t \in Threads : call[t].pc \in {"set", "lock"} \cup ReadPC => batches > 0

(* A thread gets to the locked block of submit_read from the test that     *)
(* found _initialized set, or from having set it.                          *)
LEMMA BatchesStep == TypeOK /\ BatchesOK /\ [Next]_vars => BatchesOK'
<1> SUFFICES ASSUME TypeOK, BatchesOK, [Next]_vars PROVE BatchesOK'
  OBVIOUS
<1> USE DEF TypeOK, device, tracking, At, ReadPC
<1>1. ASSUME UNCHANGED batches, initialized' => initialized \/ batches > 0,
             NEW t \in Threads, NEW frame, call' = [call EXCEPT ![t] = frame],
             frame.pc \in {"set", "lock"} \cup ReadPC => batches > 0
      PROVE  BatchesOK'
  BY <1>1 DEF BatchesOK
<1>2. ASSUME NEW t \in Threads, NEW pc, Goto(t, pc), UNCHANGED batches,
             initialized' => initialized \/ batches > 0,
             pc \in {"set", "lock"} \cup ReadPC => batches > 0
      PROVE  BatchesOK'
  <2>1. [call[t] EXCEPT !.pc = pc].pc = pc
    BY DEF Frame
  <2> QED
    BY <1>1, <1>2, <2>1 DEF Goto
<1>3. ASSUME NEW t \in Threads, Return(t), UNCHANGED batches,
             initialized' => initialized \/ batches > 0
      PROVE  BatchesOK'
  BY <1>1, <1>3 DEF Return, Idle
<1>4. ASSUME NEW t \in Threads, Initialized(t), UNCHANGED batches, batches > 0
      PROVE  BatchesOK'
  BY <1>2, <1>3, <1>4 DEF Initialized
<1>5. ASSUME NEW t \in Threads, InitCheck(t) \/ FinishInitialize(t) PROVE BatchesOK'
  BY <1>2, <1>4, <1>5 DEF InitCheck, IsInitialized, FinishInitialize, BatchesOK
<1>6. ASSUME NEW t \in Threads, AllocateFixedBuffers(t) PROVE BatchesOK'
  BY <1>6 DEF AllocateFixedBuffers, BatchesOK
<1>7. ASSUME NEW t \in Threads,
             \/ Initialize(t) \/ OpenDevice(t) \/ OpenRaises(t) \/ SubmitRefused(t)
             \/ CheckFd(t) \/ ReadAt(t) \/ ReadRaises(t) \/ Publish(t)
             \/ WaitTakes(t) \/ WaitTimesOut(t)
      PROVE  BatchesOK'
  <2>1. UNCHANGED batches /\ UNCHANGED initialized
    BY <1>7 DEF Initialize, OpenDevice, OpenRaises, SubmitRefused, CheckFd, ReadAt,
       ReadRaises, Publish, WaitTakes, WaitTimesOut
  <2>2. \/ Return(t)
        \/ Goto(t, "init") \/ Goto(t, "allocate")
        \/ Goto(t, "load_fd") /\ call[t].pc = "check_fd"
        \/ Goto(t, "publish") /\ call[t].pc = "read"
    BY <1>7 DEF Initialize, OpenDevice, OpenRaises, SubmitRefused, CheckFd, ReadAt,
       ReadRaises, Publish, WaitTakes, WaitTimesOut
  <2>3. CASE Return(t)
    BY <2>1, <2>3, <1>3
  <2>4. CASE Goto(t, "init") \/ Goto(t, "allocate")
    BY <2>1, <2>4, <1>2
  <2>5. CASE Goto(t, "load_fd") /\ call[t].pc = "check_fd"
    <3>1. batches > 0
      BY <2>5 DEF BatchesOK
    <3> QED
      BY <2>1, <2>5, <3>1, <1>2
  <2>6. CASE Goto(t, "publish") /\ call[t].pc = "read"
    <3>1. batches > 0
      BY <2>6 DEF BatchesOK
    <3> QED
      BY <2>1, <2>6, <3>1, <1>2
  <2> QED
    BY <2>2, <2>3, <2>4, <2>5, <2>6
<1>8. ASSUME NEW t \in Threads, SubmitAccepted(t) \/ LoadFd(t) PROVE BatchesOK'
  <2>1. UNCHANGED <<initialized, batches>> /\ batches > 0
    BY <1>8 DEF SubmitAccepted, LoadFd, BatchesOK
  <2> QED
    BY <2>1 DEF BatchesOK
<1>9. ASSUME NEW t \in Threads, NEW o \in Objects, SubmitRead(t, o) \/ WaitCompletion(t, o)
      PROVE  BatchesOK'
  <2>1. UNCHANGED batches /\ UNCHANGED initialized
    BY <1>9 DEF SubmitRead, WaitCompletion
  <2> DEFINE submitting == [Idle EXCEPT !.pc = "init", !.object = o, !.entry = layout_map[o]]
             waiting == [Idle EXCEPT !.pc = "wait", !.object = o]
  <2>2. submitting.pc = "init" /\ waiting.pc = "wait"
    BY DEF Idle
  <2>3. \/ call' = [call EXCEPT ![t] = submitting]
        \/ call' = [call EXCEPT ![t] = waiting]
    BY <1>9 DEF SubmitRead, WaitCompletion
  <2> HIDE DEF submitting, waiting
  <2> QED
    BY <2>1, <2>2, <2>3, <1>1
<1>10. ASSUME NEW t \in Closers,
              Close(t) \/ CheckClose(t) \/ OsClose(t) \/ OsCloseRaises(t) \/ ClearFd(t)
       PROVE  BatchesOK'
  <2>1. UNCHANGED batches /\ (initialized' => initialized) /\ t \in Threads
    BY <1>10, ThreadsAssumption DEF Close, CheckClose, OsClose, OsCloseRaises, ClearFd
  <2>2. Return(t) \/ Goto(t, "check_close") \/ Goto(t, "os_close") \/ Goto(t, "clear")
    BY <1>10 DEF Close, CheckClose, OsClose, OsCloseRaises, ClearFd
  <2> QED
    BY <2>1, <2>2, <1>2, <1>3
<1>11. CASE UNCHANGED <<initialized, batches, call>>
  BY <1>11 DEF BatchesOK
<1> QED
  BY <1>5, <1>6, <1>7, <1>8, <1>9, <1>10, <1>11
     DEF Next, ReadStep, vars, RegisterLayout, PollCompletions

(* No submit_read gets to its locked block before the fixed buffers exist, *)
(* whoever else initialises or closes meanwhile.                           *)
THEOREM BuffersComeFirst == Spec => []BuffersBeforeUse
<1>1. Init => BatchesOK
  BY DEF Init, BatchesOK, Idle, ReadPC
<1>2. BatchesOK => BuffersBeforeUse
  BY DEF BatchesOK, BuffersBeforeUse, Reading, ReadPC, At
<1>3. FlightInv => TypeOK
  BY DEF FlightInv
<1> QED
  BY <1>1, <1>2, <1>3, BatchesStep, InitFlight, FlightStep, PTL DEF Spec

----------------------------------------------------------------------------
(* What makes ReadsOpenDevice inductive when nobody closes: _fd, once set, *)
(* is open and stays set, and so is every descriptor loaded from it.       *)
OpenOK ==
    /\ fd # None => fd \in openFds
    /\ \A t \in Threads : /\ call[t].pc = "load_fd" => fd # None
                          /\ call[t].pc = "read" => call[t].fd \in openFds

\* A step of close().
ClosesDevice(t) == Close(t) \/ CheckClose(t) \/ OsClose(t) \/ OsCloseRaises(t) \/ ClearFd(t)

(* No step but those of close() closes a descriptor or forgets the one in  *)
(* use.                                                                    *)
LEMMA OpenStep ==
    ASSUME TypeOK, OpenOK, [Next]_vars, \A t \in Closers : ~ClosesDevice(t)
    PROVE  OpenOK'
<1> USE DEF TypeOK, device, tracking, At
<1>0. None \notin Fds
  BY NoneAssumption
\* Descriptors only come; t moves to a frame that speaks of no descriptor.
<1>1. ASSUME openFds \subseteq openFds', fd' # None => fd' \in openFds',
             fd # None => fd' # None, NEW t \in Threads, NEW frame,
             call' = [call EXCEPT ![t] = frame],
             frame.pc = "load_fd" => fd' # None,
             frame.pc = "read" => frame.fd \in openFds'
      PROVE  OpenOK'
  <2> SUFFICES ASSUME NEW u \in Threads
               PROVE  /\ call'[u].pc = "load_fd" => fd' # None
                      /\ call'[u].pc = "read" => call'[u].fd \in openFds'
    BY <1>1 DEF OpenOK
  <2>1. CASE u = t
    BY <1>1, <2>1
  <2>2. CASE u # t
    <3>1. call'[u] = call[u]
      BY <1>1, <2>2
    <3> QED
      BY <1>1, <3>1 DEF OpenOK
  <2> QED
    BY <2>1, <2>2
<1>2. ASSUME openFds \subseteq openFds', fd' # None => fd' \in openFds',
             fd # None => fd' # None, NEW t \in Threads, NEW pc, Goto(t, pc),
             pc = "load_fd" => fd' # None, pc # "read"
      PROVE  OpenOK'
  <2>1. [call[t] EXCEPT !.pc = pc].pc = pc
    BY DEF Frame
  <2> QED
    BY <1>1, <1>2, <2>1 DEF Goto
<1>3. ASSUME UNCHANGED <<fd, openFds>>, NEW t \in Threads, Return(t) PROVE OpenOK'
  <2>1. Idle.pc = "idle"
    BY DEF Idle
  <2> QED
    BY <1>1, <1>3, <2>1 DEF Return, OpenOK
<1>4. ASSUME NEW t \in Threads, OpenDevice(t) PROVE OpenOK'
  <2>1. /\ openFds \subseteq openFds' /\ fd' \in openFds' /\ fd' # None
        /\ Goto(t, "allocate")
    BY <1>0, <1>4 DEF OpenDevice, Opened, LowestFree
  <2> QED
    BY <2>1, <1>2
<1>5. ASSUME NEW t \in Threads,
             Initialize(t) \/ InitCheck(t) \/ OpenRaises(t) \/ AllocateFixedBuffers(t)
             \/ FinishInitialize(t) \/ SubmitRefused(t) \/ CheckFd(t) \/ ReadAt(t)
             \/ ReadRaises(t) \/ Publish(t) \/ WaitTakes(t) \/ WaitTimesOut(t)
      PROVE  OpenOK'
  <2>1. UNCHANGED <<fd, openFds>>
    BY <1>5 DEF Initialize, InitCheck, OpenRaises, AllocateFixedBuffers, FinishInitialize,
       SubmitRefused, CheckFd, ReadAt, ReadRaises, Publish, WaitTakes, WaitTimesOut
  <2>2. \/ Return(t)
        \/ \E pc \in {"init", "open", "set", "lock", "publish"} : Goto(t, pc)
        \/ fd # None /\ Goto(t, "load_fd")
    BY <1>5 DEF Initialize, InitCheck, Initialized, OpenRaises, AllocateFixedBuffers,
       FinishInitialize, SubmitRefused, CheckFd, ReadAt, ReadRaises, Publish, WaitTakes,
       WaitTimesOut
  <2>3. CASE Return(t)
    BY <2>1, <2>3, <1>3
  <2>4. ASSUME NEW pc \in {"init", "open", "set", "lock", "publish"}, Goto(t, pc)
        PROVE  OpenOK'
    <3>1. pc # "load_fd" /\ pc # "read"
      BY <2>4
    <3> QED
      BY <2>1, <2>4, <3>1, <1>2 DEF OpenOK
  <2>5. CASE fd # None /\ Goto(t, "load_fd")
    BY <2>1, <2>5, <1>2 DEF OpenOK
  <2> QED
    BY <2>2, <2>3, <2>4, <2>5
<1>6. ASSUME NEW t \in Threads, SubmitAccepted(t) \/ LoadFd(t) PROVE OpenOK'
  <2>1. /\ UNCHANGED <<fd, openFds>>
        /\ fd # None => fd \in openFds
    BY <1>6 DEF SubmitAccepted, LoadFd, OpenOK
  <2>2. CASE SubmitAccepted(t)
    <3> DEFINE frame == [call[t] EXCEPT !.pc = "check_fd", !.request = nextId]
    <3>1. frame.pc = "check_fd" /\ call' = [call EXCEPT ![t] = frame]
      BY <2>2 DEF SubmitAccepted, Frame
    <3> HIDE DEF frame
    <3> QED
      BY <2>1, <3>1, <1>1
  <2>3. CASE LoadFd(t)
    <3> DEFINE frame == [call[t] EXCEPT !.pc = "read", !.fd = fd]
    <3>1. frame.pc = "read" /\ frame.fd = fd /\ call' = [call EXCEPT ![t] = frame]
      BY <2>3 DEF LoadFd, Frame
    <3>2. fd # None
      BY <2>3 DEF LoadFd, OpenOK
    <3> HIDE DEF frame
    <3> QED
      BY <2>1, <3>1, <3>2, <1>1
  <2> QED
    BY <1>6, <2>2, <2>3
<1>7. ASSUME NEW t \in Threads, NEW o \in Objects, SubmitRead(t, o) \/ WaitCompletion(t, o)
      PROVE  OpenOK'
  <2> DEFINE submitting == [Idle EXCEPT !.pc = "init", !.object = o, !.entry = layout_map[o]]
             waiting == [Idle EXCEPT !.pc = "wait", !.object = o]
  <2>1. submitting.pc = "init" /\ waiting.pc = "wait"
    BY DEF Idle
  <2>2. /\ UNCHANGED <<fd, openFds>>
        /\ \/ call' = [call EXCEPT ![t] = submitting]
           \/ call' = [call EXCEPT ![t] = waiting]
    BY <1>7 DEF SubmitRead, WaitCompletion
  <2> HIDE DEF submitting, waiting
  <2>3. fd # None => fd \in openFds
    BY DEF OpenOK
  <2> QED
    BY <2>1, <2>2, <2>3, <1>1
<1>8. CASE UNCHANGED <<fd, openFds, call>>
  BY <1>8 DEF OpenOK
<1> QED
  BY <1>4, <1>5, <1>6, <1>7, <1>8
     DEF Next, ReadStep, vars, RegisterLayout, PollCompletions, ClosesDevice

(* With nobody closing, pread gets an open descriptor, however many        *)
(* threads race to open the device and whatever raises.                    *)
THEOREM NobodyClosesNobodyFails ==
    ASSUME Closers = {}
    PROVE  Spec => []ReadsOpenDevice
<1>1. Init => OpenOK
  BY DEF Init, OpenOK, Idle
<1>2. OpenOK => ReadsOpenDevice
  BY DEF OpenOK, ReadsOpenDevice, At
<1>3. TypeOK /\ OpenOK /\ [Next]_vars => OpenOK'
  BY OpenStep
<1>4. FlightInv => TypeOK
  BY DEF FlightInv
<1> QED
  BY <1>1, <1>2, <1>3, <1>4, InitFlight, FlightStep, PTL DEF Spec

============================================================================
