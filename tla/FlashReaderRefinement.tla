----------------------- MODULE FlashReaderRefinement -----------------------
(***************************************************************************)
(* FlashReader implements ReadService for any number of threads, objects,  *)
(* requests, descriptors and closes.  DataOK adds to the invariants of     *)
(* FlashReaderProofs what a frame and a request say of each other, OrderOK *)
(* the order of an object's completions, PlaceOK what the fixed buffers    *)
(* hold.                                                                   *)
(***************************************************************************)
EXTENDS FlashReaderProofs

(* A call that is not a wait and has an object has its layout entry; past  *)
(* the locked block the request has that entry, and a request about to be  *)
(* published has the status of its entry.                                  *)
FrameData(frame, R) ==
    /\ frame.pc # "wait" /\ frame.object # None => frame.entry \in Entries
    /\ frame.pc \in ReadPC => R[frame.request].entry = frame.entry
    /\ frame.pc = "publish" => R[frame.request].status = StatusOf(frame.entry)
FramesData == \A t \in Threads : FrameData(call[t], requests)

(* What is in flight for an object is a request of that object.            *)
FlightData ==
    \A o \in Objects :
        in_flight[o] # None => /\ requests[in_flight[o]].object = o
                               /\ requests[in_flight[o]].entry \in Entries

DataOK == FramesData /\ FlightData

(* Two steps alone change what a request says: the one that makes it, and  *)
(* the one that gives it its status.                                       *)
LEMMA RequestSteps ==
    [Next]_vars =>
        \/ UNCHANGED requests
        \/ \E t \in Threads : SubmitAccepted(t) \/ ReadAt(t)
  BY DEF Next, ReadStep, vars, device, tracking, RegisterLayout, Initialize, InitCheck,
     OpenDevice, OpenRaises, AllocateFixedBuffers, FinishInitialize, SubmitRefused,
     CheckFd, LoadFd, ReadRaises, Publish, PollCompletions, WaitTakes, WaitTimesOut,
     SubmitRead, WaitCompletion, Close, CheckClose, OsClose, OsCloseRaises, ClearFd

(* What the step that makes a request does to the table of requests.       *)
LEMMA AcceptedRequest ==
    ASSUME FlightInv, NEW t \in Threads, SubmitAccepted(t)
    PROVE  /\ call[t].pc = "lock" /\ call[t].object \in Objects
           /\ in_flight[call[t].object] = None
           /\ nextId \in RequestIds /\ nextId' = nextId + 1 /\ nextId # None
           /\ in_flight' = [in_flight EXCEPT ![call[t].object] = nextId]
           /\ requests'[nextId].object = call[t].object
           /\ requests'[nextId].entry = call[t].entry
           /\ \A r \in RequestIds \ {nextId} : requests'[r] = requests[r]
           /\ UNCHANGED <<cq, delivered>>
  BY NoneAssumption
     DEF FlightInv, TypeOK, FramesOK, FrameOK, SubmitAccepted, InFlight, At, RequestIds

(* What the step that gives a request its status does to the table.        *)
LEMMA ReadRequest ==
    ASSUME FlightInv, NEW t \in Threads, ReadAt(t)
    PROVE  /\ call[t].pc = "read" /\ call[t].request \in RequestIds
           /\ \A r \in RequestIds : /\ requests'[r].object = requests[r].object
                                    /\ requests'[r].entry = requests[r].entry
           /\ requests'[call[t].request].status = StatusOf(call[t].entry)
           /\ \A r \in RequestIds \ {call[t].request} : requests'[r] = requests[r]
           /\ UNCHANGED <<cq, in_flight, nextId, delivered>>
<1>1. call[t].pc = "read" /\ call[t].request \in RequestIds
  BY DEF FlightInv, FramesOK, FrameOK, ReadPC, ReadAt, At
<1>2. requests' = [requests EXCEPT ![call[t].request].status = StatusOf(call[t].entry)]
  BY DEF ReadAt
<1>3. requests \in [RequestIds -> IORequest]
  BY DEF FlightInv, TypeOK
<1>4. UNCHANGED <<cq, in_flight, nextId, delivered>>
  BY DEF ReadAt
<1> QED
  BY <1>1, <1>2, <1>3, <1>4 DEF IORequest

(* How a thread may move, when no request changes.                         *)
LEMMA DataMoves ==
    ASSUME TypeOK, FramesData, UNCHANGED requests, NEW t \in Threads
    PROVE  /\ \A frame : call' = [call EXCEPT ![t] = frame] /\ FrameData(frame, requests)
                            => FramesData'
           /\ Return(t) => FramesData'
           /\ \A pc \in ProgramCounter \ {"wait", "publish"} :
                 Goto(t, pc) /\ call[t].pc # "wait" /\ (pc \in ReadPC => call[t].pc \in ReadPC)
                    => FramesData'
<1>1. ASSUME NEW frame, call' = [call EXCEPT ![t] = frame], FrameData(frame, requests)
      PROVE  FramesData'
  <2> SUFFICES ASSUME NEW u \in Threads PROVE FrameData(call'[u], requests)
    BY DEF FramesData, FrameData, StatusOf
  <2> QED
    BY <1>1 DEF TypeOK, FramesData
<1>2. Return(t) => FramesData'
  <2>1. FrameData(Idle, requests)
    BY DEF FrameData, Idle, ReadPC
  <2> QED
    BY <1>1, <2>1 DEF Return
<1>3. ASSUME NEW pc \in ProgramCounter \ {"wait", "publish"}, Goto(t, pc),
             call[t].pc # "wait", pc \in ReadPC => call[t].pc \in ReadPC
      PROVE  FramesData'
  <2> DEFINE frame == [call[t] EXCEPT !.pc = pc]
  <2>1. /\ frame.pc = pc
        /\ frame.object = call[t].object
        /\ frame.entry = call[t].entry
        /\ frame.request = call[t].request
    BY DEF TypeOK, Frame
  <2>2. call' = [call EXCEPT ![t] = frame]
    BY <1>3 DEF Goto
  <2> HIDE DEF frame
  <2>3. FrameData(frame, requests)
    BY <1>3, <2>1 DEF FrameData, FramesData
  <2> QED
    BY <1>1, <2>2, <2>3
<1> QED
  BY <1>1, <1>2, <1>3

(* Every other step keeps the frames true to their requests.               *)
LEMMA OtherFramesData ==
    ASSUME FlightInv, FramesData, [Next]_vars,
           ~ \E t \in Threads : SubmitAccepted(t) \/ ReadAt(t)
    PROVE  FramesData'
<1> USE DEF At
<1>0. TypeOK /\ UNCHANGED requests
  <2>1. UNCHANGED requests
    BY RequestSteps
  <2> QED
    BY <2>1 DEF FlightInv
<1>1. CASE UNCHANGED call
  BY <1>0, <1>1 DEF FramesData, FrameData, StatusOf
<1>2. ASSUME NEW t \in Threads,
             Initialize(t) \/ InitCheck(t) \/ OpenDevice(t) \/ OpenRaises(t)
             \/ AllocateFixedBuffers(t) \/ FinishInitialize(t)
      PROVE  FramesData'
  <2>0. call[t].pc # "wait"
    BY <1>2 DEF Initialize, InitCheck, OpenDevice, OpenRaises, AllocateFixedBuffers,
       FinishInitialize
  <2>1. \/ Return(t)
        \/ \E pc \in {"init", "open", "allocate", "set", "lock"} : Goto(t, pc)
    BY <1>2 DEF Initialize, InitCheck, Initialized, OpenDevice, OpenRaises,
       AllocateFixedBuffers, FinishInitialize
  <2>2. CASE Return(t)
    BY <1>0, <2>2, DataMoves
  <2>3. ASSUME NEW pc \in {"init", "open", "allocate", "set", "lock"}, Goto(t, pc)
        PROVE  FramesData'
    BY <1>0, <2>0, <2>3, DataMoves DEF ProgramCounter, ReadPC
  <2> QED
    BY <2>1, <2>2, <2>3
<1>3. ASSUME NEW t \in Threads,
             SubmitRefused(t) \/ CheckFd(t) \/ ReadRaises(t) \/ Publish(t)
             \/ WaitTakes(t) \/ WaitTimesOut(t)
      PROVE  FramesData'
  <2>1. Return(t) \/ (call[t].pc = "check_fd" /\ Goto(t, "load_fd"))
    BY <1>3 DEF SubmitRefused, CheckFd, ReadRaises, Publish, WaitTakes, WaitTimesOut
  <2> QED
    BY <1>0, <2>1, DataMoves DEF ProgramCounter, ReadPC
<1>4. ASSUME NEW t \in Threads, LoadFd(t) PROVE FramesData'
  <2> DEFINE frame == [call[t] EXCEPT !.pc = "read", !.fd = fd]
  <2>1. /\ frame.pc = "read"
        /\ frame.object = call[t].object
        /\ frame.entry = call[t].entry
        /\ frame.request = call[t].request
    BY <1>0 DEF TypeOK, Frame
  <2>2. call' = [call EXCEPT ![t] = frame] /\ call[t].pc = "load_fd"
    BY <1>4 DEF LoadFd
  <2> HIDE DEF frame
  <2>3. FrameData(frame, requests)
    BY <2>1, <2>2 DEF FrameData, FramesData, ReadPC
  <2> QED
    BY <1>0, <2>2, <2>3, DataMoves
<1>5. ASSUME NEW t \in Threads, NEW o \in Objects, SubmitRead(t, o) PROVE FramesData'
  <2> DEFINE frame == [Idle EXCEPT !.pc = "init", !.object = o, !.entry = layout_map[o]]
  <2>1. /\ frame.pc = "init" /\ frame.entry = layout_map[o]
        /\ layout_map[o] \in Entries
    BY <1>0, <1>5 DEF SubmitRead, TypeOK, Idle
  <2>2. call' = [call EXCEPT ![t] = frame]
    BY <1>5 DEF SubmitRead
  <2> HIDE DEF frame
  <2>3. FrameData(frame, requests)
    BY <2>1 DEF FrameData, ReadPC
  <2> QED
    BY <1>0, <2>2, <2>3, DataMoves
<1>6. ASSUME NEW t \in Threads, NEW o \in Objects, WaitCompletion(t, o) PROVE FramesData'
  <2> DEFINE frame == [Idle EXCEPT !.pc = "wait", !.object = o]
  <2>1. frame.pc = "wait"
    BY DEF Idle
  <2>2. call' = [call EXCEPT ![t] = frame]
    BY <1>6 DEF WaitCompletion
  <2> HIDE DEF frame
  <2>3. FrameData(frame, requests)
    BY <2>1 DEF FrameData, ReadPC
  <2> QED
    BY <1>0, <2>2, <2>3, DataMoves
<1>7. ASSUME NEW t \in Closers,
             Close(t) \/ CheckClose(t) \/ OsClose(t) \/ OsCloseRaises(t) \/ ClearFd(t)
      PROVE  FramesData'
  <2>1. /\ t \in Threads /\ call[t].pc # "wait"
        /\ Return(t) \/ Goto(t, "check_close") \/ Goto(t, "os_close") \/ Goto(t, "clear")
    BY <1>7, ThreadsAssumption DEF Close, CheckClose, OsClose, OsCloseRaises, ClearFd
  <2> QED
    BY <1>0, <2>1, DataMoves DEF ProgramCounter, ReadPC
<1> QED
  BY <1>1, <1>2, <1>3, <1>4, <1>5, <1>6, <1>7
     DEF Next, ReadStep, vars, RegisterLayout, PollCompletions

(* The request just made has the entry of the frame that made it, and an   *)
(* id no other frame has.                                                  *)
LEMMA AcceptedFramesData ==
    ASSUME FlightInv, FramesData, NEW t \in Threads, SubmitAccepted(t)
    PROVE  FramesData'
<1>1. /\ call[t].pc = "lock"
      /\ nextId \in RequestIds
      /\ requests'[nextId].entry = call[t].entry
      /\ \A r \in RequestIds \ {nextId} : requests'[r] = requests[r]
  BY AcceptedRequest
<1>2. /\ call'[t].pc = "check_fd" /\ call'[t].request = nextId
      /\ call'[t].object = call[t].object /\ call'[t].entry = call[t].entry
      /\ \A u \in Threads \ {t} : call'[u] = call[u]
  BY DEF SubmitAccepted, FlightInv, TypeOK, Frame
<1>3. ASSUME NEW u \in Threads \ {t}, call[u].pc \in ReadPC
      PROVE  call[u].request \in RequestIds \ {nextId}
  <2>1. /\ call[u].object \in Objects
        /\ call[u].request \in RequestIds
        /\ in_flight[call[u].object] = call[u].request
    BY <1>3 DEF FlightInv, FramesOK, FrameOK, FlightOK, Reading, ReadPC
  <2>2. call[u].request < nextId
    BY <2>1, NoneAssumption DEF FlightInv, FlightOK, RequestIds
  <2> QED
    BY <2>1, <2>2 DEF RequestIds
<1>4. ASSUME NEW u \in Threads \ {t} PROVE FrameData(call[u], requests')
  BY <1>1, <1>3 DEF FramesData, FrameData, StatusOf, ReadPC
<1>5. FrameData(call'[t], requests')
  BY <1>1, <1>2 DEF FramesData, FrameData
<1> QED
  BY <1>2, <1>4, <1>5 DEF FramesData, FrameData, StatusOf

(* The request just read has the status of the entry of its frame, and no  *)
(* other frame has that request.                                           *)
LEMMA ReadFramesData ==
    ASSUME FlightInv, FramesData, NEW t \in Threads, ReadAt(t)
    PROVE  FramesData'
<1>1. /\ call[t].pc = "read" /\ call[t].request \in RequestIds
      /\ \A r \in RequestIds : requests'[r].entry = requests[r].entry
      /\ requests'[call[t].request].status = StatusOf(call[t].entry)
      /\ \A r \in RequestIds \ {call[t].request} : requests'[r] = requests[r]
  BY ReadRequest
<1>2. /\ call'[t].pc = "publish" /\ call'[t].request = call[t].request
      /\ call'[t].object = call[t].object /\ call'[t].entry = call[t].entry
      /\ \A u \in Threads \ {t} : call'[u] = call[u]
  BY DEF ReadAt, Goto, FlightInv, TypeOK, Frame
<1>3. ASSUME NEW u \in Threads \ {t}, call[u].pc \in ReadPC
      PROVE  call[u].request \in RequestIds \ {call[t].request}
  BY <1>1, <1>3 DEF FlightInv, FramesOK, FrameOK, FlightOK, Reading, ReadPC
<1>4. ASSUME NEW u \in Threads \ {t} PROVE FrameData(call[u], requests')
  BY <1>1, <1>3 DEF FramesData, FrameData, StatusOf, ReadPC
<1>5. FrameData(call'[t], requests')
  BY <1>1, <1>2 DEF FramesData, FrameData, ReadPC
<1> QED
  BY <1>2, <1>4, <1>5 DEF FramesData, FrameData, StatusOf

(* Frames, requests and the in-flight map stay true to each other.         *)
LEMMA DataStep == FlightInv /\ DataOK /\ [Next]_vars => DataOK'
<1> SUFFICES ASSUME FlightInv, DataOK, [Next]_vars PROVE DataOK'
  OBVIOUS
<1> USE DEF DataOK
<1>1. FramesData'
  BY OtherFramesData, AcceptedFramesData, ReadFramesData
<1>2. FlightData'
  <2>1. ASSUME NEW t \in Threads, SubmitAccepted(t) PROVE FlightData'
    <3>1. /\ call[t].pc = "lock" /\ call[t].object \in Objects
          /\ nextId \in RequestIds
          /\ in_flight' = [in_flight EXCEPT ![call[t].object] = nextId]
          /\ requests'[nextId].object = call[t].object
          /\ requests'[nextId].entry = call[t].entry
          /\ \A r \in RequestIds \ {nextId} : requests'[r] = requests[r]
      BY <2>1, AcceptedRequest
    <3>2. call[t].entry \in Entries
      BY <3>1, NoneAssumption DEF FramesData, FrameData
    <3>3. \A o \in Objects : in_flight[o] # None => in_flight[o] \in RequestIds \ {nextId}
      BY <3>1 DEF FlightInv, FlightOK, TypeOK, RequestIds
    <3> QED
      BY <3>1, <3>2, <3>3 DEF FlightData, FlightInv, TypeOK
  <2>2. ASSUME NEW t \in Threads, ReadAt(t) PROVE FlightData'
    <3>1. /\ \A r \in RequestIds : /\ requests'[r].object = requests[r].object
                                   /\ requests'[r].entry = requests[r].entry
          /\ UNCHANGED in_flight
      BY <2>2, ReadRequest
    <3> QED
      BY <3>1 DEF FlightData, FlightInv, TypeOK
  <2>3. CASE UNCHANGED requests
    <3>1. ASSUME NEW t \in Threads, Publish(t) PROVE FlightData'
      BY <2>3, <3>1 DEF Publish, NoLongerInFlight, FlightData, FlightInv, TypeOK
    <3>2. CASE UNCHANGED in_flight
      BY <2>3, <3>2 DEF FlightData
    <3>3. ASSUME NEW t \in Threads, SubmitAccepted(t) PROVE FlightData'
      BY <2>1, <3>3
    <3> QED
      BY <3>1, <3>2, <3>3, QueueSteps DEF PollCompletions, WaitTakes
  <2> QED
    BY <2>1, <2>2, <2>3, RequestSteps
<1> QED
  BY <1>1, <1>2

----------------------------------------------------------------------------
ReaderInv == FlightInv /\ AccountOK /\ DataOK

(* The strengthened invariants hold together, from the start.              *)
LEMMA InitReader == Init => ReaderInv
<1>1. Init => DataOK
  BY DEF Init, DataOK, FramesData, FrameData, FlightData, Idle, ReadPC
<1> QED
  BY <1>1, InitFlight, InitAccount DEF ReaderInv

(* Every step keeps the three parts of the invariant.                      *)
LEMMA ReaderInvStep == ReaderInv /\ [Next]_vars => ReaderInv'
  BY FlightStep, AccountStep, DataStep DEF ReaderInv

(* What the step that publishes a request does, and what is published.     *)
LEMMA Published ==
    ASSUME ReaderInv, NEW t \in Threads, Publish(t)
    PROVE  LET o == call[t].object
               r == call[t].request
           IN  /\ o \in Objects /\ r \in RequestIds
               /\ in_flight[o] = r
               /\ requests[r].object = o
               /\ requests[r] = [object |-> o, entry |-> requests[r].entry,
                                 status |-> StatusOf(requests[r].entry)]
               /\ requests[r].entry \in Entries
               /\ cq' = Append(cq, r)
               /\ in_flight' = [in_flight EXCEPT ![o] = None]
               /\ UNCHANGED requests
<1> DEFINE o == call[t].object
           r == call[t].request
<1>1. /\ o \in Objects /\ r \in RequestIds /\ in_flight[o] = r
      /\ cq' = Append(cq, r)
      /\ in_flight' = [in_flight EXCEPT ![o] = None]
      /\ UNCHANGED requests
      /\ call[t].pc = "publish"
  BY DEF Publish, QueuedLast, NoLongerInFlight, ReaderInv, FlightInv, FramesOK, FrameOK, ReadPC,
     FlightOK, Reading, At
<1>2. requests[r].entry = call[t].entry /\ requests[r].status = StatusOf(call[t].entry)
  BY <1>1 DEF ReaderInv, DataOK, FramesData, FrameData, ReadPC
<1>3. requests[r].object = o /\ requests[r].entry \in Entries
  BY <1>1, NoneAssumption DEF ReaderInv, DataOK, FlightData, RequestIds
<1>4. requests[r] \in IORequest
  BY <1>1 DEF ReaderInv, FlightInv, TypeOK
<1>5. requests[r] = [object |-> requests[r].object, entry |-> requests[r].entry,
                     status |-> requests[r].status]
  BY <1>4 DEF IORequest
<1> QED
  BY <1>1, <1>2, <1>3, <1>5

(* Requests in the queue are left alone by every step, and what is in      *)
(* flight keeps its object and its entry.                                  *)
LEMMA QueuedUntouched ==
    ASSUME ReaderInv, [Next]_vars
    PROVE  /\ \A r \in Elements(cq) : requests'[r] = requests[r]
           /\ \A r \in InFlightIds : /\ requests'[r].object = requests[r].object
                                     /\ requests'[r].entry = requests[r].entry
<1>1. CASE UNCHANGED requests
  BY <1>1
<1>2. Elements(cq) \subseteq RequestIds /\ InFlightIds \subseteq RequestIds
  BY DEF Elements, InFlightIds, ReaderInv, FlightInv, TypeOK
<1>3. ASSUME NEW t \in Threads, SubmitAccepted(t)
      PROVE  /\ \A r \in Elements(cq) : requests'[r] = requests[r]
             /\ \A r \in InFlightIds : requests'[r] = requests[r]
  <2>1. \A r \in RequestIds \ {nextId} : requests'[r] = requests[r]
    BY <1>3, AcceptedRequest DEF ReaderInv
  <2>2. nextId \notin Elements(cq) \cup InFlightIds
    <3>1. nextId \in RequestIds
      BY <1>3, AcceptedRequest DEF ReaderInv
    <3> QED
      BY <3>1 DEF ReaderInv, AccountOK, RequestIds
  <2> QED
    BY <1>2, <2>1, <2>2
<1>4. ASSUME NEW t \in Threads, ReadAt(t)
      PROVE  /\ \A r \in Elements(cq) : requests'[r] = requests[r]
             /\ \A r \in InFlightIds : /\ requests'[r].object = requests[r].object
                                       /\ requests'[r].entry = requests[r].entry
  <2>1. /\ call[t].pc = "read" /\ call[t].request \in RequestIds
        /\ \A r \in RequestIds : /\ requests'[r].object = requests[r].object
                                 /\ requests'[r].entry = requests[r].entry
        /\ \A r \in RequestIds \ {call[t].request} : requests'[r] = requests[r]
    BY <1>4, ReadRequest DEF ReaderInv
  <2>2. call[t].request \in InFlightIds
    BY <2>1, NoneAssumption DEF InFlightIds, ReaderInv, FlightInv, FlightOK, FramesOK, FrameOK,
       Reading, ReadPC, RequestIds
  <2>3. call[t].request \notin Elements(cq)
    BY <2>2 DEF ReaderInv, AccountOK
  <2> QED
    BY <1>2, <2>1, <2>3
<1> QED
  BY <1>1, <1>3, <1>4, RequestSteps

(* What makes PerObjectOrder inductive: what is in flight for an object is *)
(* later than what is queued for it.                                       *)
OrderOK ==
    /\ \A i, j \in 1 .. Len(cq) :
          i < j /\ requests[cq[i]].object = requests[cq[j]].object => cq[i] < cq[j]
    /\ \A o \in Objects, r \in Elements(cq) :
          in_flight[o] # None /\ requests[r].object = o => r < in_flight[o]

(* What a step publishes for an object is its newest request.              *)
LEMMA OrderStep == ReaderInv /\ OrderOK /\ [Next]_vars => OrderOK'
<1> SUFFICES ASSUME ReaderInv, OrderOK, [Next]_vars PROVE OrderOK'
  OBVIOUS
<1>0. /\ cq \in Seq(RequestIds) /\ Len(cq) \in Nat
      /\ in_flight \in [Objects -> RequestIds \cup {None}]
      /\ \A r \in Elements(cq) : r \in RequestIds /\ r < nextId
      /\ \A i \in 1 .. Len(cq) : cq[i] \in Elements(cq)
  BY DEF ReaderInv, FlightInv, TypeOK, AccountOK, Elements
<1>1. \A r \in Elements(cq) : requests'[r] = requests[r]
  BY QueuedUntouched
<1>2. CASE UNCHANGED <<in_flight, nextId, cq, delivered>>
  <2>1. UNCHANGED Elements(cq)
    BY <1>2 DEF Elements
  <2> QED
    BY <1>0, <1>1, <1>2, <2>1 DEF OrderOK
<1>3. ASSUME NEW t \in Threads, SubmitAccepted(t) PROVE OrderOK'
  <2>1. /\ in_flight' = [in_flight EXCEPT ![call[t].object] = nextId]
        /\ UNCHANGED cq
    BY <1>3, AcceptedRequest DEF ReaderInv
  <2>2. UNCHANGED Elements(cq)
    BY <2>1 DEF Elements
  <2> QED
    BY <1>0, <1>1, <2>1, <2>2 DEF OrderOK
<1>4. ASSUME NEW t \in Threads, Publish(t) PROVE OrderOK'
  <2> DEFINE o == call[t].object
             r == call[t].request
  <2>1. /\ o \in Objects /\ r \in RequestIds /\ in_flight[o] = r
        /\ requests[r].object = o
        /\ cq' = Append(cq, r)
        /\ in_flight' = [in_flight EXCEPT ![o] = None]
        /\ UNCHANGED requests
    BY <1>4, Published
  <2> HIDE DEF o, r
  <2>2. /\ Len(cq') = Len(cq) + 1
        /\ \A i \in 1 .. Len(cq) : cq'[i] = cq[i]
        /\ cq'[Len(cq) + 1] = r
    BY <1>0, <2>1, AppendProperties
  <2>3. r # None /\ \A q \in Elements(cq) : requests[q].object = o => q < r
    BY <2>1, NoneAssumption DEF OrderOK, RequestIds
  <2>4. \A i, j \in 1 .. Len(cq') :
           i < j /\ requests[cq'[i]].object = requests[cq'[j]].object => cq'[i] < cq'[j]
    <3> SUFFICES ASSUME NEW i \in 1 .. Len(cq'), NEW j \in 1 .. Len(cq'), i < j,
                        requests[cq'[i]].object = requests[cq'[j]].object
                 PROVE  cq'[i] < cq'[j]
      BY <2>1
    <3>1. i \in 1 .. Len(cq) /\ cq'[i] = cq[i] /\ cq[i] \in Elements(cq)
      BY <1>0, <2>2
    <3>2. CASE j = Len(cq) + 1
      BY <2>1, <2>2, <2>3, <3>1, <3>2
    <3>3. CASE j # Len(cq) + 1
      <4>1. j \in 1 .. Len(cq) /\ cq'[j] = cq[j]
        BY <1>0, <2>2, <3>3
      <4> QED
        BY <3>1, <4>1 DEF OrderOK
    <3> QED
      BY <3>2, <3>3
  <2>5. \A q \in Elements(cq') : q \in Elements(cq) \cup {r}
    BY <1>0, <2>2 DEF Elements
  <2>6. \A p \in Objects : in_flight'[p] # None => p # o /\ in_flight'[p] = in_flight[p]
    BY <1>0, <2>1
  <2> QED
    BY <2>1, <2>4, <2>5, <2>6 DEF OrderOK
<1>5. ASSUME NEW t \in Threads, PollCompletions(t) PROVE OrderOK'
  BY <1>5 DEF PollCompletions, AfterPoll, OrderOK, Elements
<1>6. ASSUME NEW t \in Threads, WaitTakes(t) PROVE OrderOK'
  <2>1. PICK i \in 1 .. Len(cq) : cq' = RemoveAt(cq, i)
    BY <1>0, <1>6 DEF WaitTakes
  <2>2. UNCHANGED <<requests, in_flight>>
    BY <1>6 DEF WaitTakes
  <2>3. /\ Len(cq') = Len(cq) - 1
        /\ \A j \in 1 .. Len(cq) - 1 : cq'[j] = IF j < i THEN cq[j] ELSE cq[j + 1]
    BY <1>0, <2>1, RemoveAtLemma
  <2>4. \A j, k \in 1 .. Len(cq') :
           j < k /\ requests[cq'[j]].object = requests[cq'[k]].object => cq'[j] < cq'[k]
    BY <1>0, <2>3 DEF OrderOK
  <2>5. \A q \in Elements(cq') : q \in Elements(cq)
    <3> SUFFICES ASSUME NEW j \in 1 .. Len(cq') PROVE cq'[j] \in Elements(cq)
      BY DEF Elements
    <3>1. PICK k \in 1 .. Len(cq) : cq'[j] = cq[k]
      BY <1>0, <2>3
    <3> QED
      BY <1>0, <3>1
  <2> QED
    BY <2>2, <2>4, <2>5 DEF OrderOK
<1> QED
  BY <1>2, <1>3, <1>4, <1>5, <1>6, QueueSteps

(* Completions of one object are queued in the order its reads were        *)
(* accepted, however many threads publish them.                            *)
THEOREM OldestFirst == Spec => []PerObjectOrder
<1>1. Init => OrderOK
  BY DEF Init, OrderOK, Elements
<1>2. ReaderInv /\ OrderOK => PerObjectOrder
  BY DEF ReaderInv, FlightInv, TypeOK, OrderOK, PerObjectOrder
<1> QED
  BY <1>1, <1>2, InitReader, ReaderInvStep, OrderStep, PTL DEF Spec

----------------------------------------------------------------------------
(* What makes DataInPlace inductive.  What fills a buffer is an accepted   *)
(* request that belongs there, an accepted request knows which earlier     *)
(* ones were in flight with it, and one that was read has fresh bytes.     *)
PlaceOK ==
    /\ \A r \in Accepted : requests[r].object \in Objects
    /\ \A b \in Buffers : buffers[b] # None =>
          buffers[b] \in Accepted /\ BufferOf[requests[buffers[b]].object] = b
    /\ \A r \in Accepted, q \in InFlightIds : q < r => q \in others[r]
    /\ \A r \in Accepted : requests[r].status # "PENDING" => BytesFresh(r)

(* One step alone brings bytes into a buffer.                              *)
LEMMA BufferSteps ==
    [Next]_vars => UNCHANGED buffers \/ \E t \in Threads : ReadAt(t)
  BY DEF Next, ReadStep, vars, device, tracking, RegisterLayout, Initialize, InitCheck,
     OpenDevice, OpenRaises, AllocateFixedBuffers, FinishInitialize, SubmitRefused,
     SubmitAccepted, CheckFd, LoadFd, ReadRaises, Publish, PollCompletions, WaitTakes,
     WaitTimesOut, SubmitRead, WaitCompletion, Close, CheckClose, OsClose, OsCloseRaises,
     ClearFd

(* A request once made keeps its object and its entry, and ids only grow.  *)
LEMMA MadeRequests ==
    ASSUME ReaderInv, [Next]_vars
    PROVE  /\ nextId \in Nat /\ nextId' \in Nat /\ nextId <= nextId'
           /\ \A r \in Accepted : /\ requests'[r].object = requests[r].object
                                 /\ requests'[r].entry = requests[r].entry
<1>1. nextId \in Nat /\ \A r \in Accepted : r \in RequestIds /\ r < nextId
  BY BoundsAssumption DEF ReaderInv, FlightInv, TypeOK, RequestIds, Accepted
<1>2. ASSUME NEW t \in Threads, SubmitAccepted(t)
      PROVE  /\ nextId' = nextId + 1
             /\ \A r \in Accepted : requests'[r] = requests[r]
  BY <1>1, <1>2, AcceptedRequest DEF ReaderInv, RequestIds
<1>3. ASSUME NEW t \in Threads, ReadAt(t)
      PROVE  /\ nextId' = nextId
             /\ \A r \in Accepted : /\ requests'[r].object = requests[r].object
                                   /\ requests'[r].entry = requests[r].entry
  BY <1>1, <1>3, ReadRequest DEF ReaderInv
<1>4. CASE ~ \E t \in Threads : SubmitAccepted(t) \/ ReadAt(t)
  <2>1. UNCHANGED requests
    BY <1>4, RequestSteps
  <2>2. UNCHANGED nextId
    BY <1>4, QueueSteps DEF Publish, PollCompletions, WaitTakes
  <2> QED
    BY <1>1, <2>1, <2>2
<1> QED
  BY <1>1, <1>2, <1>3, <1>4

(* Only the step that accepts a request says who was in flight with it.    *)
LEMMA OthersSteps ==
    [Next]_vars => UNCHANGED others \/ \E t \in Threads : SubmitAccepted(t)
  BY DEF Next, ReadStep, vars, device, tracking, RegisterLayout, Initialize, InitCheck,
     OpenDevice, OpenRaises, AllocateFixedBuffers, FinishInitialize, SubmitRefused, ReadAt,
     CheckFd, LoadFd, ReadRaises, Publish, PollCompletions, WaitTakes,
     WaitTimesOut, SubmitRead, WaitCompletion, Close, CheckClose, OsClose, OsCloseRaises,
     ClearFd

(* Requests leave _in_flight; the step that accepts one alone enters it.   *)
LEMMA FlightSteps ==
    ASSUME ReaderInv, [Next]_vars, ~ \E t \in Threads : SubmitAccepted(t)
    PROVE  InFlightIds' \subseteq InFlightIds /\ nextId' = nextId
<1>1. CASE UNCHANGED <<in_flight, nextId>>
  BY <1>1 DEF InFlightIds
<1>2. ASSUME NEW t \in Threads, Publish(t) PROVE InFlightIds' \subseteq InFlightIds /\ nextId' = nextId
  <2>1. in_flight' = [in_flight EXCEPT ![call[t].object] = None] /\ nextId' = nextId
    BY <1>2 DEF Publish, NoLongerInFlight
  <2> QED
    BY <2>1 DEF InFlightIds, ReaderInv, FlightInv, TypeOK
<1> QED
  BY <1>1, <1>2, QueueSteps DEF PollCompletions, WaitTakes

(* A request stays fresh while its buffer and its company are left alone.  *)
LEMMA FreshKept ==
    ASSUME ReaderInv, PlaceOK, [Next]_vars, NEW r \in Accepted, BytesFresh(r),
           buffers'[BufferOf[requests[r].object]] = buffers[BufferOf[requests[r].object]],
           others'[r] = others[r]
    PROVE  BytesFresh(r)'
<1>1. /\ r \in Accepted
      /\ \A q \in Accepted : requests'[q].object = requests[q].object
  BY MadeRequests
<1>2. BufferOf[requests[r].object] \in Buffers
  BY BufferAssumption DEF PlaceOK, Buffers
<1>3. buffers[BufferOf[requests[r].object]] \in Accepted
  BY <1>2 DEF PlaceOK, BytesFresh
<1> QED
  BY <1>1, <1>3 DEF BytesFresh

(* A request just accepted is PENDING, and says who is in flight with it.  *)
LEMMA AcceptedInPlace ==
    ASSUME ReaderInv, PlaceOK, [Next]_vars, NEW t \in Threads, SubmitAccepted(t)
    PROVE  PlaceOK'
<1>1. /\ call[t].object \in Objects
      /\ nextId \in RequestIds /\ nextId' = nextId + 1 /\ nextId # None
      /\ in_flight' = [in_flight EXCEPT ![call[t].object] = nextId]
      /\ requests'[nextId].object = call[t].object
      /\ \A r \in RequestIds \ {nextId} : requests'[r] = requests[r]
  BY AcceptedRequest DEF ReaderInv
<1>2. /\ requests'[nextId].status = "PENDING"
      /\ others'[nextId] = InFlightIds
      /\ \A r \in RequestIds \ {nextId} : others'[r] = others[r]
      /\ UNCHANGED buffers
  BY <1>1 DEF SubmitAccepted, ReaderInv, FlightInv, TypeOK
<1>3. Accepted' = Accepted \cup {nextId} /\ Accepted \subseteq RequestIds \ {nextId}
  BY <1>1 DEF Accepted, RequestIds
<1>4. InFlightIds' \subseteq InFlightIds \cup {nextId}
  BY <1>1 DEF InFlightIds, ReaderInv, FlightInv, TypeOK
<1>5. \A r \in Accepted' : requests'[r].object \in Objects
  BY <1>1, <1>3 DEF PlaceOK
<1>6. \A b \in Buffers : buffers'[b] # None =>
         buffers'[b] \in Accepted' /\ BufferOf[requests'[buffers'[b]].object] = b
  BY <1>1, <1>2, <1>3 DEF PlaceOK
<1>7. \A r \in Accepted', q \in InFlightIds' : q < r => q \in others'[r]
  <2>1. SUFFICES ASSUME NEW r \in Accepted', NEW q \in InFlightIds', q < r
                 PROVE  q \in others'[r]
    OBVIOUS
  <2>2. q # nextId
    BY <1>1, <1>3, <2>1 DEF Accepted, RequestIds
  <2> QED
    BY <1>2, <1>3, <1>4, <2>1, <2>2 DEF PlaceOK
<1>8. ASSUME NEW r \in Accepted', requests'[r].status # "PENDING" PROVE BytesFresh(r)'
  <2>1. r \in Accepted /\ requests'[r] = requests[r]
    BY <1>1, <1>2, <1>3, <1>8
  <2>2. others'[r] = others[r]
    BY <1>2, <1>3, <2>1
  <2>3. BytesFresh(r)
    BY <1>8, <2>1 DEF PlaceOK
  <2> QED
    BY <1>2, <2>1, <2>2, <2>3, FreshKept
<1> QED
  BY <1>5, <1>6, <1>7, <1>8 DEF PlaceOK

(* A read makes its own request fresh; of the others that look at its      *)
(* buffer, an earlier one sees a later id, a later one was accepted while  *)
(* this one was in flight.                                                 *)
LEMMA ReadInPlace ==
    ASSUME ReaderInv, PlaceOK, [Next]_vars, NEW t \in Threads, ReadAt(t)
    PROVE  PlaceOK'
<1> DEFINE mine == call[t].request
           mybuf == BufferOf[call[t].object]
<1>1. /\ mine \in RequestIds /\ call[t].object \in Objects
      /\ in_flight[call[t].object] = mine /\ mine # None /\ call[t].pc = "read"
      /\ mine \in InFlightIds
  BY NoneAssumption DEF ReadAt, At, ReaderInv, FlightInv, TypeOK, FramesOK, FrameOK, ReadPC,
     FlightOK, Reading, RequestIds, InFlightIds
<1>2. mine \in Accepted
  BY <1>1 DEF ReaderInv, FlightInv, FlightOK, Accepted
<1>3. requests[mine].object = call[t].object
  BY <1>1 DEF ReaderInv, DataOK, FlightData
<1>4. mybuf \in Buffers
  BY <1>1, BufferAssumption DEF Buffers
<1>5. /\ buffers'[mybuf] = mine
      /\ \A b \in Buffers \ {mybuf} : buffers'[b] = buffers[b]
  BY <1>4 DEF ReadAt, BufferFor, ReaderInv, FlightInv, TypeOK
<1>6. /\ \A r \in RequestIds : requests'[r].object = requests[r].object
      /\ \A r \in RequestIds \ {mine} : requests'[r] = requests[r]
      /\ UNCHANGED <<cq, in_flight, nextId>>
  BY ReadRequest DEF ReaderInv
<1>7. UNCHANGED others
  BY DEF ReadAt
<1>8. Accepted' = Accepted /\ InFlightIds' = InFlightIds /\ Accepted \subseteq RequestIds
  BY <1>6 DEF Accepted, InFlightIds
<1> HIDE DEF mine, mybuf
<1>9. \A r \in Accepted' : requests'[r].object \in Objects
  BY <1>6, <1>8 DEF PlaceOK
<1>10. \A b \in Buffers : buffers'[b] # None =>
          buffers'[b] \in Accepted' /\ BufferOf[requests'[buffers'[b]].object] = b
  <2>1. SUFFICES ASSUME NEW b \in Buffers, buffers'[b] # None
                 PROVE  buffers'[b] \in Accepted /\ BufferOf[requests'[buffers'[b]].object] = b
    BY <1>8
  <2>2. CASE b = mybuf
    BY <1>2, <1>3, <1>5, <1>6, <1>8, <2>2 DEF mybuf
  <2>3. CASE b # mybuf
    BY <1>5, <1>6, <1>8, <2>1, <2>3 DEF PlaceOK
  <2> QED
    BY <2>2, <2>3
<1>11. \A r \in Accepted', q \in InFlightIds' : q < r => q \in others'[r]
  BY <1>7, <1>8 DEF PlaceOK
<1>12. ASSUME NEW r \in Accepted', requests'[r].status # "PENDING" PROVE BytesFresh(r)'
  <2>0. r \in Accepted /\ r \in Nat /\ mine \in Nat
    BY <1>1, <1>8, <1>12 DEF RequestIds
  <2>1. CASE BufferOf[requests[r].object] = mybuf
    <3>1. /\ BufferOf[requests'[r].object] = mybuf
          /\ BufferOf[requests'[mine].object] = mybuf
      BY <1>1, <1>3, <1>6, <1>8, <2>0, <2>1 DEF mybuf
    <3>2. r <= mine \/ mine \in others'[r]
      BY <1>1, <1>7, <2>0 DEF PlaceOK
    <3> QED
      BY <1>1, <1>5, <3>1, <3>2 DEF BytesFresh
  <2>2. CASE BufferOf[requests[r].object] # mybuf
    <3>1. r # mine
      BY <1>3, <2>2 DEF mybuf
    <3>2. requests'[r] = requests[r]
      BY <1>6, <1>8, <2>0, <3>1
    <3>3. BytesFresh(r)
      BY <1>12, <2>0, <3>2 DEF PlaceOK
    <3>4. BufferOf[requests[r].object] \in Buffers
      BY <2>0, BufferAssumption DEF PlaceOK, Buffers
    <3>5. buffers'[BufferOf[requests[r].object]] = buffers[BufferOf[requests[r].object]]
      BY <1>5, <2>2, <3>4
    <3>6. others'[r] = others[r]
      BY <1>7
    <3> QED
      BY <2>0, <3>3, <3>5, <3>6, FreshKept
  <2> QED
    BY <2>1, <2>2
<1> QED
  BY <1>9, <1>10, <1>11, <1>12 DEF PlaceOK

(* Every other step leaves the buffers and the requests alone.             *)
LEMMA PlaceStep == ReaderInv /\ PlaceOK /\ [Next]_vars => PlaceOK'
<1> SUFFICES ASSUME ReaderInv, PlaceOK, [Next]_vars,
                    ~ \E t \in Threads : SubmitAccepted(t) \/ ReadAt(t)
             PROVE  PlaceOK'
  BY AcceptedInPlace, ReadInPlace
<1>1. UNCHANGED requests /\ UNCHANGED buffers /\ UNCHANGED others
  BY RequestSteps, BufferSteps, OthersSteps
<1>2. InFlightIds' \subseteq InFlightIds /\ nextId' = nextId
  BY FlightSteps
<1>3. Accepted' = Accepted
  BY <1>2 DEF Accepted
<1> QED
  BY <1>1, <1>2, <1>3 DEF PlaceOK, BytesFresh

(* At the start nothing was accepted and nothing was read.                 *)
LEMMA InitPlace == Init => PlaceOK
<1> SUFFICES ASSUME Init PROVE PlaceOK
  OBVIOUS
<1>1. Accepted = {}
  BY DEF Init, Accepted, RequestIds
<1> QED
  BY <1>1 DEF Init, PlaceOK

(* For any hash of the objects, any layouts and re-registrations, threads, *)
(* errors and closes: while a completion waits in the queue, its buffer    *)
(* never holds what was read before its request was accepted.              *)
THEOREM BytesStayFresh == Spec => []DataInPlace
<1>1. ReaderInv /\ PlaceOK => DataInPlace
  <2> SUFFICES ASSUME ReaderInv, PlaceOK, NEW i \in DOMAIN cq,
                      requests[cq[i]].status = "COMPLETED"
               PROVE  BytesFresh(cq[i])
    BY DEF DataInPlace
  <2>1. cq[i] \in Elements(cq)
    BY DEF Elements, ReaderInv, FlightInv, TypeOK
  <2>2. cq[i] \in Accepted
    BY <2>1 DEF ReaderInv, AccountOK, Accepted
  <2> QED
    BY <2>2 DEF PlaceOK
<1> QED
  BY <1>1, InitPlace, PlaceStep, InitReader, ReaderInvStep, PTL DEF Spec

----------------------------------------------------------------------------
(* The service the reader is mapped to.                                    *)
InService(o) == [object |-> o, entry |-> requests[in_flight[o]].entry]
ReadsInService == {InService(o) : o \in {p \in Objects : in_flight[p] # None}}
Mapped(R, s) == [i \in DOMAIN s |-> R[s[i]]]
QueueInService == Mapped(requests, cq)

(* Looking up every request of a queue in a table keeps the queue's length *)
(* and order.                                                              *)
LEMMA MapQueue ==
    ASSUME NEW R \in [RequestIds -> IORequest], NEW s \in Seq(RequestIds)
    PROVE  /\ Mapped(R, s) \in Seq(IORequest)
           /\ Len(Mapped(R, s)) = Len(s)
           /\ \A j \in 1 .. Len(s) : Mapped(R, s)[j] = R[s[j]]
  BY DEF Mapped

(* So does it when a request is appended, or taken out.                    *)
LEMMA MapAppend ==
    ASSUME NEW R \in [RequestIds -> IORequest], NEW s \in Seq(RequestIds),
           NEW e \in RequestIds
    PROVE  Mapped(R, Append(s, e)) = Append(Mapped(R, s), R[e])
<1> DEFINE mapped == Mapped(R, s)
           long == Mapped(R, Append(s, e))
<1>1. /\ Append(s, e) \in Seq(RequestIds)
      /\ Len(Append(s, e)) = Len(s) + 1
      /\ \A i \in 1 .. Len(s) : Append(s, e)[i] = s[i]
      /\ Append(s, e)[Len(s) + 1] = e
      /\ Len(s) \in Nat
  BY AppendProperties
<1>2. /\ mapped \in Seq(IORequest) /\ Len(mapped) = Len(s)
      /\ \A i \in 1 .. Len(s) : mapped[i] = R[s[i]]
  BY MapQueue
<1>3. /\ long \in Seq(IORequest) /\ Len(long) = Len(Append(s, e))
      /\ \A i \in 1 .. Len(Append(s, e)) : long[i] = R[Append(s, e)[i]]
  BY <1>1, MapQueue
<1> HIDE DEF mapped, long
<1>4. /\ Append(mapped, R[e]) \in Seq(IORequest)
      /\ Len(Append(mapped, R[e])) = Len(s) + 1
      /\ \A i \in 1 .. Len(s) : Append(mapped, R[e])[i] = mapped[i]
      /\ Append(mapped, R[e])[Len(s) + 1] = R[e]
  BY <1>2, AppendProperties
<1>5. \A i \in 1 .. Len(s) + 1 : long[i] = Append(mapped, R[e])[i]
  BY <1>1, <1>2, <1>3, <1>4
<1>6. long = Append(mapped, R[e])
  BY <1>1, <1>3, <1>4, <1>5, SeqEqual
<1> QED
  BY <1>6 DEF mapped, long

(* Mapping a queue of requests to their completions and removing one       *)
(* commute.                                                                *)
LEMMA MapRemoveAt ==
    ASSUME NEW R \in [RequestIds -> IORequest], NEW s \in Seq(RequestIds),
           NEW n \in 1 .. Len(s)
    PROVE  Mapped(R, RemoveAt(s, n)) = RemoveAt(Mapped(R, s), n)
<1> DEFINE mapped == Mapped(R, s)
           short == Mapped(R, RemoveAt(s, n))
<1>1. /\ RemoveAt(s, n) \in Seq(RequestIds)
      /\ Len(RemoveAt(s, n)) = Len(s) - 1
      /\ \A i \in 1 .. Len(s) - 1 : RemoveAt(s, n)[i] = IF i < n THEN s[i] ELSE s[i + 1]
      /\ Len(s) \in Nat
  BY RemoveAtLemma
<1>2. /\ mapped \in Seq(IORequest) /\ Len(mapped) = Len(s)
      /\ \A i \in 1 .. Len(s) : mapped[i] = R[s[i]]
  BY MapQueue
<1>3. /\ short \in Seq(IORequest) /\ Len(short) = Len(RemoveAt(s, n))
      /\ \A i \in 1 .. Len(RemoveAt(s, n)) : short[i] = R[RemoveAt(s, n)[i]]
  BY <1>1, MapQueue
<1> HIDE DEF mapped, short
<1>4. /\ RemoveAt(mapped, n) \in Seq(IORequest)
      /\ Len(RemoveAt(mapped, n)) = Len(s) - 1
      /\ \A i \in 1 .. Len(s) - 1 :
            RemoveAt(mapped, n)[i] = IF i < n THEN mapped[i] ELSE mapped[i + 1]
  <2>1. n \in 1 .. Len(mapped)
    BY <1>2
  <2>2. /\ RemoveAt(mapped, n) \in Seq(IORequest)
        /\ Len(RemoveAt(mapped, n)) = Len(mapped) - 1
        /\ \A i \in 1 .. Len(mapped) - 1 :
              RemoveAt(mapped, n)[i] = IF i < n THEN mapped[i] ELSE mapped[i + 1]
    BY <1>2, <2>1, RemoveAtLemma
  <2> QED
    BY <1>2, <2>2
<1>5. ASSUME NEW i \in 1 .. Len(s) - 1 PROVE short[i] = RemoveAt(mapped, n)[i]
  <2>1. i \in 1 .. Len(s) /\ i + 1 \in 1 .. Len(s)
    BY <1>1
  <2>2. CASE i < n
    <3>1. short[i] = R[s[i]]
      BY <1>1, <1>3, <2>2
    <3>2. RemoveAt(mapped, n)[i] = mapped[i]
      BY <1>4, <2>2
    <3> QED
      BY <1>2, <2>1, <3>1, <3>2
  <2>3. CASE ~(i < n)
    <3>1. short[i] = R[s[i + 1]]
      BY <1>1, <1>3, <2>3
    <3>2. RemoveAt(mapped, n)[i] = mapped[i + 1]
      BY <1>4, <2>3
    <3> QED
      BY <1>2, <2>1, <3>1, <3>2
  <2> QED
    BY <2>2, <2>3
<1>6. short = RemoveAt(mapped, n)
  BY <1>1, <1>3, <1>4, <1>5, SeqEqual
<1> QED
  BY <1>6 DEF mapped, short

(* A step that leaves the map and the queue alone is not seen by a caller. *)
LEMMA UnseenSteps ==
    ASSUME ReaderInv, [Next]_vars, UNCHANGED <<in_flight, cq>>
    PROVE  UNCHANGED <<ReadsInService, QueueInService>>
<1>1. \A i \in DOMAIN cq : requests'[cq[i]] = requests[cq[i]]
  <2>1. \A i \in DOMAIN cq : cq[i] \in Elements(cq)
    BY DEF Elements, ReaderInv, FlightInv, TypeOK
  <2> QED
    BY <2>1, QueuedUntouched
<1>2. \A o \in {p \in Objects : in_flight[p] # None} :
         requests'[in_flight[o]].entry = requests[in_flight[o]].entry
  <2>1. \A o \in Objects : in_flight[o] # None => in_flight[o] \in InFlightIds
    BY DEF InFlightIds
  <2> QED
    BY <2>1, QueuedUntouched
<1> QED
  BY <1>1, <1>2 DEF ReadsInService, InService, QueueInService, Mapped

(* The locked block of submit_read accepts a read in the service.          *)
LEMMA AcceptedInService ==
    ASSUME ReaderInv, [Next]_vars, NEW t \in Threads, SubmitAccepted(t)
    PROVE  \E o \in Objects, e \in Entries :
              /\ \A read \in ReadsInService : read.object # o
              /\ ReadsInService' = ReadsInService \cup {[object |-> o, entry |-> e]}
              /\ UNCHANGED QueueInService
<1> SUFFICES ASSUME NEW o, o = call[t].object, NEW e, e = call[t].entry
             PROVE  /\ o \in Objects /\ e \in Entries
                    /\ \A read \in ReadsInService : read.object # o
                    /\ ReadsInService' = ReadsInService \cup {[object |-> o, entry |-> e]}
                    /\ UNCHANGED QueueInService
  OBVIOUS
<1>1. /\ o \in Objects /\ in_flight[o] = None /\ call[t].pc = "lock"
      /\ nextId # None
      /\ in_flight' = [in_flight EXCEPT ![o] = nextId]
      /\ requests'[nextId].entry = e
      /\ UNCHANGED cq
  BY AcceptedRequest DEF ReaderInv
<1>2. e \in Entries
  BY <1>1, NoneAssumption DEF ReaderInv, DataOK, FramesData, FrameData
<1>3. \A p \in Objects \ {o} : in_flight'[p] = in_flight[p]
  BY <1>1 DEF ReaderInv, FlightInv, TypeOK
<1>4. in_flight'[o] = nextId
  BY <1>1 DEF ReaderInv, FlightInv, TypeOK
<1>5. \A p \in Objects : in_flight[p] # None =>
         requests'[in_flight[p]].entry = requests[in_flight[p]].entry
  <2>1. \A p \in Objects : in_flight[p] # None => in_flight[p] \in InFlightIds
    BY DEF InFlightIds
  <2> QED
    BY <2>1, QueuedUntouched
<1>6. \A p \in Objects : in_flight[p] # None => p # o /\ InService(p)' = InService(p)
  BY <1>1, <1>3, <1>5 DEF InService
<1>7. InService(o)' = [object |-> o, entry |-> e]
  BY <1>1, <1>4 DEF InService
<1>8. ReadsInService' = ReadsInService \cup {[object |-> o, entry |-> e]}
  <2>1. {p \in Objects : in_flight'[p] # None} = {p \in Objects : in_flight[p] # None} \cup {o}
    BY <1>1, <1>3, <1>4
  <2>2. ReadsInService' = {InService(p)' : p \in {q \in Objects : in_flight'[q] # None}}
    BY DEF ReadsInService
  <2> QED
    BY <1>6, <1>7, <2>1, <2>2 DEF ReadsInService
<1>9. \A read \in ReadsInService : read.object # o
  BY <1>1 DEF ReadsInService, InService
<1>10. UNCHANGED QueueInService
  <2>1. \A i \in DOMAIN cq : cq[i] \in Elements(cq)
    BY DEF Elements, ReaderInv, FlightInv, TypeOK
  <2> QED
    BY <1>1, <2>1, QueuedUntouched DEF QueueInService, Mapped
<1> QED
  BY <1>1, <1>2, <1>8, <1>9, <1>10

(* The locked block that publishes completes the read in the service.      *)
LEMMA PublishedInService ==
    ASSUME ReaderInv, [Next]_vars, NEW t \in Threads, Publish(t)
    PROVE  \E read \in ReadsInService :
              /\ ReadsInService' = ReadsInService \ {read}
              /\ QueueInService' = Append(QueueInService,
                    [object |-> read.object, entry |-> read.entry,
                     status |-> StatusOf(read.entry)])
<1> SUFFICES ASSUME NEW o, o = call[t].object, NEW r, r = call[t].request
             PROVE  \E read \in ReadsInService :
                       /\ ReadsInService' = ReadsInService \ {read}
                       /\ QueueInService' = Append(QueueInService,
                             [object |-> read.object, entry |-> read.entry,
                              status |-> StatusOf(read.entry)])
  OBVIOUS
<1>1. /\ o \in Objects /\ r \in RequestIds
      /\ in_flight[o] = r
      /\ requests[r] = [object |-> o, entry |-> requests[r].entry,
                        status |-> StatusOf(requests[r].entry)]
      /\ cq' = Append(cq, r)
      /\ in_flight' = [in_flight EXCEPT ![o] = None]
      /\ UNCHANGED requests
  BY Published
<1>2. /\ cq \in Seq(RequestIds) /\ requests \in [RequestIds -> IORequest]
      /\ in_flight \in [Objects -> RequestIds \cup {None}]
  BY DEF ReaderInv, FlightInv, TypeOK
<1>3. r # None
  BY <1>1, NoneAssumption DEF RequestIds
<1>4. InService(o) = [object |-> o, entry |-> requests[r].entry]
  BY <1>1 DEF InService
<1>5. InService(o) \in ReadsInService
  BY <1>1, <1>3 DEF ReadsInService
<1>6. ReadsInService' = ReadsInService \ {InService(o)}
  <2>1. \A p \in Objects : in_flight'[p] # None <=> in_flight[p] # None /\ p # o
    BY <1>1, <1>2
  <2>2. \A p \in Objects \ {o} : InService(p)' = InService(p) /\ InService(p) # InService(o)
    BY <1>1, <1>2 DEF InService
  <2>3. ReadsInService' = {InService(p)' : p \in {q \in Objects : in_flight'[q] # None}}
    BY DEF ReadsInService
  <2>4. ReadsInService' = {InService(p) : p \in {q \in Objects : in_flight[q] # None /\ q # o}}
    BY <2>1, <2>2, <2>3
  <2> QED
    BY <2>2, <2>4 DEF ReadsInService
<1>7. QueueInService' = Append(QueueInService, requests[r])
  <2>1. QueueInService' = Mapped(requests, Append(cq, r))
    BY <1>1 DEF QueueInService, Mapped
  <2>2. Mapped(requests, Append(cq, r)) = Append(Mapped(requests, cq), requests[r])
    BY <1>1, <1>2, MapAppend
  <2> QED
    BY <2>1, <2>2 DEF QueueInService, Mapped
<1>8. /\ InService(o).object = o /\ InService(o).entry = requests[r].entry
  BY <1>4
<1> WITNESS InService(o) \in ReadsInService
<1> QED
  BY <1>1, <1>6, <1>7, <1>8

(* The waiter takes in the service what it takes from the queue.           *)
LEMMA TakenInService ==
    ASSUME ReaderInv, [Next]_vars, NEW t \in Threads, WaitTakes(t)
    PROVE  \E o \in Objects, n \in DOMAIN QueueInService :
              /\ QueueInService[n].object = o
              /\ \A j \in 1 .. n - 1 : QueueInService[j].object # o
              /\ QueueInService' = RemoveAt(QueueInService, n)
              /\ UNCHANGED ReadsInService
<1>1. /\ cq \in Seq(RequestIds) /\ requests \in [RequestIds -> IORequest]
  BY DEF ReaderInv, FlightInv, TypeOK
<1>2. PICK n \in 1 .. Len(cq) : FirstOf(n, call[t].object) /\ cq' = RemoveAt(cq, n)
  BY <1>1 DEF WaitTakes
<1>3. call[t].object \in Objects
  BY DEF WaitTakes, At, ReaderInv, FlightInv, FramesOK, FrameOK
<1>4. UNCHANGED <<requests, in_flight>>
  BY DEF WaitTakes
<1>5. /\ DOMAIN QueueInService = 1 .. Len(cq)
      /\ \A j \in 1 .. Len(cq) : QueueInService[j] = requests[cq[j]]
  BY <1>1 DEF QueueInService, Mapped
<1>6. /\ QueueInService[n].object = call[t].object
      /\ \A j \in 1 .. n - 1 : QueueInService[j].object # call[t].object
  BY <1>2, <1>5 DEF FirstOf
<1>7. QueueInService' = RemoveAt(QueueInService, n)
  <2>1. QueueInService' = Mapped(requests, RemoveAt(cq, n))
    BY <1>2, <1>4 DEF QueueInService, Mapped
  <2>2. Mapped(requests, RemoveAt(cq, n)) = RemoveAt(Mapped(requests, cq), n)
    BY <1>1, MapRemoveAt
  <2> QED
    BY <2>1, <2>2 DEF QueueInService, Mapped
<1>8. UNCHANGED ReadsInService
  BY <1>4 DEF ReadsInService, InService
<1> QED
  BY <1>2, <1>3, <1>5, <1>6, <1>7, <1>8

(* Every step is a step of the service, or changes nothing in it.          *)
LEMMA ServiceStep ==
    ReaderInv /\ [Next]_vars => [Service!ServiceNext]_(Service!service)
<1> SUFFICES ASSUME ReaderInv, [Next]_vars
             PROVE  \/ Service!ServiceNext
                    \/ UNCHANGED <<ReadsInService, QueueInService>>
  BY DEF Service!service, ReadsInService, InService, QueueInService, Mapped
<1> USE DEF Service!ServiceNext
<1>1. CASE UNCHANGED <<in_flight, nextId, cq, delivered>>
  BY <1>1, UnseenSteps
<1>2. ASSUME NEW t \in Threads, SubmitAccepted(t)
      PROVE  \E o \in Objects, e \in Entries : Service!Accept(o, e)
  BY <1>2, AcceptedInService
     DEF Service!Accept, Service!InFlight, ReadsInService, InService, QueueInService, Mapped
<1>3. ASSUME NEW t \in Threads, Publish(t)
      PROVE  \E read \in ReadsInService : Service!Complete(read)
  BY <1>3, PublishedInService
     DEF Service!Complete, StatusOf, ReadsInService, InService, QueueInService, Mapped
<1>4. ASSUME NEW t \in Threads, PollCompletions(t) PROVE Service!TakeAll
  <2>1. cq' = <<>> /\ UNCHANGED <<requests, in_flight>>
    BY <1>4 DEF PollCompletions, AfterPoll
  <2>2. QueueInService' = <<>>
    BY <2>1 DEF QueueInService, Mapped
  <2>3. UNCHANGED ReadsInService
    BY <2>1 DEF ReadsInService, InService
  <2> QED
    BY <2>2, <2>3 DEF Service!TakeAll, ReadsInService, InService, QueueInService, Mapped
<1>5. ASSUME NEW t \in Threads, WaitTakes(t)
      PROVE  \E o \in Objects, n \in DOMAIN QueueInService : Service!TakeOldest(o, n)
  BY <1>5, TakenInService
     DEF Service!TakeOldest, Service!Oldest, Service!RemoveAt, RemoveAt,
         ReadsInService, InService, QueueInService, Mapped
<1> QED
  BY <1>1, <1>2, <1>3, <1>4, <1>5, QueueSteps DEF ReadsInService, InService, QueueInService, Mapped

(* For any threads, descriptors, errors and closes, the reader is the      *)
(* service: callers see reads accepted, completed and taken, one at a      *)
(* time.                                                                   *)
THEOREM ReaderIsService == Spec => ImplementsService
<1>1. Init => Service!ServiceInit
  BY DEF Init, Service!ServiceInit
<1> QED
  BY <1>1, InitReader, ReaderInvStep, ServiceStep, PTL
     DEF Spec, ImplementsService, Service!ServiceSpec
=============================================================================
