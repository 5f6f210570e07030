--------------------------- MODULE SourcesProofs ---------------------------
(***************************************************************************)
(* Proofs about the live sources, for any consumers, buffers, goroutines   *)
(* and bounds: they use the Flow as it may be used, so its theorems are    *)
(* theirs; the camera's memory is not forgotten; and consumers that come   *)
(* in an orderly way never make Start or Stop panic (Orderly).             *)
(***************************************************************************)
EXTENDS Sources, FlowProofs

\* Every step of a source is a step of the Flow, or leaves it alone.
LEMMA SourceStepsAreFlowSteps == [Next]_vars => [FlowNext]_flowVars
<1> SUFFICES ASSUME [Next]_vars PROVE [FlowNext]_flowVars
  OBVIOUS
<1>1. CASE UNCHANGED vars
  BY <1>1 DEF vars
<1>2. ASSUME NEW u \in User, Arrive(u) \/ Consume(u) \/ Depart(u)
      PROVE  FlowNext
  BY <1>2 DEF Arrive, Consume, Depart, FlowNext
<1>3. ASSUME NEW u \in User, Starting(u)
      PROVE  [FlowNext]_flowVars
  BY <1>3 DEF Starting, MapMemory, EnableStream, Setup, Play, Panics, FlowNext
<1>4. CASE Stopping
  BY <1>4 DEF Stopping, DisableStream, UnmapMemory, LookAtQuit, CloseQuit, Panics, FlowNext
<1>5. CASE PutStep
  BY <1>5 DEF PutStep, FlowNext
<1>6. ASSUME NEW l \in Loop, Reading(l) \/ Ending(l) \/ ReceiveUnit(l) \/ PutUnit(l)
      PROVE  [FlowNext]_flowVars
  BY <1>6 DEF Reading, ReadFrame, Dequeue, CopyFrame, EnterReceive, Ending, ReadEnds, ReceiveEnds,
              ReceiveUnit, PutUnit, Panics, TellReceivers, FlowNext
<1> QED
  BY <1>1, <1>2, <1>3, <1>4, <1>5, <1>6 DEF Next

\* The camera and the RTSP session implement the Flow with some source.
THEOREM SourcesImplementFlow == Spec => ImplementsFlow
<1>1. Init => FlowInit
  BY DEF Init
<1> QED
  BY <1>1, SourceStepsAreFlowSteps, PTL DEF Spec, ImplementsFlow, FlowSpec

\* SharedBuffer.count is exact whichever live source fills the buffers.
THEOREM SourceCountsAreExact == Spec => []CountsAreExact
BY SourcesImplementFlow, FlowCountsAreExact DEF ImplementsFlow

----------------------------------------------------------------------------
(* The invariant of the sources.                                           *)

SourceType ==
  /\ kind \in {"v4l2", "rtsp"} /\ stopping \in Nat
  /\ mapped \in BOOLEAN /\ refused \in BOOLEAN /\ halfway \in BOOLEAN
  /\ reader \in [Loop -> {"none", "reading", "dequeuing", "copying", "failed",
                          "entering", "receiving"}]

\* Only the camera has memory and a reader that fails.
Camera ==
  /\ mapped \/ refused => kind = "v4l2"
  /\ \A l \in Loop : reader[l] \in {"reading", "dequeuing", "copying", "failed"} => kind = "v4l2"

\* A consumer of an RTSP session is a receiver until it leaves, so that there is
\* one Stop, which finds its quit channel open.
OneStop ==
  /\ \A u \in User : user[u] # "idle" => u \in receivers
  /\ stops + stopping <= 1
  /\ stops + stopping > 0 => receivers = {}
  /\ stopping > 0 => quit \notin closedQuit

\* What orderly arrivals add: nothing is mapped when Start begins.
Orderly ==
  arrivals = "orderly" /\ health = "good" /\ ~refused =>
    /\ \A u \in User : user[u] = "starting" /\ ~halfway => ~mapped
    /\ kind = "rtsp" => OneStop

SourceInv ==
  /\ FlowInv /\ SourceType /\ Camera /\ MemoryWillBeUnmapped /\ Orderly /\ OrderlyStartsWork

LEMMA SourceInitially == Init => SourceInv
<1> SUFFICES ASSUME Init PROVE SourceInv
  OBVIOUS
<1>1. FlowInv
  BY FlowInitially DEF Init
<1>2. SourceType
  BY SourcesAssumption DEF Init, SourceType
<1>3. Camera /\ MemoryWillBeUnmapped /\ OrderlyStartsWork
  BY DEF Init, Camera, MemoryWillBeUnmapped, OrderlyStartsWork
<1>4. Orderly
  BY DEF Init, FlowInit, Orderly, OneStop
<1> QED
  BY <1>1, <1>2, <1>3, <1>4 DEF SourceInv

\* Arrivals: an orderly one finds the last Stop done, and so nothing mapped.
LEMMA ArriveKeeps == ASSUME SourceInv, FlowInv', NEW u \in User, Arrive(u) PROVE SourceInv'
<1> USE DEF SourceInv
<1>1. UNCHANGED sourceVars /\ AddReceiver(u)
  BY DEF Arrive
<1>2. /\ SourceType' /\ Camera' /\ OrderlyStartsWork'
  BY <1>1 DEF sourceVars, readerVars, deviceVars, SourceType, Camera, OrderlyStartsWork
<1>3. /\ user' = [user EXCEPT ![u] = IF receivers = {} THEN "starting" ELSE "reading"]
      /\ user \in [User -> {"idle", "starting", "reading", "busy", "leaving"}]
      /\ receivers' = receivers \cup {u} /\ stops' = stops /\ stops \in Nat
      /\ lock = "free"
  BY <1>1 DEF AddReceiver, FlowInv, FlowType
<1>4. MemoryWillBeUnmapped'
  BY <1>3
  DEF MemoryWillBeUnmapped
<1>5. \A v \in User : user[v] # "starting"
  BY <1>3, UserAssumption DEF FlowInv, Protocol
<1>6. ASSUME arrivals = "orderly", health = "good", ~refused
      PROVE  Orderly'
  <2>1. CASE receivers = {}
    <3>1. AllOver
      BY <1>6, <2>1 DEF Arrive
    <3>2. ~mapped /\ stops + stopping = 0
      BY <1>6, <3>1 DEF AllOver, MemoryWillBeUnmapped
    <3> QED
      BY <1>1, <1>3, <1>6, <3>1, <3>2
      DEF AllOver, Orderly, OneStop, sourceVars, deviceVars, rtspVars, SourceType
  <2>2. CASE receivers # {}
    BY <1>1, <1>3, <1>5, <1>6, <2>2
    DEF Orderly, OneStop, sourceVars, deviceVars, rtspVars, SourceType
  <2> QED
    BY <2>1, <2>2
<1>7. Orderly'
  BY <1>1, <1>6 DEF Orderly, sourceVars, deviceVars
<1> QED
  BY <1>2, <1>4, <1>7

\* A consumer that goes on, or leaves: the last one to leave calls for a Stop.
LEMMA ConsumeKeeps ==
  ASSUME SourceInv, FlowInv', NEW u \in User, Consume(u) \/ Depart(u)
  PROVE  SourceInv'
<1> USE DEF SourceInv
<1>1. UNCHANGED sourceVars
  BY DEF Consume, Depart
<1>2. SourceType' /\ Camera' /\ OrderlyStartsWork'
  BY <1>1 DEF sourceVars, readerVars, deviceVars, SourceType, Camera, OrderlyStartsWork
<1>3. CASE RemoveReceiver(u)
  <2>1. /\ user' = [user EXCEPT ![u] = "idle"] /\ user[u] = "leaving"
        /\ user \in [User -> {"idle", "starting", "reading", "busy", "leaving"}]
        /\ receivers' = receivers \ {u} /\ stops \in Nat
        /\ stops' = IF receivers' = {} THEN stops + 1 ELSE stops
    BY <1>3 DEF RemoveReceiver, LastRemoved, FlowInv, FlowType
  <2>2. receivers' # {} => \E v \in User : user'[v] # "idle"
    BY DEF FlowInv, FlowType, Protocol
  <2>3. MemoryWillBeUnmapped'
    BY <2>1, <2>2 DEF MemoryWillBeUnmapped
  <2>4. Orderly'
    BY <1>1, <2>1 DEF Orderly, OneStop, sourceVars, deviceVars, rtspVars, SourceType
  <2> QED
    BY <1>2, <2>3, <2>4
<1>4. CASE Receive(u) \/ ReleaseFrame(u) \/ Leave(u)
  <2>1. /\ user[u] # "idle" /\ user'[u] \notin {"idle", "starting"}
        /\ \A v \in User : v # u => user'[v] = user[v]
        /\ UNCHANGED <<receivers, stops>>
    BY <1>4 DEF Receive, ReleaseFrame, Leave, FlowInv, FlowType
  <2>2. MemoryWillBeUnmapped'
    BY <1>1, <2>1 DEF MemoryWillBeUnmapped, sourceVars, deviceVars
  <2>3. Orderly'
    BY <1>1, <2>1 DEF Orderly, OneStop, sourceVars, deviceVars, rtspVars
  <2> QED
    BY <1>2, <2>2, <2>3
<1> QED
  BY <1>3, <1>4 DEF Consume, Depart

\* Start: it maps the memory once, and while it runs there is no Stop to run into.
LEMMA StartingKeeps == ASSUME SourceInv, FlowInv', health = "good", NEW u \in User, Starting(u)
                       PROVE  SourceInv'
<1> USE DEF SourceInv
<1>1. /\ user[u] = "starting" /\ kind' = kind /\ arrivals' = arrivals /\ stopping' = stopping
      /\ stops' = stops /\ receivers' = receivers
      /\ user' = user \/ user' = [user EXCEPT ![u] = "reading"]
      /\ user \in [User -> {"idle", "starting", "reading", "busy", "leaving"}]
  BY DEF Starting, MapMemory, EnableStream, Setup, Play, Panics, Started, flowVars, FlowInv, FlowType
<1>2. \A v \in User : user[v] = "starting" => v = u
  BY <1>1 DEF FlowInv, Protocol
<1>3. MemoryWillBeUnmapped'
  BY <1>1 DEF MemoryWillBeUnmapped
<1>4. CASE MapMemory(u)
  <2>1. SourceType' /\ Camera'
    BY <1>4 DEF MapMemory, readerVars, SourceType, Camera
  <2>2. Orderly' /\ OrderlyStartsWork'
    BY <1>1, <1>4
    DEF MapMemory, Panics, flowVars, rtspVars, Orderly, OneStop, OrderlyStartsWork, SourceType
  <2> QED
    BY <1>3, <2>1, <2>2
<1>5. CASE EnableStream(u)
  <2>1. SourceType' /\ Camera'
    BY <1>5 DEF EnableStream, At, SourceType, Camera
  <2>2. Orderly' /\ OrderlyStartsWork'
    BY <1>1, <1>2, <1>5
    DEF EnableStream, Started, Panics, rtspVars, Orderly, OneStop, OrderlyStartsWork
  <2> QED
    BY <1>3, <2>1, <2>2
<1>6. CASE Setup(u)
  <2>1. SourceType' /\ Camera'
    BY <1>6 DEF Setup, At, deviceVars, rtspVars, SourceType, Camera
  <2>2. kind = "rtsp" /\ arrivals = "orderly" => OneStop /\ stopping = 0
    <3>1. stops \in Nat /\ stopping \in Nat
      BY DEF FlowInv, FlowType, SourceType
    <3>2. kind = "rtsp" /\ arrivals = "orderly" => OneStop
      BY DEF Orderly, Camera
    <3>3. OneStop => receivers # {} /\ stopping = 0
      BY <1>1, <3>1 DEF OneStop
    <3> QED
      BY <3>2, <3>3
  <2>3. Orderly' /\ OrderlyStartsWork'
    BY <1>1, <1>2, <1>6, <2>2
    DEF Setup, Panics, flowVars, deviceVars, Camera, Orderly, OneStop, OrderlyStartsWork
  <2> QED
    BY <1>3, <2>1, <2>3
<1>7. CASE Play(u)
  <2>1. SourceType' /\ Camera'
    BY <1>7 DEF Play, readerVars, deviceVars, SourceType, Camera
  <2>2. Orderly' /\ OrderlyStartsWork'
    BY <1>1, <1>2, <1>7
    DEF Play, Started, Panics, flowVars, deviceVars, rtspVars, Camera, Orderly, OneStop,
        OrderlyStartsWork
  <2> QED
    BY <1>3, <2>1, <2>2
<1> QED
  BY <1>4, <1>5, <1>6, <1>7 DEF Starting

\* Stop: the camera's memory goes, and no second Stop comes between the look at quit
\* and its close.
LEMMA StoppingKeeps == ASSUME SourceInv, FlowInv', health = "good", Stopping PROVE SourceInv'
<1> USE DEF SourceInv
<1>1. CASE DisableStream
  <2>1. /\ stops > 0 /\ stops' = stops - 1 /\ stops \in Nat /\ kind = "v4l2"
        /\ UNCHANGED <<receivers, user, kind, arrivals, reader, health, mapped, halfway>>
        /\ \/ stopping' = stopping + 1 /\ UNCHANGED refused
           \/ refused' = TRUE /\ UNCHANGED stopping
    BY <1>1 DEF DisableStream, StopRuns, readerVars, FlowInv, FlowType
  <2>2. stopping' \in Nat
    BY <2>1 DEF SourceType
  <2>3. SourceType'
    BY <2>1, <2>2, Zenon DEF SourceType
  <2>4. Camera' /\ Orderly' /\ OrderlyStartsWork'
    BY <2>1 DEF Camera, Orderly, OrderlyStartsWork
  <2>5. MemoryWillBeUnmapped'
    BY <2>1 DEF MemoryWillBeUnmapped, SourceType
  <2> QED
    BY <2>3, <2>4, <2>5
<1>2. CASE UnmapMemory
  <2>1. /\ stopping > 0 /\ stopping' = stopping - 1 /\ kind = "v4l2"
        /\ UNCHANGED <<kind, arrivals, reader, health, halfway>>
        /\ \/ mapped' = FALSE /\ UNCHANGED refused
           \/ refused' = TRUE /\ UNCHANGED mapped
    BY <1>2 DEF UnmapMemory, Unmap, readerVars
  <2>2. stopping' \in Nat
    BY <2>1 DEF SourceType
  <2>3. SourceType'
    BY <2>1, <2>2, Zenon DEF SourceType
  <2>4. Camera' /\ OrderlyStartsWork'
    BY <2>1 DEF Camera, OrderlyStartsWork
  <2>5. MemoryWillBeUnmapped'
    BY <2>1 DEF MemoryWillBeUnmapped
  <2>6. Orderly'
    BY <2>1 DEF Orderly
  <2> QED
    BY <2>3, <2>4, <2>5, <2>6
<1>3. CASE LookAtQuit
  <2>1. /\ stops > 0 /\ stops' = stops - 1 /\ stops \in Nat /\ kind = "rtsp" /\ ~mapped
        /\ stopping' = IF quit = None \/ quit \in closedQuit THEN stopping ELSE stopping + 1
        /\ UNCHANGED <<receivers, user, kind, arrivals, reader, health, mapped, refused, halfway,
                       quit, closedQuit>>
    BY <1>3 DEF LookAtQuit, StopRuns, readerVars, deviceVars, rtspVars, Camera, FlowInv, FlowType
  <2>2. SourceType' /\ Camera' /\ MemoryWillBeUnmapped' /\ OrderlyStartsWork'
    BY <2>1 DEF SourceType, Camera, MemoryWillBeUnmapped, OrderlyStartsWork
  <2>3. Orderly'
    BY <2>1 DEF SourceType, Orderly, OneStop
  <2> QED
    BY <2>2, <2>3
<1>4. CASE CloseQuit
  <2>1. /\ stopping > 0 /\ stopping' = stopping - 1 /\ kind = "rtsp" /\ ~mapped /\ stops \in Nat
        /\ UNCHANGED <<kind, arrivals, reader, mapped, refused, halfway, quit, flowVars>>
        /\ quit \in closedQuit \/ health' = health
    BY <1>4 DEF CloseQuit, Panics, readerVars, deviceVars, Camera, FlowInv, FlowType
  <2>2. arrivals = "orderly" => OneStop /\ health' = "good"
    BY <2>1 DEF Camera, Orderly, OneStop
  <2>3. SourceType' /\ Camera' /\ MemoryWillBeUnmapped'
    BY <2>1 DEF SourceType, Camera, MemoryWillBeUnmapped
  <2>4. OrderlyStartsWork'
    BY <2>1, <2>2 DEF OrderlyStartsWork
  <2>5. OneStop => OneStop'
    <3>1. OneStop => stopping' = 0
      BY <2>1 DEF SourceType, OneStop
    <3> QED
      BY <2>1, <3>1 DEF SourceType, OneStop, flowVars
  <2>6. Orderly'
    BY <2>1, <2>2, <2>5 DEF Orderly
  <2> QED
    BY <2>3, <2>4, <2>6
<1> QED
  BY <1>1, <1>2, <1>3, <1>4 DEF Stopping

\* The goroutine that reads: the only Shutdown is the camera's, whose consumers stay
\* until they leave.
LEMMA ReaderKeeps ==
  ASSUME SourceInv, FlowInv',
         PutStep \/ \E l \in Loop : Reading(l) \/ Ending(l) \/ ReceiveUnit(l) \/ PutUnit(l)
  PROVE  SourceInv'
<1> USE DEF SourceInv
<1>1. /\ UNCHANGED <<kind, arrivals, mapped, refused, halfway, stopping, quit, closedQuit, user,
                   stops>>
      /\ UNCHANGED receivers \/ kind = "v4l2"
      /\ UNCHANGED health \/ health' \in {"not started", "no writer"}
  BY DEF Reading, ReadFrame, Dequeue, CopyFrame, EnterReceive, Ending, ReadEnds, ReceiveEnds,
         ReceiveUnit, PutUnit, PutStep, PutBegin, PutTo, PutEnd, Panics, TellReceivers, Shutdown,
         flowVars, sourceVars, readerVars, deviceVars, rtspVars, Camera
<1>2. /\ reader' \in [Loop -> {"none", "reading", "dequeuing", "copying", "failed",
                               "entering", "receiving"}]
      /\ \A k \in Loop : reader'[k] \in {"reading", "dequeuing", "copying", "failed"} =>
                           kind = "v4l2"
  BY DEF Reading, ReadFrame, Dequeue, CopyFrame, EnterReceive, Ending, ReadEnds, ReceiveEnds,
         ReceiveUnit, PutUnit, PutStep, At, sourceVars, readerVars, SourceType, Camera
<1>3. SourceType' /\ Camera' /\ MemoryWillBeUnmapped' /\ OrderlyStartsWork'
  BY <1>1, <1>2 DEF SourceType, Camera, MemoryWillBeUnmapped, OrderlyStartsWork
<1>4. Orderly'
  BY <1>1 DEF Orderly, OneStop
<1> QED
  BY <1>3, <1>4

\* SourceInv is inductive.
LEMMA SourceKeeps == SourceInv /\ [Next]_vars => SourceInv'
<1> SUFFICES ASSUME SourceInv, [Next]_vars PROVE SourceInv'
  OBVIOUS
<1>1. FlowInv'
  BY SourceStepsAreFlowSteps, FlowKeeps DEF SourceInv
<1>2. CASE UNCHANGED vars
  BY <1>1, <1>2
  DEF vars, flowVars, sourceVars, readerVars, deviceVars, rtspVars, SourceInv, SourceType, Camera,
      MemoryWillBeUnmapped, Orderly, OneStop, OrderlyStartsWork
<1>3. CASE Next
  BY <1>1, <1>3, ArriveKeeps, ConsumeKeeps, StartingKeeps, StoppingKeeps, ReaderKeeps DEF Next
<1> QED
  BY <1>2, <1>3

LEMMA SourceInvariant == Spec => []SourceInv
BY SourceInitially, SourceKeeps, PTL DEF Spec

----------------------------------------------------------------------------
(* What holds of the live sources, for every value of the constants.       *)

\* The camera's memory is mapped only while a Stop is sure to be called or to run,
\* although Shutdown takes the receivers away from consumers that have yet to leave.
THEOREM MemoryIsNotForgotten == Spec => []MemoryWillBeUnmapped
<1>1. SourceInv => MemoryWillBeUnmapped
  BY DEF SourceInv
<1> QED
  BY <1>1, SourceInvariant, PTL

\* With orderly arrivals mapMemory never panics, and stop never closes quit twice.
THEOREM OrderlyArrivalsWork == Spec => []OrderlyStartsWork
<1>1. SourceInv => OrderlyStartsWork
  BY DEF SourceInv
<1> QED
  BY <1>1, SourceInvariant, PTL
============================================================================
