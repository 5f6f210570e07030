------------------------------ MODULE Sources ------------------------------
(***************************************************************************)
(* The live sources: a Flow whose Start and Stop open and close a V4L2     *)
(* camera (internal/v4l2) or a session with an RTSP server                 *)
(* (internal/media/rtsp).  Each Start makes a goroutine that reads buffers *)
(* and puts them; Stop runs in a goroutine of its own, without the mutex   *)
(* of the Flow, at any later time.                                         *)
(*                                                                         *)
(* The driver is external: it is mapped and streaming or not.  A panic     *)
(* ends the program, and health says why.                                  *)
(***************************************************************************)
EXTENDS Flow

CONSTANTS
  Kinds,      \* the sources: "v4l2", "rtsp"
  Arrivals,   \* how consumers may arrive: "orderly", "any"
  Loop,       \* bound: goroutines of Start that can exist at once
  MaxStops,   \* bound: Stops that wait to run when a consumer arrives
  MaxNalus    \* bound: units in a frame

ASSUME SourcesAssumption ==
  /\ Kinds \subseteq {"v4l2", "rtsp"} /\ Arrivals \subseteq {"orderly", "any"}
  /\ MaxStops \in Nat /\ MaxNalus \in Nat

VARIABLES
  kind, arrivals,
  reader,     \* where each goroutine of Start is
  todo,       \* todo[l]: units of its frame that it has yet to put
  putter,     \* the goroutine inside Put, or None
  health,     \* "good", or why the program has panicked
  mapped,     \* device.mmap is not nil
  streaming,  \* between VIDIOC_STREAMON and VIDIOC_STREAMOFF
  refused,    \* history: the driver has refused VIDIOC_STREAMOFF or to unmap
  halfway,    \* Start has mapped the memory, or set up the session
  stopping,   \* Stops between their two steps
  quit,       \* the channel in videoSource.quit: the goroutine made with it, or None
  waitsFor,   \* waitsFor[l]: the channel that ReceiveVideo was given
  closedQuit  \* quit channels that are closed

deviceVars == <<mapped, streaming, refused>>
rtspVars == <<quit, waitsFor, closedQuit>>
readerVars == <<reader, todo, putter>>
sourceVars == <<kind, arrivals, readerVars, health, deviceVars, halfway, stopping, rtspVars>>
vars == <<flowVars, sourceVars>>

Init ==
  /\ FlowInit
  /\ kind \in Kinds /\ arrivals \in Arrivals
  /\ reader = [l \in Loop |-> "none"] /\ todo = [l \in Loop |-> 0] /\ putter = None
  /\ health = "good" /\ mapped = FALSE /\ streaming = FALSE /\ refused = FALSE
  /\ halfway = FALSE /\ stopping = 0
  /\ quit = None /\ waitsFor = [l \in Loop |-> None] /\ closedQuit = {}

\* Nothing is left of the last Start.
AllOver ==
  /\ stops = 0 /\ stopping = 0
  /\ \A l \in Loop : reader[l] = "none"
  /\ \A u \in User : user[u] = "idle"

\* A number for a new goroutine and its quit channel.
Free(l) == reader[l] = "none" /\ quit # l /\ \A k \in Loop : waitsFor[k] # l

At(l, where) == reader' = [reader EXCEPT ![l] = where]

Panics(why) == health' = why /\ UNCHANGED flowVars

----------------------------------------------------------------------------
(* Consumers.                                                              *)

Arrive(u) ==
  /\ arrivals = "orderly" /\ receivers = {} => AllOver
  /\ stops + stopping <= MaxStops /\ \E l \in Loop : Free(l)
  /\ AddReceiver(u) /\ UNCHANGED sourceVars

Consume(u) ==
  /\ Receive(u) \/ ReleaseFrame(u) \/ RemoveReceiver(u)
  /\ UNCHANGED sourceVars

Depart(u) == Leave(u) /\ UNCHANGED sourceVars

\* The channel was closed by Shutdown.
DepartClosed(u) == u \in closed /\ Depart(u)

----------------------------------------------------------------------------
(* The camera.                                                             *)

\* device.Start: mapMemory panics if there is memory already, and Flow.Start on
\* any error.
MapMemory(u) ==
  /\ kind = "v4l2" /\ user[u] = "starting" /\ ~halfway
  /\ \/ mapped /\ Panics("mapped") /\ UNCHANGED <<mapped, halfway>>
     \/ ~mapped /\ Panics("start") /\ UNCHANGED <<mapped, halfway>>
     \/ ~mapped /\ mapped' = TRUE /\ halfway' = TRUE /\ UNCHANGED <<flowVars, health>>
  /\ UNCHANGED <<kind, arrivals, readerVars, streaming, refused, stopping, rtspVars>>

\* enqueue and enableStream, which fail without buffers.
EnableStream(u) ==
  /\ kind = "v4l2" /\ user[u] = "starting" /\ halfway
  /\ IF mapped THEN /\ Started(u) /\ streaming' = TRUE /\ UNCHANGED health
                    /\ \E l \in Loop : Free(l) /\ At(l, "reading")
               ELSE Panics("start") /\ UNCHANGED <<reader, streaming>>
  /\ halfway' = FALSE
  /\ UNCHANGED <<kind, arrivals, todo, putter, mapped, refused, stopping, rtspVars>>

\* ReadFrame: the state is looked at, the driver is waited for, and the frame is
\* copied from the memory, which may be gone by then.
ReadFrame(l) ==
  /\ kind = "v4l2" /\ reader[l] = "reading" /\ todo[l] = 0 /\ putter # l
  /\ IF mapped THEN At(l, "dequeuing") /\ UNCHANGED <<flowVars, health>>
               ELSE Panics("not started") /\ UNCHANGED reader
  /\ UNCHANGED <<kind, arrivals, todo, putter, deviceVars, halfway, stopping, rtspVars>>

\* An error, EINVAL when the stream is off, or a frame.
Dequeue(l) ==
  /\ reader[l] = "dequeuing"
  /\ At(l, "failed") \/ (streaming /\ At(l, "copying"))
  /\ UNCHANGED <<flowVars, kind, arrivals, todo, putter, health, deviceVars, halfway, stopping,
                 rtspVars>>

\* The buffer goes back to the driver.
CopyFrame(l) ==
  /\ reader[l] = "copying"
  /\ IF mapped THEN /\ \/ At(l, "failed") /\ UNCHANGED todo
                       \/ At(l, "reading") /\ \E n \in 0 .. MaxNalus : todo' = [todo EXCEPT ![l] = n]
                    /\ UNCHANGED <<flowVars, health>>
               ELSE Panics("not started") /\ UNCHANGED <<reader, todo>>
  /\ UNCHANGED <<kind, arrivals, putter, deviceVars, halfway, stopping, rtspVars>>

ForgetReceivers ==                                 \* mutant: the channels stay open
  /\ lock = "free" /\ receivers' = {}
  /\ UNCHANGED <<lock, ch, closed, user, held, count, putting, left, stops>>
TellReceivers == Shutdown

\* Whoever is a receiver by now is told.
ReadEnds(l) ==
  /\ reader[l] = "failed" /\ TellReceivers
  /\ At(l, "none")
  /\ UNCHANGED <<kind, arrivals, todo, putter, health, deviceVars, halfway, stopping, rtspVars>>

\* device.Stop, in two steps.  It gives up, and nobody hears of it, when the
\* driver refuses one of them.
DisableStream ==
  /\ kind = "v4l2" /\ StopRuns
  /\ \/ streaming' = FALSE /\ stopping' = stopping + 1 /\ UNCHANGED refused
     \/ refused' = TRUE /\ UNCHANGED <<streaming, stopping>>
  /\ UNCHANGED <<kind, arrivals, readerVars, health, mapped, halfway, rtspVars>>

UnmapNothing == UNCHANGED <<mapped, refused>>      \* mutant: the memory stays mapped
Unmap ==
  \/ mapped' = FALSE /\ UNCHANGED refused
  \/ mapped /\ refused' = TRUE /\ UNCHANGED mapped

UnmapMemory ==
  /\ kind = "v4l2" /\ stopping > 0
  /\ Unmap /\ stopping' = stopping - 1
  /\ UNCHANGED <<flowVars, kind, arrivals, readerVars, health, streaming, halfway, rtspVars>>

----------------------------------------------------------------------------
(* The RTSP server.                                                        *)

\* The session is set up and a goroutine is made with the new quit channel.
Setup(u) ==
  /\ kind = "rtsp" /\ user[u] = "starting" /\ ~halfway
  /\ \/ Panics("start") /\ UNCHANGED <<reader, halfway, rtspVars>>
     \/ \E l \in Loop :
          /\ Free(l) /\ At(l, "entering") /\ quit' = l /\ closedQuit' = closedQuit \ {l}
          /\ halfway' = TRUE /\ UNCHANGED <<flowVars, health, waitsFor>>
  /\ UNCHANGED <<kind, arrivals, todo, putter, deviceVars, stopping>>

Play(u) ==
  /\ kind = "rtsp" /\ user[u] = "starting" /\ halfway
  /\ (Started(u) /\ UNCHANGED health) \/ Panics("start")
  /\ halfway' = FALSE
  /\ UNCHANGED <<kind, arrivals, readerVars, deviceVars, stopping, rtspVars>>

\* The field is read when the goroutine comes to call ReceiveVideo.
EnterReceive(l) ==
  /\ reader[l] = "entering"
  /\ At(l, "receiving") /\ waitsFor' = [waitsFor EXCEPT ![l] = quit]
  /\ UNCHANGED <<flowVars, kind, arrivals, todo, putter, health, deviceVars, halfway, stopping, quit,
                 closedQuit>>

\* A unit was put together.
ReceiveUnit(l) ==
  /\ reader[l] = "receiving" /\ todo[l] = 0 /\ putter # l
  /\ todo' = [todo EXCEPT ![l] = 1]
  /\ UNCHANGED <<flowVars, kind, arrivals, reader, putter, health, deviceVars, halfway, stopping,
                 rtspVars>>

\* quit is closed.  The deferred work of the goroutine begins with Stream.Close,
\* which dereferences the writer that a stream with direction recvonly does not
\* have: neither Teardown nor Shutdown is reached.
ReceiveEnds(l) ==
  /\ reader[l] = "receiving" /\ todo[l] = 0 /\ putter # l /\ waitsFor[l] \in closedQuit
  /\ Panics("no writer")
  /\ UNCHANGED <<kind, arrivals, readerVars, deviceVars, halfway, stopping, rtspVars>>

\* stop looks whether quit is closed, and closes it.
LookAtQuit ==
  /\ kind = "rtsp" /\ StopRuns
  /\ stopping' = IF quit = None \/ quit \in closedQuit THEN stopping ELSE stopping + 1
  /\ UNCHANGED <<kind, arrivals, readerVars, health, deviceVars, halfway, rtspVars>>

QuitNotClosed == closedQuit                        \* mutant: the goroutine goes on
QuitClosed == closedQuit \cup {quit}

CloseQuit ==
  /\ kind = "rtsp" /\ stopping > 0
  /\ stopping' = stopping - 1
  /\ IF quit \in closedQuit THEN Panics("quit closed twice") /\ UNCHANGED closedQuit
     ELSE closedQuit' = QuitClosed /\ UNCHANGED <<flowVars, health>>
  /\ UNCHANGED <<kind, arrivals, readerVars, deviceVars, halfway, quit, waitsFor>>

----------------------------------------------------------------------------
(* Put.                                                                    *)

PutUnit(l) ==
  /\ reader[l] \in {"reading", "receiving"} /\ todo[l] > 0 /\ putter # l
  /\ \E f \in Frame : PutBegin(f)
  /\ putter' = l /\ todo' = [todo EXCEPT ![l] = @ - 1]
  /\ UNCHANGED <<kind, arrivals, reader, health, deviceVars, halfway, stopping, rtspVars>>

PutStep ==
  \/ (\E u \in User : PutTo(u)) /\ UNCHANGED sourceVars
  \/ /\ PutEnd /\ putter' = None
     /\ UNCHANGED <<kind, arrivals, reader, todo, health, deviceVars, halfway, stopping, rtspVars>>

----------------------------------------------------------------------------
Starting(u) == MapMemory(u) \/ EnableStream(u) \/ Setup(u) \/ Play(u)

Stopping == DisableStream \/ UnmapMemory \/ LookAtQuit \/ CloseQuit

Reading(l) == ReadFrame(l) \/ Dequeue(l) \/ CopyFrame(l) \/ EnterReceive(l)

Ending(l) == ReadEnds(l) \/ ReceiveEnds(l)

Next ==
  /\ health = "good"
  /\ \/ \E u \in User : Arrive(u) \/ Consume(u) \/ Depart(u) \/ Starting(u)
     \/ Stopping \/ PutStep
     \/ \E l \in Loop : Reading(l) \/ Ending(l) \/ ReceiveUnit(l) \/ PutUnit(l)

Spec == Init /\ [][Next]_vars

\* Goroutines run, Go's mutexes starve nobody and its select no channel; the driver
\* and the server answer Start and Stop, and the driver answers a reader when the
\* stream is off.  Nobody has to come or to go, and no frame has to come.
Fairness ==
  /\ \A u \in User : SF_vars(health = "good" /\ (Consume(u) \/ DepartClosed(u) \/ Starting(u)))
  /\ WF_vars(health = "good" /\ Stopping) /\ WF_vars(health = "good" /\ PutStep)
  /\ \A l \in Loop :
       /\ SF_vars(health = "good" /\ (PutUnit(l) \/ (Reading(l) /\ (streaming => reader[l] # "dequeuing"))))
       /\ SF_vars(health = "good" /\ Ending(l))

FairSpec == Spec /\ Fairness

----------------------------------------------------------------------------
(* Properties.                                                             *)

\* Both sources use the Flow as it may be used: their steps are steps of a Flow
\* with some source, so what holds of every Flow (exact counts, silent closed
\* channels) holds of the camera and of the RTSP session, up to a panic.
ImplementsFlow == FlowSpec

\* The memory of the camera is mapped only while somebody will have it unmapped: a
\* consumer that has yet to leave, or a Stop that has yet to run, although Stop
\* runs late and Shutdown takes the receivers away from the consumers.  (Stop is
\* called once: what the driver refuses then stays mapped.)
MemoryWillBeUnmapped ==
  mapped /\ ~refused => stops > 0 \/ stopping > 0 \/ \E u \in User : user[u] # "idle"

\* When the first consumer comes only after the others have left, the last Stop has
\* run and the reader has ended, Start never finds memory that is still mapped,
\* and Stop never closes quit twice.  (The panics that remain are in the README:
\* ReadFrame after Stop, and the end of the RTSP goroutine.)
OrderlyStartsWork ==
  arrivals = "orderly" /\ ~refused => health \notin {"mapped", "quit closed twice"}

\* source.go: "If the Source encounters an error, all receiver channels will be
\* closed."  When ReadFrame fails the receivers are told, unless they leave before
\* or the program panics.
ErrorReachesReceivers ==
  \A u \in User : (\E l \in Loop : reader[l] = "failed") /\ u \in receivers
                    ~> u \in closed \/ health # "good"

\* When the last consumer has left, every goroutine that reads for nobody ends,
\* unless another consumer comes, the driver refuses to stop or the program panics.
AbandonedReaderEnds ==
  receivers = {} ~> \/ \A l \in Loop : reader[l] = "none"
                    \/ receivers # {} \/ refused \/ health # "good"
============================================================================
