----------------------------- MODULE MediaLoop -----------------------------
(***************************************************************************)
(* An MP4 source: a Flow whose Start and Stop are those of a singletonLoop *)
(* around mp4File.readLoop.  The goroutines are the consumers, the read    *)
(* loop, and one for each Stop that RemoveReceiver starts.                 *)
(*                                                                         *)
(* A goroutine of the loop owns the quit and terminated channels made with *)
(* it, so its number also names the channels.                              *)
(***************************************************************************)
EXTENDS Flow

CONSTANTS
  Loop,       \* bound: goroutines of the loop that can exist at once
  Arrivals,   \* how consumers may arrive
  MaxStops    \* bound: Stops that wait to run when a consumer arrives

ASSUME LoopAssumption == None \notin Loop
ASSUME MaxStopsAssumption == MaxStops \in Nat
ASSUME ArrivalsAssumption == Arrivals \subseteq {"orderly", "any"}

VARIABLES
  arrivals,    \* "orderly": nobody calls AddReceiver while a Stop is under way
  votes,       \* singletonLoop.votes
  current,     \* the goroutine of loop.quit and loop.terminated, None for nil
  quit,        \* closed quit channels
  terminated,  \* closed terminated channels
  stopping,    \* "yes" while stop waits for terminated, with loop's mutex held
  todo,        \* todo[l]: buffers that readLoop has yet to put
  running,     \* goroutines that have not ended
  putter,      \* the goroutine inside Put, or None
  health       \* "panic" once the program has panicked

loopVars == <<arrivals, votes, current, quit, terminated, stopping, todo, running,
              putter, health>>
vars == <<flowVars, loopVars>>

Init ==
  /\ FlowInit
  /\ arrivals \in Arrivals
  /\ votes = 0 /\ current = None /\ quit = {} /\ terminated = {}
  /\ stopping = "no" /\ running = {} /\ putter = None /\ health = "good"
  /\ todo = [l \in Loop |-> 0]

----------------------------------------------------------------------------
(* Consumers.                                                              *)

Arrive(u) ==
  /\ arrivals = "orderly" => stops = 0 /\ stopping = "no"
  /\ stops <= MaxStops
  /\ AddReceiver(u) /\ UNCHANGED loopVars

Consume(u) ==
  /\ Receive(u) \/ ReleaseFrame(u) \/ RemoveReceiver(u)
  /\ UNCHANGED loopVars

Depart(u) == Leave(u) /\ UNCHANGED loopVars

----------------------------------------------------------------------------
(* singletonLoop.                                                          *)

Panic == health' = "panic" /\ UNCHANGED <<votes, current, quit, terminated, running>>

\* start, called by AddReceiver.  It waits for the loop's mutex.
LoopStart(u) ==
  /\ Started(u) /\ stopping = "no"
  /\ IF (votes = 0) # (current = None) THEN Panic
     ELSE /\ votes' = votes + 1
          /\ IF votes > 0 THEN UNCHANGED <<current, quit, terminated, running>>
             ELSE \E l \in Loop \ running :
                    /\ current' = l /\ running' = running \cup {l}
                    /\ quit' = quit \ {l} /\ terminated' = terminated \ {l}
          /\ UNCHANGED health
  /\ UNCHANGED <<arrivals, stopping, todo, putter>>

\* <-loop.terminated
WaitOver == current \in terminated

\* stop up to the wait for the goroutine.
LoopStop ==
  /\ StopRuns /\ stopping = "no"
  /\ IF current = None \/ votes = 0 THEN Panic /\ UNCHANGED stopping
     ELSE /\ votes' = votes - 1
          /\ IF votes = 1 THEN quit' = quit \cup {current} /\ stopping' = "yes"
                          ELSE UNCHANGED <<quit, stopping>>
          /\ UNCHANGED <<current, terminated, running, health>>
  /\ UNCHANGED <<arrivals, todo, putter>>

LoopStopped ==
  /\ stopping = "yes" /\ WaitOver
  /\ current' = None /\ stopping' = "no"
  /\ UNCHANGED <<flowVars, arrivals, votes, quit, terminated, todo, running, putter,
                 health>>

----------------------------------------------------------------------------
(* mp4File.readLoop.                                                       *)

\* Between packets the loop looks at quit, then reads: a key frame becomes three
\* buffers, any other packet of the video stream one.
LoopRead(l) ==
  /\ l \in running /\ todo[l] = 0 /\ putter # l /\ l \notin quit
  /\ \E n \in {1, 3} : todo' = [todo EXCEPT ![l] = n]
  /\ UNCHANGED <<flowVars, arrivals, votes, current, quit, terminated, stopping,
                 running, putter, health>>

\* quit is closed, or ReadPacket fails.  The goroutine then closes the channel
\* that loop.terminated is by now.
LoopEnd(l) ==
  /\ l \in running /\ todo[l] = 0 /\ putter # l
  /\ running' = running \ {l}
  /\ IF current = None
     THEN health' = "panic" /\ UNCHANGED terminated
     ELSE terminated' = terminated \cup {current} /\ UNCHANGED health
  /\ UNCHANGED <<flowVars, arrivals, votes, current, quit, stopping, todo, putter>>

\* Put waits for the flow's mutex.
LoopPut(l) ==
  /\ l \in running /\ todo[l] > 0 /\ putter # l
  /\ \E f \in Frame : PutBegin(f)
  /\ putter' = l /\ todo' = [todo EXCEPT ![l] = @ - 1]
  /\ UNCHANGED <<arrivals, votes, current, quit, terminated, stopping, running, health>>

LoopPutStep ==
  \/ (\E u \in User : PutTo(u)) /\ UNCHANGED loopVars
  \/ /\ PutEnd /\ putter' = None
     /\ UNCHANGED <<arrivals, votes, current, quit, terminated, stopping, todo,
                    running, health>>

----------------------------------------------------------------------------
Next ==
  /\ health = "good"
  /\ \/ \E u \in User : Arrive(u) \/ Consume(u) \/ Depart(u) \/ LoopStart(u)
     \/ LoopStop \/ LoopStopped
     \/ \E l \in Loop : LoopRead(l) \/ LoopEnd(l) \/ LoopPut(l)
     \/ LoopPutStep

Spec == Init /\ [][Next]_vars

\* Goroutines run and Go's mutexes starve nobody.  Nobody has to come or to go,
\* and the file need not fail.
Fairness ==
  /\ \A u \in User : SF_vars(Consume(u)) /\ SF_vars(LoopStart(u))
  /\ SF_vars(LoopStop) /\ WF_vars(LoopStopped)
  /\ WF_vars(LoopPutStep)
  /\ \A l \in Loop : SF_vars(LoopPut(l)) /\ WF_vars(l \in quit /\ LoopEnd(l))

FairSpec == Spec /\ Fairness

----------------------------------------------------------------------------
(* Properties.                                                             *)

TypeOK ==
  /\ FlowType
  /\ arrivals \in Arrivals /\ votes \in Nat
  /\ current \in Loop \cup {None} /\ putter \in Loop \cup {None}
  /\ quit \in SUBSET Loop /\ terminated \in SUBSET Loop /\ running \in SUBSET Loop
  /\ stopping \in {"yes", "no"} /\ health \in {"good", "panic"}
  /\ todo \in [Loop -> 0 .. 3]

\* The votes for the loop are those of the receivers, if there are any and Start
\* has been called, and of the Stops that have not run: so the loop is stopped
\* exactly when it should be, although Stop runs at any later time.
VotesMatch ==
  votes = stops + (IF receivers # {} /\ \A u \in User : user[u] # "starting"
                   THEN 1 ELSE 0)

\* No call of start or stop finds the loop in a state it does not expect, and
\* no channel is closed that is nil.
NeverPanics == health = "good"

\* The file's demuxer has no lock: "should only run in a single goroutine at any
\* given time".
SingleLoop == Cardinality(running) <= 1

\* When the last receiver is gone the read loop ends, unless a new one comes.
AbandonedLoopEnds ==
  arrivals = "orderly" /\ receivers = {} /\ running # {}
    ~> running = {} \/ receivers # {}

\* loop.go: a loopFunc "should terminate promptly when the quit channel is
\* closed".
QuitEndsLoop == \A l \in Loop : l \in quit ~> l \notin running
============================================================================
