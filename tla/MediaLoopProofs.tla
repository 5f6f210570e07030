-------------------------- MODULE MediaLoopProofs --------------------------
(***************************************************************************)
(* Proofs about MediaLoop, for any consumers, buffers, channel capacity    *)
(* and bounds.  The invariant of the Flow (FlowProofs) holds because the   *)
(* loop's steps are the Flow's; LoopInv adds the singletonLoop.            *)
(***************************************************************************)
EXTENDS MediaLoop, FlowProofs

(* The singletonLoop.                                                      *)

\* Without Shutdown, a consumer that has called AddReceiver is a receiver.
Registered == \A u \in User : user[u] # "idle" => u \in receivers

\* The loop's mutex protects votes, current and its channels; only the current
\* goroutine can be running, and only it puts.
Singleton ==
  /\ stopping = "no" => (votes = 0 <=> current = None)
  /\ stopping = "yes" => votes = 0 /\ current # None
  /\ running \subseteq {current} \ {None}
  /\ current # None => (current \in terminated <=> current \notin running)
  /\ putter # None => putter \in running
  /\ lock = "source" <=> putter # None

LoopInv == FlowInv /\ TypeOK /\ Registered /\ Singleton /\ VotesMatch /\ NeverPanics

LEMMA LoopInitially == Init => LoopInv
<1> SUFFICES ASSUME Init PROVE LoopInv
  OBVIOUS
<1>1. FlowInv
  BY FlowInitially DEF Init
<1>2. TypeOK /\ Registered /\ Singleton /\ NeverPanics
  BY <1>1, ArrivalsAssumption
  DEF Init, FlowInit, FlowInv, TypeOK, Registered, Singleton, NeverPanics
<1>3. VotesMatch
  BY DEF Init, FlowInit, VotesMatch
<1> QED
  BY <1>1, <1>2, <1>3 DEF LoopInv

\* Every step of the composition is a step of the Flow, or leaves it alone.
LEMMA LoopStepsAreFlowSteps == [Next]_vars => [FlowNext]_flowVars
<1> SUFFICES ASSUME [Next]_vars PROVE [FlowNext]_flowVars
  OBVIOUS
<1>1. CASE UNCHANGED vars
  BY <1>1 DEF vars
<1>2. ASSUME NEW u \in User, Arrive(u) \/ Consume(u) \/ Depart(u) \/ LoopStart(u)
      PROVE  FlowNext
  BY <1>2 DEF Arrive, Consume, Depart, LoopStart, FlowNext
<1>3. CASE LoopStop \/ LoopStopped
  BY <1>3 DEF LoopStop, LoopStopped, FlowNext
<1>4. ASSUME NEW l \in Loop, LoopRead(l) \/ LoopEnd(l) \/ LoopPut(l)
      PROVE  [FlowNext]_flowVars
  BY <1>4 DEF LoopRead, LoopEnd, LoopPut, FlowNext
<1>5. CASE LoopPutStep
  BY <1>5 DEF LoopPutStep, FlowNext
<1> QED
  BY <1>1, <1>2, <1>3, <1>4, <1>5 DEF Next

\* The rest of the invariant when a consumer takes a step.
LEMMA ConsumerKeepsLoop ==
  ASSUME LoopInv, FlowInv', NEW u \in User, Arrive(u) \/ Consume(u) \/ Depart(u)
  PROVE  LoopInv'
<1> USE DEF LoopInv
<1>1. FlowType' /\ UNCHANGED loopVars
  BY DEF FlowInv, Arrive, Consume, Depart
<1>2. TypeOK' /\ NeverPanics'
  BY <1>1 DEF loopVars, TypeOK, NeverPanics
<1>3. \A v \in User : (lock = v <=> user[v] = "starting") /\ v # "free" /\ v # "source"
  BY UserAssumption DEF FlowInv, Protocol
<1>4. CASE Arrive(u)
  <2>1. AddReceiver(u)
    BY <1>4 DEF Arrive
  <2>2. Registered' /\ Singleton'
    BY <1>1, <1>3, <2>1 DEF AddReceiver, Registered, Singleton, loopVars, TypeOK, FlowType
  <2>3. VotesMatch'
    BY <1>1, <1>3, <2>1 DEF AddReceiver, VotesMatch, loopVars, TypeOK, FlowType
  <2> QED
    BY <1>2, <2>2, <2>3
<1>5. CASE Receive(u) \/ ReleaseFrame(u) \/ Leave(u)
  <2>1. /\ receivers' = receivers /\ stops' = stops /\ lock' = lock
        /\ user[u] \notin {"idle", "starting"} /\ user'[u] \notin {"idle", "starting"}
        /\ \A v \in User \ {u} : user'[v] = user[v]
    BY <1>5 DEF Receive, ReleaseFrame, Leave, TypeOK, FlowType
  <2>2. Registered' /\ Singleton'
    BY <1>1, <2>1 DEF Registered, Singleton, loopVars
  <2>3. VotesMatch'
    BY <1>1, <2>1 DEF VotesMatch, loopVars
  <2> QED
    BY <1>2, <2>2, <2>3
<1>6. CASE RemoveReceiver(u)
  <2>1. /\ receivers' = receivers \ {u} /\ lock' = lock /\ lock = "free"
        /\ user[u] = "leaving" /\ user'[u] = "idle" /\ u \in receivers
        /\ \A v \in User \ {u} : user'[v] = user[v]
        /\ stops' = IF receivers' = {} THEN stops + 1 ELSE stops
    BY <1>6 DEF RemoveReceiver, RemovesLocked, LastRemoved, Registered, TypeOK, FlowType
  <2>2. Registered' /\ Singleton'
    BY <1>1, <2>1 DEF Registered, Singleton, loopVars
  <2>3. VotesMatch'
    BY <1>1, <1>3, <2>1, SMTT(30) DEF VotesMatch, loopVars, TypeOK, FlowType
  <2> QED
    BY <1>2, <2>2, <2>3
<1> QED
  BY <1>4, <1>5, <1>6 DEF Consume, Depart

\* start never panics, and starts a goroutine only when none is running.
LEMMA LoopStartKeepsLoop ==
  ASSUME LoopInv, FlowInv', NEW u \in User, LoopStart(u)
  PROVE  LoopInv'
<1> USE DEF LoopInv
<1>1. /\ user[u] = "starting" /\ user'[u] = "reading" /\ lock' = "free" /\ lock = u
      /\ \A v \in User \ {u} : user'[v] = user[v] /\ user[v] # "starting"
      /\ u \in receivers /\ receivers' = receivers /\ stops' = stops
  BY DEF LoopStart, Started, FlowInv, Protocol, FlowType, Registered
<1>2. votes = stops /\ stops \in Nat /\ stopping = "no" /\ (votes = 0 <=> current = None)
  BY <1>1 DEF VotesMatch, TypeOK, FlowType, LoopStart, Singleton
<1>3. votes' = votes + 1 /\ UNCHANGED <<health, arrivals, stopping, todo, putter>>
  BY <1>2 DEF LoopStart
<1>4. putter = None
  BY <1>1, UserAssumption DEF Singleton
<1>5. VotesMatch' /\ NeverPanics' /\ Registered'
  BY <1>1, <1>2, <1>3 DEF VotesMatch, NeverPanics, Registered
<1>6. CASE votes > 0
  <2>1. UNCHANGED <<current, quit, terminated, running>>
    BY <1>2, <1>6 DEF LoopStart
  <2>2. TypeOK' /\ Singleton'
    BY <1>1, <1>2, <1>3, <1>4, <1>6, <2>1 DEF TypeOK, Singleton, FlowInv
  <2> QED
    BY <1>5, <2>2
<1>7. CASE votes = 0
  <2>1. PICK l \in Loop \ running :
          /\ current' = l /\ running' = running \cup {l}
          /\ quit' = quit \ {l} /\ terminated' = terminated \ {l}
    BY <1>2, <1>7 DEF LoopStart
  <2>2. running = {} /\ l # None
    BY <1>2, <1>7, LoopAssumption DEF Singleton
  <2>3. TypeOK' /\ Singleton'
    BY <1>1, <1>2, <1>3, <1>4, <1>7, <2>1, <2>2 DEF TypeOK, Singleton, FlowInv
  <2> QED
    BY <1>5, <2>3
<1> QED
  BY <1>2, <1>6, <1>7

\* stop never panics, and forgets the goroutine only when it has ended.
LEMMA LoopStopKeepsLoop ==
  ASSUME LoopInv, FlowInv', LoopStop \/ LoopStopped
  PROVE  LoopInv'
<1> USE DEF LoopInv
<1>1. CASE LoopStop
  <2>1. /\ stops > 0 /\ stops' = stops - 1 /\ stops \in Nat
        /\ UNCHANGED <<lock, receivers, user, arrivals, todo, putter>>
    BY <1>1 DEF LoopStop, StopRuns, TypeOK, FlowType
  <2>2. votes > 0 /\ votes \in Nat /\ stopping = "no" /\ current # None
    BY <1>1, <2>1 DEF LoopStop, VotesMatch, Singleton, TypeOK
  <2>3. /\ votes' = votes - 1 /\ UNCHANGED <<current, terminated, running, health>>
        /\ IF votes = 1 THEN quit' = quit \cup {current} /\ stopping' = "yes"
                        ELSE UNCHANGED <<quit, stopping>>
    BY <1>1, <2>2 DEF LoopStop
  <2>4. TypeOK' /\ Registered' /\ NeverPanics'
    BY <2>1, <2>2, <2>3 DEF TypeOK, Registered, NeverPanics, FlowInv
  <2>5. Singleton'
    BY <2>1, <2>2, <2>3 DEF Singleton
  <2>6. VotesMatch'
    BY <2>1, <2>2, <2>3 DEF VotesMatch
  <2> QED
    BY <2>4, <2>5, <2>6
<1>2. CASE LoopStopped
  <2>1. /\ stopping = "yes" /\ current \in terminated /\ current' = None /\ stopping' = "no"
        /\ UNCHANGED <<lock, receivers, user, stops, arrivals, votes, quit, terminated,
                       todo, running, putter, health>>
    BY <1>2 DEF LoopStopped, WaitOver, flowVars
  <2>2. running = {} /\ votes = 0
    BY <2>1 DEF Singleton
  <2>3. TypeOK' /\ Registered' /\ NeverPanics' /\ VotesMatch'
    BY <2>1 DEF TypeOK, Registered, NeverPanics, VotesMatch, FlowInv
  <2>4. Singleton'
    BY <2>1, <2>2 DEF Singleton
  <2> QED
    BY <2>3, <2>4
<1> QED
  BY <1>1, <1>2

\* The goroutine of readLoop.
LEMMA ReadLoopKeepsLoop ==
  ASSUME LoopInv, FlowInv', NEW l \in Loop, LoopRead(l) \/ LoopEnd(l) \/ LoopPut(l)
  PROVE  LoopInv'
<1> USE DEF LoopInv
<1>1. l \in running /\ l = current /\ running = {l} /\ l # None /\ putter # l
  BY DEF LoopRead, LoopEnd, LoopPut, Singleton
<1>2. putter = None /\ lock # "source"
  BY <1>1 DEF Singleton
<1>3. /\ UNCHANGED <<receivers, user, stops, arrivals, votes, current, quit, stopping>>
      /\ health' = health
  BY <1>1 DEF LoopRead, LoopEnd, LoopPut, flowVars, PutBegin
<1>4. Registered' /\ NeverPanics' /\ VotesMatch'
  BY <1>3 DEF Registered, NeverPanics, VotesMatch
<1>5. CASE LoopRead(l)
  <2>1. UNCHANGED <<lock, terminated, running, putter>> /\ todo' \in [Loop -> 0 .. 3]
    BY <1>5 DEF LoopRead, flowVars, TypeOK
  <2>2. TypeOK' /\ Singleton'
    BY <1>3, <2>1 DEF TypeOK, Singleton, FlowInv
  <2> QED
    BY <1>4, <2>2
<1>6. CASE LoopEnd(l)
  <2>1. /\ running' = {} /\ terminated' = terminated \cup {current}
        /\ UNCHANGED <<lock, putter, todo>>
    BY <1>1, <1>6 DEF LoopEnd, flowVars
  <2>2. TypeOK' /\ Singleton'
    BY <1>1, <1>2, <1>3, <2>1 DEF TypeOK, Singleton, FlowInv
  <2> QED
    BY <1>4, <2>2
<1>7. CASE LoopPut(l)
  <2>1. /\ lock' = "source" /\ putter' = l /\ UNCHANGED <<terminated, running>>
        /\ todo' \in [Loop -> 0 .. 3]
    BY <1>7 DEF LoopPut, PutBegin, TypeOK
  <2>2. TypeOK' /\ Singleton'
    BY <1>1, <1>3, <2>1 DEF TypeOK, Singleton, FlowInv
  <2> QED
    BY <1>4, <2>2
<1> QED
  BY <1>5, <1>6, <1>7

LEMMA PutStepKeepsLoop ==
  ASSUME LoopInv, FlowInv', LoopPutStep \/ UNCHANGED vars
  PROVE  LoopInv'
<1> USE DEF LoopInv
<1>1. UNCHANGED <<receivers, user, stops, arrivals, votes, current, quit, terminated,
                  stopping, todo, running, health>>
  BY DEF LoopPutStep, PutTo, PutEnd, loopVars, vars, flowVars
<1>2. \/ UNCHANGED <<lock, putter>>
      \/ lock = "source" /\ lock' = "free" /\ putter' = None
  BY DEF LoopPutStep, PutTo, PutEnd, loopVars, vars, flowVars
<1>3. Registered' /\ NeverPanics' /\ VotesMatch'
  BY <1>1 DEF Registered, NeverPanics, VotesMatch
<1>4. TypeOK' /\ Singleton'
  BY <1>1, <1>2 DEF TypeOK, Singleton, FlowInv
<1> QED
  BY <1>3, <1>4

\* LoopInv is inductive.
LEMMA LoopKeeps == LoopInv /\ [Next]_vars => LoopInv'
<1> SUFFICES ASSUME LoopInv, [Next]_vars PROVE LoopInv'
  OBVIOUS
<1>1. FlowInv'
  BY LoopStepsAreFlowSteps, FlowKeeps DEF LoopInv
<1> QED
  BY <1>1, ConsumerKeepsLoop, LoopStartKeepsLoop, LoopStopKeepsLoop, ReadLoopKeepsLoop,
     PutStepKeepsLoop DEF Next

LEMMA LoopInvariant == Spec => []LoopInv
BY LoopInitially, LoopKeeps, PTL DEF Spec

----------------------------------------------------------------------------
(* What holds of an MP4 source, for every value of the constants.          *)

\* Every state of the source, its loop and its consumers is well typed.
THEOREM TypeCorrect == Spec => []TypeOK
<1>1. LoopInv => TypeOK
  BY DEF LoopInv
<1> QED
  BY <1>1, LoopInvariant, PTL

\* SharedBuffer.count is the number of those that still have the buffer.
THEOREM CountsStayExact == Spec => []CountsAreExact
<1>1. LoopInv => CountsAreExact
  BY DEF LoopInv, FlowInv
<1> QED
  BY <1>1, LoopInvariant, PTL

\* After RemoveReceiver nothing is sent to the receiver's closed channel.
THEOREM ClosedStaysSilent == Spec => []ClosedIsSilent
<1>1. LoopInv => ClosedIsSilent
  BY DEF LoopInv, FlowInv, FlowType, Protocol, ClosedIsSilent
<1> QED
  BY <1>1, LoopInvariant, PTL

\* singletonLoop.votes is the receivers' one vote and those of the Stops to come.
THEOREM VotesStayMatched == Spec => []VotesMatch
<1>1. LoopInv => VotesMatch
  BY DEF LoopInv
<1> QED
  BY <1>1, LoopInvariant, PTL

\* Neither start nor stop ever panics, and no nil channel is closed.
THEOREM NothingPanics == Spec => []NeverPanics
<1>1. LoopInv => NeverPanics
  BY DEF LoopInv
<1> QED
  BY <1>1, LoopInvariant, PTL

\* At most one goroutine reads the file.
THEOREM LoopIsSingleton == Spec => []SingleLoop
<1>1. LoopInv => SingleLoop
  <2> SUFFICES ASSUME LoopInv PROVE SingleLoop
    OBVIOUS
  <2>1. running = {} \/ running = {current}
    BY DEF LoopInv, Singleton
  <2>2. Cardinality({}) = 0 /\ Cardinality({current}) = 1
    BY FS_EmptySet, FS_Singleton
  <2>3. CASE running = {}
    BY <2>2, <2>3 DEF SingleLoop
  <2>4. CASE running = {current}
    BY <2>2, <2>4 DEF SingleLoop
  <2> QED
    BY <2>1, <2>3, <2>4
<1> QED
  BY <1>1, LoopInvariant, PTL
============================================================================
