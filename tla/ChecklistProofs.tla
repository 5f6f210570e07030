-------------------------- MODULE ChecklistProofs --------------------------
(***************************************************************************)
(* The checklist selects a pair that was nominated and confirmed, selects  *)
(* it at the first opportunity, never changes its mind, leaves no pair in  *)
(* progress for ever and tells its listener, for any number of bases,      *)
(* candidates and open checks.                                             *)
(***************************************************************************)
EXTENDS Checklist, FiniteSetTheorems, TLAPS

\* The provers of a leaf that names none.
USE ZenonT(10), SMTT(20)

USE BaseAssumption, HostAssumption, RemoteAssumption, PriorityAssumption,
    NoneAssumption, BoundsAssumption

Busy == {"result", "update", "adopt", "trigger", "append"}

\* What the positions of the goroutines say about what they hold.
RunHold ==
  /\ runAt = "picked" => runPair \in Pair
  /\ runAt = "written" => runCheck \in Check

LoopHold ==
  \A b \in Base :
    /\ loopAt[b] \in Busy => loopPair[b] \in Pair /\ BaseOf[loopPair[b][1]] = b
    /\ loopAt[b] = "adopt" => packet[b] \in {"use", "plain"}

TypeInv == TypeOK /\ RunHold /\ LoopHold

----------------------------------------------------------------------------
LEMMA PairTypes ==
  /\ \A p \in Pair : p[1] \in Local /\ p[2] \in Remote /\ BaseOf[p[1]] \in Base
  /\ \A c \in Check : c[1] \in Pair
BY DEF Pair, Check

LEMMA FinitePairs ==
  ASSUME NEW P \in SUBSET Pair
  PROVE  IsFiniteSet(P) /\ Cardinality(P) \in Nat
<1>1. IsFiniteSet(Pair)
  BY FiniteAssumption, FS_Product DEF Pair
<1> QED
  BY <1>1, FS_Subset, FS_CardinalityType

\* nextPair's position in the slice stays a natural number.
LEMMA NextIndex ==
  ASSUME NEW P \in SUBSET Pair, NEW p \in P
  PROVE  (Index(P, p) + 1) % Cardinality(P) \in Nat
<1>1. Above(P, p) \in SUBSET Pair
  BY DEF Above
<1>2. Index(P, p) \in Nat
  BY <1>1, FinitePairs DEF Index
<1>3. Cardinality(P) \in Nat /\ Cardinality(P) # 0
  BY FinitePairs, FS_EmptySet
<1> QED
  BY <1>2, <1>3

----------------------------------------------------------------------------
(* Which actions change which variables.                                   *)

AgentStep == \/ \E l \in Local : AddLocalCandidate(l)
             \/ \E r \in Signalled : AddRemoteCandidate(r)
TimerStep == \E c \in Check : TimerFire(c) \/ TimerCount(c)
AnswerStep == \E b \in Base, c \in Check : Response(b, c)
RequestStep == \E b \in Base : Request(b)
Send == \E c \in Check : SendCheck(c)
Lose == \E c \in Check : LoseCheck(c)
Result == \E b \in Base : SetResult(b)
Adopt == \E b \in Base : AdoptPeerReflexive(b)
Update == \E b \in Base : UpdateState(b)
Trigger == \E b \in Base : TriggerCheck(b)
AppendStep == \E b \in Base : AppendTriggered(b)
Die == \E b \in Base : BaseDies(b)

LEMMA NextCases ==
  ASSUME [Next]_vars
  PROVE  \/ AgentStep \/ FinishAddCandidate \/ Cancel \/ NextPair \/ Send
         \/ PutHandler \/ RunStop \/ TimerStep \/ Lose \/ AnswerStep
         \/ RequestStep \/ Result \/ Adopt \/ Update \/ Trigger \/ AppendStep
         \/ Die \/ AddListener \/ CheckSelected \/ ListenerNotified
         \/ ListenerCancelled \/ NotifyListeners \/ UNCHANGED vars
BY DEF Next, RunStep, LoopStep, ListenerStep, AgentStep, TimerStep, AnswerStep,
       RequestStep, Send, Lose, Result, Adopt, Update, Trigger, AppendStep, Die

LEMMA Frames ==
  /\ AgentStep => UNCHANGED <<pairVars, queueVars, selectVars, runVars, checkVars,
                              loopVars, getVars>>
  /\ FinishAddCandidate => UNCHANGED <<queueVars, selectVars, runVars, checkVars,
                                       loopVars, getVars>>
  /\ Cancel => UNCHANGED <<pairVars, queueVars, selectVars, runVars, checkVars,
                           loopVars, getVars>>
  /\ NextPair => UNCHANGED <<agentVars, pairVars, selectVars, checkVars, loopVars,
                             getVars>>
  /\ Send => UNCHANGED <<agentVars, queueVars, selectVars, loopVars, getVars>>
  /\ PutHandler => UNCHANGED <<agentVars, pairVars, queueVars, selectVars, loopVars,
                               getVars>>
  /\ RunStop => UNCHANGED <<agentVars, pairVars, queueVars, selectVars, checkVars,
                            loopVars, getVars>>
  /\ TimerStep => UNCHANGED <<agentVars, queueVars, selectVars, runVars, loopVars,
                              getVars>>
  /\ Lose => UNCHANGED <<agentVars, pairVars, queueVars, selectVars, runVars,
                         loopVars, getVars>>
  /\ AnswerStep => UNCHANGED <<agentVars, pairVars, queueVars, selectVars, runVars,
                               getVars>>
BY DEF AgentStep, AddLocalCandidate, AddRemoteCandidate, AddCandidate,
       FinishAddCandidate, Cancel, NextPair, Send, SendCheck, PutHandler, RunStop,
       TimerStep, TimerFire, TimerCount, Lose, LoseCheck, AnswerStep, Response,
       RecvResponse

LEMMA MoreFrames ==
  /\ RequestStep => UNCHANGED <<agentVars, queueVars, selectVars, runVars, checkVars,
                                getVars>>
  /\ Result => UNCHANGED <<agentVars, queueVars, selectVars, runVars, checkVars,
                           getVars>>
  /\ Adopt => UNCHANGED <<agentVars, queueVars, selectVars, runVars, checkVars,
                          getVars>>
  /\ Update => UNCHANGED <<agentVars, pairVars, queueVars, runVars, checkVars, getVars>>
  /\ Trigger => UNCHANGED <<agentVars, pairVars, queueVars, selectVars, runVars,
                            checkVars, getVars>>
  /\ AppendStep => UNCHANGED <<agentVars, pairVars, selectVars, runVars, checkVars,
                               getVars>>
  /\ Die => UNCHANGED <<agentVars, pairVars, queueVars, selectVars, runVars,
                        checkVars, getVars>>
  /\ AddListener \/ CheckSelected \/ ListenerNotified \/ ListenerCancelled
       => UNCHANGED <<agentVars, pairVars, queueVars, selectVars, runVars, checkVars,
                      loopVars>>
  /\ NotifyListeners => UNCHANGED <<agentVars, pairVars, queueVars, runVars,
                                    checkVars, loopVars>>
BY DEF RequestStep, Request, RecvRequest, RecvUnknownRequest, Result, SetResult,
       Adopt, AdoptPeerReflexive, Update, UpdateState, Trigger, TriggerCheck,
       AppendStep, AppendTriggered, Die, BaseDies, AddListener, CheckSelected,
       ListenerNotified, ListenerCancelled, NotifyListeners

----------------------------------------------------------------------------
(* Types, one group of variables at a time.                                *)

LEMMA AgentTypeStep == TypeInv /\ [Next]_vars => AgentType'
<1> SUFFICES ASSUME TypeInv, [Next]_vars PROVE AgentType'
  OBVIOUS
<1> USE DEF TypeInv, TypeOK, AgentType
<1>1. CASE AgentStep
  <2>1. \A l \in Local : ({l} \X remotes) \cap Compatible \in SUBSET Pair
    BY DEF Pair, Remote
  <2>2. \A r \in Signalled : (locals \X {r}) \cap Compatible \in SUBSET Pair
    BY DEF Pair, Remote
  <2> QED
    BY <1>1, <2>1, <2>2 DEF AgentStep, AddLocalCandidate, AddRemoteCandidate, AddCandidate
<1>2. CASE FinishAddCandidate
  BY <1>2 DEF FinishAddCandidate
<1>3. CASE Cancel
  BY <1>3 DEF Cancel
<1>4. CASE UNCHANGED agentVars
  BY <1>4 DEF agentVars
<1> QED
  BY <1>1, <1>2, <1>3, <1>4, NextCases, Frames, MoreFrames DEF vars

LEMMA PairTypeStep == TypeInv /\ [Next]_vars => PairType'
<1> SUFFICES ASSUME TypeInv, [Next]_vars PROVE PairType'
  OBVIOUS
<1> USE DEF TypeInv, TypeOK, PairType
<1>1. CASE FinishAddCandidate
  BY <1>1 DEF FinishAddCandidate, AgentType
<1>2. CASE Send
  BY <1>2 DEF Send, SendCheck, RunHold, Protected
<1>3. CASE TimerStep
  <2>1. PICK c \in Check : TimerFire(c) \/ TimerCount(c)
    BY <1>3 DEF TimerStep
  <2>2. c[1] \in Pair
    BY PairTypes
  <2>3. ~TooManyFailures(c[1]) => failCount[c[1]] + 1 \in 0 .. MaxFailCount
    BY <2>2 DEF TooManyFailures
  <2> QED
    BY <2>1, <2>2, <2>3 DEF TimerFire, TimerCount, Protected
<1>4. CASE RequestStep
  <2>1. PICK b \in Base : Request(b)
    BY <1>4 DEF RequestStep
  <2>2. CASE \E a \in Addresses, use \in {"use", "plain"} : RecvRequest(b, a, use)
    BY <2>2 DEF RecvRequest, Handle, Matches, AgentType
  <2>3. CASE \E a \in Addresses, use \in {"use", "plain"} : RecvUnknownRequest(b, a, use)
    BY <2>3 DEF RecvUnknownRequest
  <2> QED
    BY <2>1, <2>2, <2>3 DEF Request
<1>5. CASE Result
  BY <1>5 DEF Result, SetResult, LoopHold, Busy, Protected
<1>6. CASE Adopt
  BY <1>6 DEF Adopt, AdoptPeerReflexive, Handle, LoopHold, Busy
<1>7. CASE UNCHANGED pairVars
  BY <1>7 DEF pairVars
<1> QED
  BY <1>1, <1>2, <1>3, <1>4, <1>5, <1>6, <1>7, NextCases, Frames, MoreFrames DEF vars

LEMMA QueueTypeStep == TypeInv /\ [Next]_vars => QueueType'
<1> SUFFICES ASSUME TypeInv, [Next]_vars PROVE QueueType'
  OBVIOUS
<1> USE DEF TypeInv, TypeOK, QueueType
<1>1. CASE NextPair
  <2>1. CASE triggered # <<>>
    <3>1. triggered' = Tail(triggered) /\ next' = next
      BY <1>1, <2>1 DEF NextPair
    <3>2. Tail(triggered) \in Seq(Pair) /\ next \in Nat
      BY <2>1
    <3> QED
      BY <3>1, <3>2
  <2>2. CASE triggered = <<>>
    <3>1. PICK p \in pairs : next' = (Index(pairs, p) + 1) % Cardinality(pairs)
      BY <1>1, <2>2 DEF NextPair, WaitingPairs
    <3>2. next' \in Nat
      BY <3>1, NextIndex DEF PairType
    <3> QED
      BY <1>1, <2>2, <3>2 DEF NextPair
  <2> QED
    BY <2>1, <2>2
<1>2. CASE AppendStep
  BY <1>2 DEF AppendStep, AppendTriggered, LoopHold, Busy
<1>3. CASE UNCHANGED queueVars
  BY <1>3 DEF queueVars
<1> QED
  BY <1>1, <1>2, <1>3, NextCases, Frames, MoreFrames DEF vars

LEMMA SelectTypeStep == TypeInv /\ [Next]_vars => SelectType'
<1> SUFFICES ASSUME TypeInv, [Next]_vars PROVE SelectType'
  OBVIOUS
<1> USE DEF TypeInv, TypeOK, SelectType
<1>1. CASE Update
  BY <1>1 DEF Update, UpdateState, GoNotify, LoopHold, Busy, selectVars
<1>2. CASE NotifyListeners
  BY <1>2 DEF NotifyListeners
<1>3. CASE UNCHANGED selectVars
  BY <1>3 DEF selectVars
<1> QED
  BY <1>1, <1>2, <1>3, NextCases, Frames, MoreFrames DEF vars

LEMMA RunTypeStep == TypeInv /\ [Next]_vars => RunType' /\ RunHold'
<1> SUFFICES ASSUME TypeInv, [Next]_vars PROVE RunType' /\ RunHold'
  OBVIOUS
<1> USE DEF TypeInv, TypeOK, RunType, RunHold
<1>1. CASE NextPair
  <2>1. triggered # <<>> => Head(triggered) \in Pair
    BY DEF QueueType
  <2> QED
    BY <1>1, <2>1 DEF NextPair, WaitingPairs, PairType
<1>2. CASE Send \/ PutHandler \/ RunStop
  BY <1>2 DEF Send, SendCheck, PutHandler, RunStop
<1>3. CASE UNCHANGED runVars
  BY <1>3 DEF runVars
<1> QED
  BY <1>1, <1>2, <1>3, NextCases, Frames, MoreFrames DEF vars

LEMMA CheckTypeStep == TypeInv /\ [Next]_vars => CheckType'
<1> SUFFICES ASSUME TypeInv, [Next]_vars PROVE CheckType'
  OBVIOUS
<1> USE DEF TypeInv, TypeOK, CheckType
<1>1. CASE Send
  BY <1>1 DEF Send, SendCheck, Arm
<1>2. CASE PutHandler \/ TimerStep \/ Lose
  BY <1>2 DEF PutHandler, TimerStep, TimerFire, TimerCount, Lose, LoseCheck
<1>3. CASE AnswerStep
  BY <1>3 DEF AnswerStep, Response, RecvResponse
<1>4. CASE UNCHANGED checkVars
  BY <1>4 DEF checkVars
<1> QED
  BY <1>1, <1>2, <1>3, <1>4, NextCases, Frames, MoreFrames DEF vars

\* A step of one readLoop that leaves it in a proper state.
LEMMA LoopSet ==
  ASSUME LoopType, LoopHold, NEW b \in Base,
         NEW at \in {"idle", "dead"} \cup Busy, NEW p \in Pair \cup {None},
         NEW k \in {None, "success", "error", "use", "plain"},
         at \in Busy => p \in Pair /\ BaseOf[p[1]] = b,
         at = "adopt" => k \in {"use", "plain"},
         loopAt' = [loopAt EXCEPT ![b] = at],
         loopPair' = [loopPair EXCEPT ![b] = p],
         packet' = [packet EXCEPT ![b] = k]
  PROVE  LoopType' /\ LoopHold'
<1>1. LoopType'
  BY DEF LoopType, Busy
<1>2. ASSUME NEW d \in Base
      PROVE  /\ loopAt'[d] = IF d = b THEN at ELSE loopAt[d]
             /\ loopPair'[d] = IF d = b THEN p ELSE loopPair[d]
             /\ packet'[d] = IF d = b THEN k ELSE packet[d]
  BY DEF LoopType
<1> QED
  BY <1>1, <1>2 DEF LoopHold

LEMMA LoopTypeStep == TypeInv /\ [Next]_vars => LoopType' /\ LoopHold'
<1> SUFFICES ASSUME TypeInv, [Next]_vars PROVE LoopType' /\ LoopHold'
  OBVIOUS
<1>0. LoopType /\ LoopHold
  BY DEF TypeInv, TypeOK
<1> DEFINE Held(b) == /\ loopPair[b] \in Pair /\ BaseOf[loopPair[b][1]] = b
                      /\ loopPair' = [loopPair EXCEPT ![b] = loopPair[b]]
                      /\ packet' = [packet EXCEPT ![b] = packet[b]]
           Released(b) == /\ loopAt' = [loopAt EXCEPT ![b] = "idle"]
                          /\ loopPair' = [loopPair EXCEPT ![b] = None]
                          /\ packet' = [packet EXCEPT ![b] = None]
<1>1. \A b \in Base : packet[b] \in {None, "success", "error", "use", "plain"}
  BY <1>0 DEF LoopType
<1>2. ASSUME NEW b \in Base, Released(b) PROVE LoopType' /\ LoopHold'
  BY <1>0, <1>2, LoopSet DEF Busy
<1>3. ASSUME NEW b \in Base, loopAt[b] \in Busy, UNCHANGED <<loopPair, packet>>
      PROVE  Held(b)
  BY <1>0, <1>3 DEF LoopHold, LoopType
<1>4. CASE AnswerStep
  <2>1. PICK b \in Base, c \in Check, result \in {"success", "error"} :
          RecvResponse(b, c, result)
    BY <1>4 DEF AnswerStep, Response
  <2>2. c[1] \in Pair
    BY PairTypes
  <2>3. CASE c \in handlers /\ pairState[c[1]] = "InProgress"
    BY <1>0, <2>1, <2>2, <2>3, LoopSet DEF RecvResponse, Busy
  <2>4. CASE UNCHANGED loopVars
    BY <1>0, <2>4 DEF LoopType, LoopHold, loopVars
  <2> QED
    BY <2>1, <2>3, <2>4 DEF RecvResponse
<1>5. ASSUME NEW b \in Base, NEW p \in Pair, BaseOf[p[1]] = b,
             NEW use \in {"use", "plain"}, Handle(b, p, use)
      PROVE  LoopType' /\ LoopHold'
  <2> DEFINE at == IF Nominates(p, use) THEN AfterNomination ELSE "trigger"
  <2>1. at \in Busy /\ at # "adopt"
    BY DEF Busy, AfterNomination
  <2> QED
    BY <1>0, <1>5, <2>1, LoopSet DEF Handle
<1>6. CASE RequestStep
  <2>1. PICK b \in Base, a \in Addresses, use \in {"use", "plain"} :
          RecvRequest(b, a, use) \/ RecvUnknownRequest(b, a, use)
    BY <1>6 DEF RequestStep, Request
  <2>2. CASE RecvRequest(b, a, use)
    <3>1. pairs \cup adding \subseteq Pair
      BY DEF TypeInv, TypeOK, PairType, AgentType
    <3> QED
      BY <1>5, <2>2, <3>1 DEF RecvRequest, Matches
  <2>3. CASE RecvUnknownRequest(b, a, use)
    <3>1. PICK l \in Host, r \in Reflexive :
            BaseOf[l] = b /\ loopPair' = [loopPair EXCEPT ![b] = <<l, r>>]
      BY <2>3 DEF RecvUnknownRequest
    <3>2. <<l, r>> \in Pair /\ <<l, r>>[1] = l
      BY DEF Pair, Remote
    <3> QED
      BY <1>0, <2>3, <3>1, <3>2, LoopSet DEF RecvUnknownRequest, Busy
  <2> QED
    BY <2>1, <2>2, <2>3
<1>7. CASE Result
  <2>1. PICK b \in Base : SetResult(b)
    BY <1>7 DEF Result
  <2>2. Held(b)
    BY <1>3, <2>1 DEF SetResult, Busy
  <2>3. loopAt' = [loopAt EXCEPT ![b] = "update"]
    BY <2>1 DEF SetResult
  <2>4. loopPair[b] \in Pair \cup {None} /\ "update" \in Busy /\ "update" # "adopt"
    BY <2>2 DEF Busy
  <2> QED
    BY <1>0, <1>1, <2>2, <2>3, <2>4, LoopSet
<1>8. CASE Adopt
  <2>1. PICK b \in Base : AdoptPeerReflexive(b)
    BY <1>8 DEF Adopt
  <2>2. loopPair[b] \in Pair /\ BaseOf[loopPair[b][1]] = b /\ packet[b] \in {"use", "plain"}
    BY <1>0, <2>1 DEF AdoptPeerReflexive, LoopHold, Busy
  <2> QED
    BY <1>5, <2>1, <2>2 DEF AdoptPeerReflexive
<1>9. CASE Update
  <2>1. PICK b \in Base : UpdateState(b)
    BY <1>9 DEF Update
  <2>2. CASE packet[b] = "use"
    BY <1>0, <1>1, <1>3, <2>1, <2>2, LoopSet DEF UpdateState, Busy
  <2>3. CASE packet[b] # "use"
    BY <1>2, <2>1, <2>3 DEF UpdateState
  <2> QED
    BY <2>2, <2>3
<1>10. CASE Trigger
  <2>1. PICK b \in Base : TriggerCheck(b)
    BY <1>10 DEF Trigger
  <2>2. CASE pairState[loopPair[b]] \in {"Frozen", "Waiting"}
    BY <1>0, <1>1, <1>3, <2>1, <2>2, LoopSet DEF TriggerCheck, Busy
  <2>3. CASE pairState[loopPair[b]] \notin {"Frozen", "Waiting"}
    BY <1>2, <2>1, <2>3 DEF TriggerCheck
  <2> QED
    BY <2>2, <2>3
<1>11. CASE AppendStep
  BY <1>2, <1>11 DEF AppendStep, AppendTriggered
<1>12. CASE Die
  <2>1. PICK b \in Base : BaseDies(b)
    BY <1>12 DEF Die
  <2>2. LoopType'
    BY <1>0, <2>1 DEF BaseDies, LoopType
  <2>3. \A d \in Base : loopAt'[d] = IF d = b THEN "dead" ELSE loopAt[d]
    BY <1>0, <2>1 DEF BaseDies, LoopType
  <2> QED
    BY <1>0, <2>1, <2>2, <2>3 DEF BaseDies, LoopHold, Busy
<1>13. CASE UNCHANGED loopVars
  BY <1>0, <1>13 DEF LoopType, LoopHold, loopVars
<1> QED
  BY <1>4, <1>6, <1>7, <1>8, <1>9, <1>10, <1>11, <1>12, <1>13,
     NextCases, Frames, MoreFrames DEF vars

LEMMA GetTypeStep == TypeInv /\ [Next]_vars => GetType'
<1> SUFFICES ASSUME TypeInv, [Next]_vars PROVE GetType'
  OBVIOUS
<1> USE DEF TypeInv, TypeOK, GetType
<1>1. CASE AddListener \/ ListenerNotified \/ ListenerCancelled \/ NotifyListeners
  BY <1>1 DEF AddListener, ListenerNotified, ListenerCancelled, NotifyListeners
<1>2. CASE CheckSelected
  BY <1>2 DEF CheckSelected, SelectType
<1>3. CASE UNCHANGED getVars
  BY <1>3 DEF getVars
<1> QED
  BY <1>1, <1>2, <1>3, NextCases, Frames, MoreFrames DEF vars

\* Every variable keeps its type, and a goroutine holds what it needs.
THEOREM TypeCorrect == Spec => []TypeInv
<1>1. Init => TypeInv
  BY DEF Init, TypeInv, TypeOK, AgentType, PairType, QueueType, SelectType, RunType,
         CheckType, LoopType, GetType, RunHold, LoopHold, Busy, Protected
<1>2. TypeInv /\ [Next]_vars => TypeInv'
  BY AgentTypeStep, PairTypeStep, QueueTypeStep, SelectTypeStep, RunTypeStep,
     CheckTypeStep, LoopTypeStep, GetTypeStep DEF TypeInv, TypeOK
<1> QED
  BY <1>1, <1>2, PTL DEF Spec

\* Every state of the checklist is well typed.
THEOREM StatesAreWellTyped == Spec => []TypeOK
<1>1. TypeInv => TypeOK
  BY DEF TypeInv
<1> QED
  BY <1>1, TypeCorrect, PTL

----------------------------------------------------------------------------
(* The selection.                                                          *)

\* Only a successful response makes a pair Succeeded.
SucceededConfirmed ==
  \A p \in Pair : pairState[p] = "Succeeded" => p \in confirmed

SelectionInv == SucceededConfirmed /\ SelectedIsUsable

\* No step but SetResult makes a pair Succeeded; nominations and confirmations
\* are never taken back.
LEMMA PairsMove ==
  ASSUME TypeInv, [Next]_vars
  PROVE  /\ nominated \subseteq nominated' /\ confirmed \subseteq confirmed'
         /\ ~Result => \A p \in Pair : pairState'[p] = "Succeeded" => pairState[p] = "Succeeded"
<1> USE DEF TypeInv, TypeOK, PairType
<1>1. CASE FinishAddCandidate
  BY <1>1 DEF FinishAddCandidate
<1>2. CASE Send
  BY <1>2 DEF Send, SendCheck
<1>3. CASE TimerStep
  BY <1>3 DEF TimerStep, TimerFire, TimerCount
<1>4. CASE RequestStep
  BY <1>4 DEF RequestStep, Request, RecvRequest, RecvUnknownRequest, Handle
<1>5. CASE Result
  BY <1>5 DEF Result, SetResult
<1>6. CASE Adopt
  BY <1>6 DEF Adopt, AdoptPeerReflexive, Handle
<1>7. CASE UNCHANGED pairVars
  BY <1>7 DEF pairVars
<1> QED
  BY <1>1, <1>2, <1>3, <1>4, <1>5, <1>6, <1>7, NextCases, Frames, MoreFrames DEF vars

LEMMA ConfirmedStep == TypeInv /\ SucceededConfirmed /\ [Next]_vars => SucceededConfirmed'
<1> SUFFICES ASSUME TypeInv, SucceededConfirmed, [Next]_vars PROVE SucceededConfirmed'
  OBVIOUS
<1>1. CASE Result
  <2>1. PICK b \in Base : SetResult(b)
    BY <1>1 DEF Result
  <2>2. ASSUME NEW p \in Pair, pairState'[p] = "Succeeded" PROVE p \in confirmed'
    BY <2>1, <2>2 DEF SetResult, TypeInv, TypeOK, PairType, SucceededConfirmed
  <2> QED
    BY <2>2 DEF SucceededConfirmed
<1>2. CASE ~Result
  BY <1>2, PairsMove DEF SucceededConfirmed
<1> QED
  BY <1>1, <1>2

LEMMA SelectionStep ==
  TypeInv /\ SelectionInv /\ [Next]_vars
    => SelectionInv' /\ (selected # None => selected' = selected)
<1> SUFFICES ASSUME TypeInv, SelectionInv, [Next]_vars
             PROVE  SelectedIsUsable' /\ (selected # None => selected' = selected)
  BY ConfirmedStep DEF SelectionInv
<1>1. CASE Update
  <2>1. PICK b \in Base : UpdateState(b)
    BY <1>1 DEF Update
  <2>2. loopPair[b] \in Pair
    BY <2>1 DEF UpdateState, TypeInv, LoopHold, Busy
  <2>3. CASE StillRunning /\ Eligible(loopPair[b])
    <3>1. selected = None /\ selected' = loopPair[b] /\ state' = "Completed"
      BY <2>1, <2>3 DEF UpdateState, StillRunning, SelectionInv, SelectedIsUsable
    <3>2. loopPair[b] \in nominated \cap confirmed
      BY <2>2, <2>3 DEF Eligible, SelectionInv, SucceededConfirmed
    <3> QED
      BY <2>2, <3>1, <3>2, PairsMove DEF SelectedIsUsable
  <2>4. CASE UNCHANGED selectVars
    BY <2>4, PairsMove DEF selectVars, SelectionInv, SelectedIsUsable
  <2> QED
    BY <2>1, <2>3, <2>4 DEF UpdateState
<1>2. CASE ~Update
  <2>1. UNCHANGED <<selected, state>>
    <3>1. CASE NotifyListeners
      BY <3>1 DEF NotifyListeners
    <3>2. CASE UNCHANGED selectVars
      BY <3>2 DEF selectVars
    <3> QED
      BY <1>2, <3>1, <3>2, NextCases, Frames, MoreFrames DEF vars
  <2> QED
    BY <2>1, PairsMove DEF SelectionInv, SelectedIsUsable
<1> QED
  BY <1>1, <1>2

LEMMA SelectionCorrect == Spec => []SelectionInv
<1>1. Init => SelectionInv
  BY DEF Init, SelectionInv, SucceededConfirmed, SelectedIsUsable
<1> QED
  BY <1>1, TypeCorrect, SelectionStep, PTL DEF Spec

\* The selected pair was nominated by the peer and confirmed by a check.
THEOREM SelectedPairIsUsable == Spec => []SelectedIsUsable
BY SelectionCorrect, PTL DEF SelectionInv

\* The first selection is the last one.
THEOREM SelectionNeverChanges == Spec => SelectionIsFinal
<1>1. TypeInv /\ SelectionInv /\ [Next]_vars
        => [selected # None => selected' = selected]_vars
  BY SelectionStep
<1> QED
  BY <1>1, TypeCorrect, SelectionCorrect, PTL DEF Spec, SelectionIsFinal

----------------------------------------------------------------------------
(* No pair is overlooked, none is stuck.                                   *)

AtUpdate(p) == loopAt[BaseOf[p[1]]] = "update" /\ loopPair[BaseOf[p[1]]] = p

LEMMA MissedStep ==
  /\ TypeInv /\ TypeInv' /\ SelectionInv /\ SelectionInv'
  /\ NoMissedSelection /\ [Next]_vars
  => NoMissedSelection'
<1> SUFFICES ASSUME TypeInv, TypeInv', SelectionInv, SelectionInv', NoMissedSelection,
                    [Next]_vars, NEW p \in Pair, p \in nominated',
                    pairState'[p] = "Succeeded", state' # "Completed"
             PROVE  AtUpdate(p)'
  BY DEF NoMissedSelection, AtUpdate, TypeInv, TypeOK, PairType
<1>1. BaseOf[p[1]] \in Base
  BY PairTypes
<1>2. state # "Completed"
  BY SelectionStep DEF SelectionInv, SelectedIsUsable, TypeInv, TypeOK, SelectType
<1>3. ASSUME p \in nominated, pairState[p] = "Succeeded" PROVE AtUpdate(p)
  BY <1>2, <1>3 DEF NoMissedSelection, AtUpdate
<1>4. CASE Result
  <2>1. PICK b \in Base : SetResult(b)
    BY <1>4 DEF Result
  <2>2. CASE loopPair[b] = p
    <3>1. BaseOf[p[1]] = b
      BY <2>1, <2>2 DEF SetResult, TypeInv, LoopHold, Busy
    <3>2. loopAt' = [loopAt EXCEPT ![b] = "update"] /\ loopPair' = loopPair
      BY <2>1 DEF SetResult
    <3>3. LoopType
      BY DEF TypeInv, TypeOK
    <3> QED
      BY <2>2, <3>1, <3>2, <3>3 DEF AtUpdate, LoopType
  <2>3. CASE loopPair[b] # p
    <3>1. pairState[p] = "Succeeded" /\ p \in nominated
      BY <2>1, <2>3 DEF SetResult, TypeInv, TypeOK, PairType
    <3> QED
      BY <1>1, <1>3, <2>1, <3>1 DEF SetResult, AtUpdate, TypeInv, TypeOK, LoopType
  <2> QED
    BY <2>2, <2>3
<1>5. SUFFICES ASSUME ~Result PROVE AtUpdate(p)'
  BY <1>4
<1>6. pairState[p] = "Succeeded"
  BY <1>5, PairsMove
<1>7. ASSUME NEW b \in Base, NEW q \in Pair, BaseOf[q[1]] = b,
             NEW use \in {"use", "plain"}, Handle(b, q, use), loopAt[b] # "update"
      PROVE  AtUpdate(p)'
  <2>1. CASE p \in nominated
    <3>1. AtUpdate(p)
      BY <1>3, <1>6, <2>1
    <3> QED
      BY <1>1, <1>7, <3>1 DEF Handle, AtUpdate, TypeInv, TypeOK, LoopType
  <2>2. CASE p \notin nominated
    <3>1. p = q /\ Nominates(q, use)
      BY <1>7, <2>2 DEF Handle
    <3> QED
      BY <1>7, <3>1 DEF Handle, AtUpdate, AfterNomination, TypeInv, TypeOK, LoopType
  <2> QED
    BY <2>1, <2>2
<1>8. ASSUME nominated' = nominated,
             \A b \in Base : loopAt[b] = "update" =>
               loopAt'[b] = "update" /\ loopPair'[b] = loopPair[b]
      PROVE  AtUpdate(p)'
  BY <1>1, <1>3, <1>6, <1>8 DEF AtUpdate
<1>9. CASE RequestStep
  <2>1. PICK b \in Base, a \in Addresses, use \in {"use", "plain"} :
          RecvRequest(b, a, use) \/ RecvUnknownRequest(b, a, use)
    BY <1>9 DEF RequestStep, Request
  <2>2. CASE RecvRequest(b, a, use)
    <3>1. pairs \cup adding \subseteq Pair
      BY DEF TypeInv, TypeOK, PairType, AgentType
    <3>2. loopAt[b] # "update"
      BY <2>2 DEF RecvRequest
    <3>3. PICK q \in Matches(pairs \cup adding, b, a) : Handle(b, q, use)
      BY <2>2 DEF RecvRequest
    <3>4. q \in Pair /\ BaseOf[q[1]] = b
      BY <3>1 DEF Matches
    <3> QED
      BY <1>7, <3>2, <3>3, <3>4
  <2>3. CASE RecvUnknownRequest(b, a, use)
    BY <1>8, <2>3 DEF RecvUnknownRequest, TypeInv, TypeOK, LoopType
  <2> QED
    BY <2>1, <2>2, <2>3
<1>10. CASE Adopt
  <2>1. PICK b \in Base : AdoptPeerReflexive(b)
    BY <1>10 DEF Adopt
  <2>2. loopPair[b] \in Pair /\ BaseOf[loopPair[b][1]] = b /\ packet[b] \in {"use", "plain"}
    BY <2>1 DEF AdoptPeerReflexive, TypeInv, LoopHold, Busy
  <2>3. loopAt[b] # "update" /\ Handle(b, loopPair[b], packet[b])
    BY <2>1 DEF AdoptPeerReflexive
  <2> QED
    BY <1>7, <2>2, <2>3
<1>11. CASE Update
  <2>1. PICK b \in Base : UpdateState(b)
    BY <1>11 DEF Update
  <2>2. p \in nominated
    BY <1>11, MoreFrames DEF pairVars
  <2>3. AtUpdate(p)
    BY <1>3, <1>6, <2>2
  <2>4. loopPair[b] # p
    BY <1>2, <1>6, <2>1, <2>2 DEF UpdateState, Eligible, StillRunning, TypeInv, TypeOK,
       SelectType
  <2>5. BaseOf[p[1]] # b
    BY <2>3, <2>4 DEF AtUpdate
  <2> QED
    BY <1>1, <2>1, <2>3, <2>5 DEF UpdateState, AtUpdate, TypeInv, TypeOK, LoopType
<1>12. CASE AnswerStep
  <2>1. nominated' = nominated
    BY <1>12, Frames DEF pairVars
  <2> QED
    <3>1. PICK b \in Base, c \in Check, result \in {"success", "error"} :
                 RecvResponse(b, c, result)
      BY <1>12 DEF AnswerStep, Response
    <3>2. loopAt[b] = "idle"
      BY <3>1 DEF RecvResponse
    <3>3. \/ UNCHANGED loopVars
          \/ /\ loopAt' = [loopAt EXCEPT ![b] = "result"]
             /\ loopPair' = [loopPair EXCEPT ![b] = c[1]]
      BY <3>1 DEF RecvResponse
    <3>4. LoopType
      BY DEF TypeInv, TypeOK
    <3>5. \A d \in Base \ {b} : loopAt'[d] = loopAt[d] /\ loopPair'[d] = loopPair[d]
      BY <3>3, <3>4 DEF LoopType, loopVars
    <3> QED
      BY <1>8, <2>1, <3>2, <3>5
<1>13. CASE Trigger \/ AppendStep \/ Die
  <2>1. nominated' = nominated
    BY <1>13, MoreFrames DEF pairVars
  <2> QED
    BY <1>8, <1>13, <2>1 DEF Trigger, TriggerCheck, AppendStep, AppendTriggered, Die,
       BaseDies, TypeInv, TypeOK, LoopType
<1>14. CASE ~RequestStep /\ ~Adopt /\ UNCHANGED loopVars
  <2>1. nominated' = nominated
    <3>1. CASE FinishAddCandidate \/ Send \/ TimerStep
      BY <3>1 DEF FinishAddCandidate, Send, SendCheck, TimerStep, TimerFire, TimerCount
    <3>2. CASE UNCHANGED pairVars
      BY <3>2 DEF pairVars
    <3> QED
      BY <1>5, <1>14, <3>1, <3>2, NextCases, Frames, MoreFrames DEF vars
  <2> QED
    BY <1>8, <1>14, <2>1 DEF loopVars
<1> QED
  BY <1>5, <1>9, <1>10, <1>11, <1>12, <1>13, <1>14, NextCases, Frames, MoreFrames DEF vars

\* Whichever comes last of nomination and success makes the selection.
THEOREM NothingIsMissed == Spec => []NoMissedSelection
<1>1. Init => NoMissedSelection
  BY DEF Init, NoMissedSelection
<1> QED
  BY <1>1, TypeCorrect, SelectionCorrect, MissedStep, PTL DEF Spec

AtResult(p) == loopAt[BaseOf[p[1]]] = "result" /\ loopPair[BaseOf[p[1]]] = p

LEMMA ProgressStep ==
  TypeInv /\ InProgressMovesOn /\ [Next]_vars => InProgressMovesOn'
<1> SUFFICES ASSUME TypeInv, InProgressMovesOn, [Next]_vars, NEW p \in Pair,
                    pairState'[p] = "InProgress"
             PROVE  (\E c \in armed' : c[1] = p) \/ AtResult(p)'
  BY DEF InProgressMovesOn, AtResult
<1> DEFINE Timed == \E c \in armed : c[1] = p
<1>1. BaseOf[p[1]] \in Base
  BY PairTypes
<1>2. pairState[p] = "InProgress" => Timed \/ AtResult(p)
  BY DEF InProgressMovesOn, AtResult
<1>3. ASSUME pairState[p] = "InProgress", armed' = armed,
             \A b \in Base : loopAt[b] = "result" =>
               loopAt'[b] = "result" /\ loopPair'[b] = loopPair[b]
      PROVE  (\E c \in armed' : c[1] = p) \/ AtResult(p)'
  BY <1>1, <1>2, <1>3 DEF AtResult
<1>4. CASE Send
  <2>1. PICK c \in Check : SendCheck(c)
    BY <1>4 DEF Send
  <2>2. armed' = armed \cup {c} /\ runPair \in Pair /\ c[1] = runPair
    BY <2>1 DEF SendCheck, Arm, TypeInv, RunHold
  <2>3. CASE p = runPair
    BY <2>2, <2>3
  <2>4. CASE p # runPair
    <3>1. pairState[p] = "InProgress"
      BY <2>1, <2>2, <2>4 DEF SendCheck, TypeInv, TypeOK, PairType
    <3> QED
      BY <1>2, <1>4, <2>2, <3>1, Frames DEF AtResult, loopVars
  <2> QED
    BY <2>3, <2>4
<1>5. CASE TimerStep
  <2>1. PICK c \in Check : TimerFire(c) \/ TimerCount(c)
    BY <1>5 DEF TimerStep
  <2>2. c[1] \in Pair
    BY PairTypes
  <2>3. pairState[p] = "InProgress" /\ (TimerFire(c) => p # c[1])
    BY <2>1, <2>2 DEF TimerFire, TimerCount, TypeInv, TypeOK, PairType
  <2>4. Timed => \E d \in armed' : d[1] = p
    BY <2>1, <2>3 DEF TimerFire, TimerCount
  <2> QED
    BY <1>2, <1>5, <2>3, <2>4, Frames DEF AtResult, loopVars
<1>6. CASE AnswerStep
  <2>1. PICK b \in Base, c \in Check, result \in {"success", "error"} :
          RecvResponse(b, c, result)
    BY <1>6 DEF AnswerStep, Response
  <2>2. pairState[p] = "InProgress"
    BY <1>6, Frames DEF pairVars
  <2>3. CASE AtResult(p)
    <3>1. loopAt[b] = "idle" /\ BaseOf[p[1]] # b
      BY <2>1, <2>3 DEF RecvResponse, AtResult
    <3> QED
      BY <1>1, <2>1, <2>3, <3>1
      DEF RecvResponse, AtResult, loopVars, TypeInv, TypeOK, LoopType
  <2>4. CASE Timed /\ c[1] # p
    BY <2>1, <2>4 DEF RecvResponse
  <2>5. CASE Timed /\ c[1] = p /\ c \in handlers
    BY <2>1, <2>2, <2>5 DEF RecvResponse, AtResult, TypeInv, TypeOK, LoopType
  <2>6. CASE Timed /\ c \notin handlers
    BY <2>1, <2>6 DEF RecvResponse
  <2> QED
    BY <1>2, <2>2, <2>3, <2>4, <2>5, <2>6
<1>7. CASE Result
  <2>1. PICK b \in Base : SetResult(b)
    BY <1>7 DEF Result
  <2>2. loopPair[b] \in Pair /\ BaseOf[loopPair[b][1]] = b
    BY <2>1 DEF SetResult, TypeInv, LoopHold, Busy
  <2>3. p # loopPair[b] /\ pairState[p] = "InProgress"
    BY <2>1, <2>2 DEF SetResult, TypeInv, TypeOK, PairType
  <2>4. AtResult(p) => AtResult(p)'
    BY <1>1, <2>1, <2>3 DEF SetResult, AtResult, TypeInv, TypeOK, LoopType
  <2> QED
    BY <1>2, <1>7, <2>3, <2>4, MoreFrames DEF checkVars
<1>8. CASE RequestStep \/ Adopt
  <2>1. pairState[p] = "InProgress"
    BY <1>8, ZenonT(60) DEF RequestStep, Request, RecvRequest, RecvUnknownRequest, Adopt,
       AdoptPeerReflexive, TypeInv, TypeOK, PairType
  <2>2. armed' = armed
    BY <1>8, MoreFrames DEF checkVars
  <2>3. PICK b \in Base : /\ loopAt[b] # "result"
                          /\ \E q : loopPair' = [loopPair EXCEPT ![b] = q]
                          /\ \E s : loopAt' = [loopAt EXCEPT ![b] = s]
    <3>1. CASE RequestStep
      <4>1. PICK d \in Base, a \in Addresses, use \in {"use", "plain"} :
              RecvRequest(d, a, use) \/ RecvUnknownRequest(d, a, use)
        BY <3>1 DEF RequestStep, Request
      <4>2. CASE RecvRequest(d, a, use)
        BY <4>2 DEF RecvRequest, Handle
      <4>3. CASE RecvUnknownRequest(d, a, use)
        BY <4>3 DEF RecvUnknownRequest
      <4> QED
        BY <4>1, <4>2, <4>3
    <3>2. CASE Adopt
      BY <3>2 DEF Adopt, AdoptPeerReflexive, Handle
    <3> QED
      BY <1>8, <3>1, <3>2
  <2>4. \A d \in Base : loopAt[d] = "result" =>
          loopAt'[d] = "result" /\ loopPair'[d] = loopPair[d]
    BY <2>3 DEF TypeInv, TypeOK, LoopType
  <2> QED
    BY <1>3, <2>1, <2>2, <2>4
<1>9. CASE Update \/ Trigger \/ AppendStep \/ Die
  <2>1. pairState[p] = "InProgress" /\ armed' = armed
    BY <1>9, MoreFrames DEF pairVars, checkVars
  <2>2. \A b \in Base : loopAt[b] = "result" =>
          loopAt'[b] = "result" /\ loopPair'[b] = loopPair[b]
    BY <1>9 DEF Update, UpdateState, Trigger, TriggerCheck, AppendStep,
       AppendTriggered, Die, BaseDies, TypeInv, TypeOK, LoopType
  <2> QED
    BY <1>3, <2>1, <2>2
<1>10. CASE FinishAddCandidate
  <2>1. pairState[p] = "InProgress"
    BY <1>10 DEF FinishAddCandidate
  <2> QED
    BY <1>3, <1>10, <2>1, Frames DEF checkVars, loopVars
<1>11. CASE PutHandler \/ Lose
  <2>1. pairState[p] = "InProgress" /\ armed' = armed /\ UNCHANGED loopVars
    BY <1>11, Frames DEF PutHandler, Lose, LoseCheck, pairVars
  <2> QED
    BY <1>3, <2>1 DEF loopVars
<1>12. CASE UNCHANGED <<pairVars, checkVars, loopVars>>
  BY <1>3, <1>12 DEF pairVars, checkVars, loopVars
<1> QED
  BY <1>4, <1>5, <1>6, <1>7, <1>8, <1>9, <1>10, <1>11, <1>12,
     NextCases, Frames, MoreFrames DEF vars

\* A pair in progress always has a timer that is pending or a response at hand.
THEOREM NoPairIsStuck == Spec => []InProgressMovesOn
<1>1. Init => InProgressMovesOn
  BY DEF Init, InProgressMovesOn
<1> QED
  BY <1>1, TypeCorrect, ProgressStep, PTL DEF Spec

----------------------------------------------------------------------------
(* Listeners.                                                              *)

\* Before the selection there is nothing to tell; after it, one notification.
NotifyInv ==
  /\ state = "Running" => notifying = 0 /\ token = 0 /\ current = None
  /\ NotifyNeverBlocks /\ ListenerWillBeTold

LEMMA NotifyStep == TypeInv /\ SelectionInv /\ NotifyInv /\ [Next]_vars => NotifyInv'
<1> SUFFICES ASSUME TypeInv, SelectionInv, NotifyInv, [Next]_vars PROVE NotifyInv'
  OBVIOUS
<1> USE DEF NotifyInv, NotifyNeverBlocks, ListenerWillBeTold, SelectionInv,
            SelectedIsUsable, TypeInv, TypeOK, SelectType, GetType
<1>1. CASE Update
  <2>1. UNCHANGED <<getter, current, token>>
    BY <1>1, MoreFrames DEF getVars
  <2> QED
    BY <1>1, <2>1 DEF Update, UpdateState, StillRunning, GoNotify, selectVars
<1>2. CASE NotifyListeners
  BY <1>2 DEF NotifyListeners, Listening
<1>3. CASE AddListener \/ CheckSelected \/ ListenerNotified \/ ListenerCancelled
  <2>1. UNCHANGED <<selected, state, notifying>>
    BY <1>3, MoreFrames DEF selectVars
  <2> QED
    BY <1>3, <2>1 DEF AddListener, CheckSelected, ListenerNotified, ListenerCancelled
<1>4. CASE UNCHANGED <<selectVars, getVars>>
  BY <1>4 DEF selectVars, getVars
<1> QED
  BY <1>1, <1>2, <1>3, <1>4, NextCases, Frames, MoreFrames DEF vars

\* notifyListeners never blocks and getSelected never sleeps through a change.
THEOREM ListenersAreTold == Spec => [](NotifyNeverBlocks /\ ListenerWillBeTold)
<1>1. Init => NotifyInv
  BY DEF Init, NotifyInv, NotifyNeverBlocks, ListenerWillBeTold
<1>2. NotifyInv => NotifyNeverBlocks /\ ListenerWillBeTold
  BY DEF NotifyInv
<1> QED
  BY <1>1, <1>2, TypeCorrect, SelectionCorrect, NotifyStep, PTL DEF Spec
============================================================================
