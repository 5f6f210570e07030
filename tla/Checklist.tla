----------------------------- MODULE Checklist -----------------------------
(***************************************************************************)
(* Connectivity checks and the choice of a candidate pair (internal/ice:   *)
(* checklist.go, the candidate handling and GetDataStream of agent.go, the *)
(* STUN transactions of base.go).  The agent is always the controlled one: *)
(* the peer nominates, the agent selects the first nominated pair that     *)
(* passes a check of its own.                                              *)
(*                                                                         *)
(* Goroutines: Checklist.run (Ta ticks), one readLoop per base, one timer  *)
(* callback per check, the adders of candidates, notifyListeners, and the  *)
(* caller of GetDataStream, which goes on watching the selected pair.  A   *)
(* critical section of Checklist.mutex is one action, except               *)
(* addCandidatePairs, because findPair reads the slice without the mutex.  *)
(* CandidatePair.state is read and written without it.                     *)
(***************************************************************************)
EXTENDS Integers, Sequences, FiniteSets

CONSTANTS
  Base,          \* local sockets
  Local,         \* local candidates
  Signalled,     \* remote candidates the peer signals
  Reflexive,     \* peer reflexive candidates that may be discovered
  BaseOf,        \* BaseOf[l]: Candidate.base of a local candidate
  Host,          \* the local candidates whose address is that of their base
  Address,       \* Address[r]: transport address of a remote candidate
  Compatible,    \* the pairs canBePaired accepts
  Priority,      \* Priority[p]: CandidatePair.Priority, ties broken
  MaxFailCount,  \* the 3 of p.failCount > 3
  MaxChecks,     \* bound: checks of one pair that can be open at once
  MaxTriggered,  \* bound: requests come while triggeredQueue is shorter
  Timely,        \* TRUE: every check is sent, and answered before its RTO
  MayStop,       \* bound: whether ctx may be done and sockets may die
  None

Remote == Signalled \cup Reflexive
Pair == Local \X Remote
Check == Pair \X (1 .. MaxChecks)   \* a check of c[1]

ASSUME BaseAssumption == BaseOf \in [Local -> Base]
ASSUME HostAssumption == Host \subseteq Local
ASSUME FiniteAssumption == IsFiniteSet(Local) /\ IsFiniteSet(Remote)
ASSUME RemoteAssumption == Signalled \cap Reflexive = {}
ASSUME PriorityAssumption ==
  /\ Priority \in [Pair -> Nat]
  /\ \A p, q \in Pair : Priority[p] = Priority[q] => p = q
ASSUME NoneAssumption ==
  None \notin Pair \cup Check \cup {"success", "error", "use", "plain"}
ASSUME BoundsAssumption ==
  /\ MaxFailCount \in Nat /\ MaxChecks \in Nat /\ MaxTriggered \in Nat
  /\ Timely \in BOOLEAN /\ MayStop \in BOOLEAN

VARIABLES
  \* agent.go
  locals,      \* Agent.localCandidates
  remotes,     \* Agent.remoteCandidates
  adding,      \* pairs being appended by addCandidatePairs, which holds mutex
  mutex,       \* "agent" while addCandidatePairs sorts and prunes, or "free"
  ctx,         \* the context: "live" or "done"
  \* checklist.go
  pairs,       \* Checklist.pairs; a set, since every change sorts the slice
  pairState,   \* CandidatePair.state
  adopted,     \* peer reflexive candidates already discovered
  nominated,   \* pairs whose nominated flag is set
  failCount,   \* CandidatePair.failCount
  triggered,   \* Checklist.triggeredQueue
  next,        \* Checklist.nextToCheck
  selected,    \* Checklist.selected
  state,       \* Checklist.state
  runAt,       \* where Checklist.run is
  runPair,     \* the pair nextPair returned to it
  runCheck,    \* the check it is sending
  armed,       \* checks whose retransmit timer is pending
  firing,      \* timer callbacks between p.state = Waiting and p.failCount++
  inflight,    \* checks whose answer may still arrive
  handlers,    \* checks with a registered transaction handler
  loopAt,      \* loopAt[b]: where readLoop of base b is
  loopPair,    \* the pair that the packet it handles is about
  packet,      \* what matters of that packet
  notifying,   \* pending notifyListeners goroutines
  getter,      \* where getSelected is
  current,     \* the pair the DataStream uses
  token,       \* number of values in getSelected's listener channel
  confirmed    \* history: pairs for which a check has succeeded

agentVars == <<locals, remotes, adding, mutex, ctx>>
pairVars == <<pairs, adopted, pairState, nominated, failCount, confirmed>>
queueVars == <<triggered, next>>
selectVars == <<selected, state, notifying>>
runVars == <<runAt, runPair, runCheck>>
checkVars == <<armed, firing, inflight, handlers>>
loopVars == <<loopAt, loopPair, packet>>
getVars == <<getter, current, token>>
vars == <<agentVars, pairVars, queueVars, selectVars, runVars, checkVars,
          loopVars, getVars>>

Init ==
  /\ locals = {} /\ remotes = {} /\ adding = {} /\ mutex = "free"
  /\ ctx = "live"
  /\ pairs = {} /\ adopted = {} /\ nominated = {} /\ confirmed = {}
  /\ pairState = [p \in Pair |-> "Frozen"] /\ failCount = [p \in Pair |-> 0]
  /\ triggered = <<>> /\ next = 0
  /\ selected = None /\ state = "Running" /\ notifying = 0
  /\ runAt = "idle" /\ runPair = None /\ runCheck = None
  /\ armed = {} /\ firing = {}
  /\ inflight = {} /\ handlers = {}
  /\ loopAt = [b \in Base |-> "idle"]
  /\ loopPair = [b \in Base |-> None] /\ packet = [b \in Base |-> None]
  /\ getter = "idle" /\ current = None /\ token = 0

----------------------------------------------------------------------------
(* Candidates: pairing, sorting and pruning.                               *)

\* [draft-ietf-ice-trickle-21 10] pairs sortAndPrune leaves alone.
Protected == {"InProgress", "Succeeded", "Failed"}

Redundant(p, q) ==
  Address[p[2]] = Address[q[2]] /\ BaseOf[p[1]] = BaseOf[q[1]]

\* The pairs before p in the sorted slice of the pairs P, and p's index.
Above(P, p) == {q \in P : Priority[q] > Priority[p]}
Index(P, p) == Cardinality(Above(P, p))

\* R are the pairs that sortAndPrune removes from P.  Removing an element moves
\* the one after it to the index the loop is about to leave: it is not examined.
IsPruning(P, R) ==
  \A p \in P : p \in R <=>
    /\ pairState[p] \notin Protected
    /\ \A q \in Above(P, p) : Index(P, q) + 1 = Index(P, p) => q \notin R
    /\ \E q \in Above(P, p) : q \notin R /\ Redundant(p, q)

\* addLocalCandidate and addRemoteCandidate up to the sorting: addCandidatePairs
\* holds the mutex and has appended the new pairs.
AddCandidate(newPairs) ==
  /\ mutex = "free"
  /\ mutex' = "agent"
  /\ adding' = newPairs \cap Compatible
  /\ UNCHANGED <<ctx, pairVars, queueVars, selectVars, runVars, checkVars,
                 loopVars, getVars>>

AddLocalCandidate(l) ==
  /\ l \notin locals
  /\ locals' = locals \cup {l} /\ UNCHANGED remotes
  /\ AddCandidate({l} \X remotes)

AddRemoteCandidate(r) ==
  /\ r \notin remotes
  /\ remotes' = remotes \cup {r} /\ UNCHANGED locals
  /\ AddCandidate(locals \X {r})

FinishAddCandidate ==
  LET P == pairs \cup adding IN
  /\ mutex = "agent"
  /\ \E R \in SUBSET P :
       /\ IsPruning(P, R)
       /\ pairs' = P \ R
       /\ pairState' = [p \in Pair |->
            IF p \in P \ R /\ pairState[p] = "Frozen" THEN "Waiting" ELSE pairState[p]]
  /\ adding' = {} /\ mutex' = "free"
  /\ UNCHANGED <<locals, remotes, ctx, adopted, nominated, failCount,
                 confirmed, queueVars, selectVars, runVars, checkVars, loopVars,
                 getVars>>

Cancel ==
  /\ MayStop /\ ctx = "live"
  /\ ctx' = "done"
  /\ UNCHANGED <<locals, remotes, adding, mutex, pairVars, queueVars, selectVars,
                 runVars, checkVars, loopVars, getVars>>

----------------------------------------------------------------------------
(* Checklist.run: connectivity checks and their timers.                    *)

WaitingPairs == {p \in pairs : pairState[p] = "Waiting"}

\* How far nextPair's circular scan goes before it meets p.
Distance(p) ==
  LET n == Cardinality(pairs) IN (Index(pairs, p) + n - (next % n)) % n

\* nextPair: a triggered check comes first, whatever the state of its pair.
NextPair ==
  /\ runAt = "idle" /\ mutex = "free"
  /\ \/ /\ triggered # <<>>
        /\ runPair' = Head(triggered)
        /\ triggered' = Tail(triggered)
        /\ UNCHANGED next
     \/ /\ triggered = <<>>
        /\ \E p \in WaitingPairs :
             /\ \A q \in WaitingPairs : Distance(p) <= Distance(q)
             /\ runPair' = p
             /\ next' = (Index(pairs, p) + 1) % Cardinality(pairs)
        /\ UNCHANGED triggered
  /\ runAt' = "picked"
  /\ UNCHANGED <<agentVars, pairVars, selectVars, runCheck, checkVars, loopVars,
                 getVars>>

ArmNothing(c) == armed                            \* mutant: no retransmit timer
Arm(c) == armed \cup {c}

\* sendCheck up to the write, which may fail; the timer is armed first.
SendCheck(c) ==
  /\ runAt = "picked" /\ c[1] = runPair
  /\ c \notin armed \cup firing \cup inflight
  /\ pairState' = [pairState EXCEPT ![runPair] = "InProgress"]
  /\ armed' = Arm(c)
  /\ \/ inflight' = inflight \cup {c} /\ runAt' = "written" /\ runCheck' = c
     \/ ~Timely /\ UNCHANGED inflight /\ runAt' = "idle" /\ UNCHANGED runCheck
  /\ runPair' = None
  /\ UNCHANGED <<agentVars, pairs, adopted, nominated, failCount, confirmed,
                 queueVars, selectVars, firing, handlers, loopVars, getVars>>

\* Base.sendStun registers the handler after the write.  A handler whose answer
\* has come or is lost is never called; it is left out.
PutHandler ==
  /\ runAt = "written"
  /\ handlers' = handlers \cup ({runCheck} \cap inflight)
  /\ runAt' = "idle" /\ runCheck' = None
  /\ UNCHANGED <<agentVars, pairVars, queueVars, selectVars, runPair, armed, firing, inflight, loopVars, getVars>>

RunStop ==
  /\ runAt = "idle" /\ ctx = "done"
  /\ runAt' = "stopped"
  /\ UNCHANGED <<agentVars, pairVars, queueVars, selectVars, runPair, runCheck,
                 checkVars, loopVars, getVars>>

\* The two halves of the callback given to AfterFunc; it takes no lock.
TimerFire(c) ==
  /\ c \in armed
  /\ Timely => c \notin inflight
  /\ pairState' = [pairState EXCEPT ![c[1]] = "Waiting"]
  /\ armed' = armed \ {c} /\ firing' = firing \cup {c}
  /\ UNCHANGED <<agentVars, pairs, adopted, nominated, failCount, confirmed,
                 queueVars, selectVars, runVars, inflight, handlers,
                 loopVars, getVars>>

\* p.failCount++; p.failCount > 3
TooManyFailures(p) == failCount[p] >= MaxFailCount

TimerCount(c) ==
  LET p == c[1] IN
  /\ c \in firing
  /\ firing' = firing \ {c}
  /\ IF TooManyFailures(p)
     THEN pairState' = [pairState EXCEPT ![p] = "Failed"] /\ UNCHANGED failCount
     ELSE failCount' = [failCount EXCEPT ![p] = @ + 1] /\ UNCHANGED pairState
  /\ UNCHANGED <<agentVars, pairs, adopted, nominated, confirmed, queueVars,
                 selectVars, runVars, armed, inflight, handlers, loopVars,
                 getVars>>

\* The request or its answer is lost.
LoseCheck(c) ==
  /\ ~Timely /\ c \in inflight
  /\ inflight' = inflight \ {c} /\ handlers' = handlers \ {c}
  /\ UNCHANGED <<agentVars, pairVars, queueVars, selectVars, runVars, armed, firing, loopVars, getVars>>

----------------------------------------------------------------------------
(* Base.readLoop: answers to checks.                                       *)

\* A response whose handler is not registered (yet) goes to Agent.handleStun,
\* which ignores it.  The handler stops its own timer only, and ignores the
\* response unless the pair is still InProgress.
RecvResponse(b, c, result) ==
  LET p == c[1] IN
  /\ loopAt[b] = "idle" /\ c \in inflight /\ BaseOf[p[1]] = b
  /\ Timely => c \in handlers
  /\ inflight' = inflight \ {c} /\ handlers' = handlers \ {c}
  /\ armed' = IF c \in handlers THEN armed \ {c} ELSE armed
  /\ IF c \in handlers /\ pairState[p] = "InProgress"
     THEN /\ loopAt' = [loopAt EXCEPT ![b] = "result"]
          /\ loopPair' = [loopPair EXCEPT ![b] = p]
          /\ packet' = [packet EXCEPT ![b] = result]
     ELSE UNCHANGED loopVars
  /\ UNCHANGED <<agentVars, pairVars, queueVars, selectVars, runVars, firing, getVars>>

SetResult(b) ==
  LET p == loopPair[b] IN
  /\ loopAt[b] = "result"
  /\ IF packet[b] = "success"
     THEN /\ pairState' = [pairState EXCEPT ![p] = "Succeeded"]
          /\ confirmed' = confirmed \cup {p}
     ELSE /\ pairState' = [pairState EXCEPT ![p] = "Failed"]
          /\ UNCHANGED confirmed
  /\ loopAt' = [loopAt EXCEPT ![b] = "update"]
  /\ UNCHANGED <<agentVars, pairs, adopted, nominated, failCount, queueVars,
                 selectVars, runVars, checkVars, loopPair, packet, getVars>>

----------------------------------------------------------------------------
(* Base.readLoop: requests from the peer.                                  *)

\* findPair compares the local address, so only a host candidate's pair is found.
Matches(P, b, a) ==
  {p \in P : p[1] \in Host /\ BaseOf[p[1]] = b /\ Address[p[2]] = a}

\* The request asks to nominate a pair that is not nominated yet.
Nominates(p, use) == use = "use" /\ p \notin nominated

AfterNominationNothing == "trigger"               \* mutant: no updateState
AfterNomination == "update"

\* handleStunRequest goes on with pair p: nominate, then updateState.
Handle(b, p, use) ==
  /\ loopPair' = [loopPair EXCEPT ![b] = p]
  /\ packet' = [packet EXCEPT ![b] = use]
  /\ nominated' = IF Nominates(p, use) THEN nominated \cup {p} ELSE nominated
  /\ loopAt' = [loopAt EXCEPT ![b] = IF Nominates(p, use) THEN AfterNomination
                                                            ELSE "trigger"]

\* A binding request from address a whose pair findPair finds.  It reads the
\* slice without the mutex: while addCandidatePairs works on it, findPair may
\* see the new pairs too.
RecvRequest(b, a, use) ==
  /\ loopAt[b] = "idle"
  /\ \E p \in Matches(pairs \cup adding, b, a) :
       /\ mutex = "free" =>
            \A q \in Matches(pairs, b, a) : Priority[p] >= Priority[q]
       /\ Handle(b, p, use)
       /\ pairState' = IF Nominates(p, use) /\ pairState[p] = "Frozen"
                       THEN [pairState EXCEPT ![p] = "Waiting"] ELSE pairState
  /\ UNCHANGED <<agentVars, pairs, adopted, failCount, confirmed, queueVars,
                 selectVars, runVars, checkVars, getVars>>

\* A binding request for which findPair finds no pair, or misses the one that
\* addCandidatePairs is moving.
RecvUnknownRequest(b, a, use) ==
  /\ loopAt[b] = "idle"
  /\ mutex = "free" => Matches(pairs, b, a) = {}
  /\ \E l \in Host, r \in Reflexive \ adopted :
       /\ BaseOf[l] = b /\ Address[r] = a
       /\ adopted' = adopted \cup {r}
       /\ loopPair' = [loopPair EXCEPT ![b] = <<l, r>>]
  /\ packet' = [packet EXCEPT ![b] = use]
  /\ loopAt' = [loopAt EXCEPT ![b] = "adopt"]
  /\ UNCHANGED <<agentVars, pairs, pairState, nominated, failCount, confirmed,
                 queueVars, selectVars, runVars, checkVars, getVars>>

\* adoptPeerReflexiveCandidate.  The new pair may itself be pruned: the rest of
\* the handler uses it all the same.
AdoptPeerReflexive(b) ==
  LET p == loopPair[b]
      P == pairs \cup {p} IN
  /\ loopAt[b] = "adopt" /\ mutex = "free"
  /\ \E R \in SUBSET P : IsPruning(P, R) /\ pairs' = P \ R
  /\ pairState' = [pairState EXCEPT ![p] = "Waiting"]
  /\ Handle(b, p, packet[b])
  /\ UNCHANGED <<agentVars, adopted, failCount, confirmed, queueVars, selectVars,
                 runVars, checkVars, getVars>>

StillRunning == state = "Running"

EligibleUnnominated(p) == pairState[p] = "Succeeded"   \* mutant: not nominated
Eligible(p) == p \in nominated /\ pairState[p] = "Succeeded"

NotifyNobody == notifying                         \* mutant: no notification
GoNotify == notifying + 1

\* updateState.  It ends the handler of a response; a request goes on.
UpdateState(b) ==
  LET p == loopPair[b] IN
  /\ loopAt[b] = "update" /\ mutex = "free"
  /\ IF StillRunning /\ Eligible(p)
     THEN /\ selected' = IF selected = None \/ Priority[p] > Priority[selected]
                         THEN p ELSE selected
          /\ state' = "Completed"
          /\ notifying' = GoNotify
     ELSE UNCHANGED selectVars
  /\ IF packet[b] = "use"
     THEN loopAt' = [loopAt EXCEPT ![b] = "trigger"] /\ UNCHANGED <<loopPair, packet>>
     ELSE /\ loopAt' = [loopAt EXCEPT ![b] = "idle"]
          /\ loopPair' = [loopPair EXCEPT ![b] = None]
          /\ packet' = [packet EXCEPT ![b] = None]
  /\ UNCHANGED <<agentVars, pairVars, queueVars, runVars, checkVars, getVars>>

\* triggerCheck looks at the state before it takes the mutex.
TriggerCheck(b) ==
  /\ loopAt[b] = "trigger"
  /\ IF pairState[loopPair[b]] \in {"Frozen", "Waiting"}
     THEN loopAt' = [loopAt EXCEPT ![b] = "append"] /\ UNCHANGED <<loopPair, packet>>
     ELSE /\ loopAt' = [loopAt EXCEPT ![b] = "idle"]
          /\ loopPair' = [loopPair EXCEPT ![b] = None]
          /\ packet' = [packet EXCEPT ![b] = None]
  /\ UNCHANGED <<agentVars, pairVars, queueVars, selectVars, runVars, checkVars,
                 getVars>>

AppendTriggered(b) ==
  /\ loopAt[b] = "append" /\ mutex = "free"
  /\ triggered' = Append(triggered, loopPair[b])
  /\ loopAt' = [loopAt EXCEPT ![b] = "idle"]
  /\ loopPair' = [loopPair EXCEPT ![b] = None]
  /\ packet' = [packet EXCEPT ![b] = None]
  /\ UNCHANGED <<agentVars, pairVars, next, selectVars, runVars, checkVars, getVars>>

\* No packet for timeoutReadFromBase, or a read error: readLoop ends.
BaseDies(b) ==
  /\ MayStop /\ loopAt[b] = "idle"
  /\ loopAt' = [loopAt EXCEPT ![b] = "dead"]
  /\ UNCHANGED <<agentVars, pairVars, queueVars, selectVars, runVars, checkVars,
                 loopPair, packet, getVars>>

----------------------------------------------------------------------------
(* getSelected, called by GetDataStream and then by its watcher.           *)

Listening == getter \in {"check", "wait"}

AddListener ==
  /\ getter = "idle" /\ mutex = "free"
  /\ getter' = "check" /\ token' = 0
  /\ UNCHANGED <<agentVars, pairVars, queueVars, selectVars, runVars, checkVars,
                 loopVars, current>>

\* The listener is removed when getSelected returns.
CheckSelected ==
  /\ getter = "check"
  /\ IF selected # current
     THEN /\ mutex = "free"
          /\ getter' = "idle" /\ current' = selected /\ token' = 0
     ELSE getter' = "wait" /\ UNCHANGED <<current, token>>
  /\ UNCHANGED <<agentVars, pairVars, queueVars, selectVars, runVars, checkVars,
                 loopVars>>

ListenerNotified ==
  /\ getter = "wait" /\ token = 1
  /\ getter' = "check" /\ token' = 0
  /\ UNCHANGED <<agentVars, pairVars, queueVars, selectVars, runVars, checkVars,
                 loopVars, current>>

ListenerCancelled ==
  /\ getter = "wait" /\ ctx = "done"
  /\ getter' = "stopped" /\ token' = 0
  /\ UNCHANGED <<agentVars, pairVars, queueVars, selectVars, runVars, checkVars,
                 loopVars, current>>

\* notifyListeners sends with the mutex held; the channel has room for one value.
NotifyListeners ==
  /\ notifying > 0 /\ mutex = "free"
  /\ Listening => token = 0
  /\ notifying' = notifying - 1
  /\ token' = IF Listening THEN 1 ELSE 0
  /\ UNCHANGED <<agentVars, pairVars, queueVars, selected, state, runVars,
                 checkVars, loopVars, getter, current>>

----------------------------------------------------------------------------
Addresses == {Address[r] : r \in Remote}

RunStep == NextPair \/ PutHandler \/ \E c \in Check : SendCheck(c)

LoopStep(b) == \/ SetResult(b) \/ AdoptPeerReflexive(b) \/ UpdateState(b)
               \/ TriggerCheck(b) \/ AppendTriggered(b)

ListenerStep == AddListener \/ CheckSelected \/ ListenerNotified

\* The next request comes while triggeredQueue has room under its bound.
Request(b) == /\ Len(triggered) < MaxTriggered
              /\ \E a \in Addresses, use \in {"use", "plain"} :
                   RecvRequest(b, a, use) \/ RecvUnknownRequest(b, a, use)

Response(b, c) == \E result \in {"success", "error"} : RecvResponse(b, c, result)

Next ==
  \/ \E l \in Local : AddLocalCandidate(l)
  \/ \E r \in Signalled : AddRemoteCandidate(r)
  \/ FinishAddCandidate \/ Cancel
  \/ RunStep \/ RunStop
  \/ \E c \in Check : TimerFire(c) \/ TimerCount(c) \/ LoseCheck(c)
  \/ \E b \in Base : \/ \E c \in Check : Response(b, c)
                      \/ Request(b) \/ LoopStep(b) \/ BaseDies(b)
  \/ ListenerStep \/ ListenerCancelled
  \/ NotifyListeners

Spec == Init /\ [][Next]_vars

\* Goroutines that can run do run and timers expire.  Neither candidates nor
\* requests have to come, contexts need not be cancelled; when Timely, the peer
\* answers and its answer is read however many requests are read before it.
Fairness ==
  /\ WF_vars(FinishAddCandidate)
  /\ WF_vars(RunStep)
  /\ \A c \in Check : WF_vars(TimerFire(c)) /\ WF_vars(TimerCount(c))
  /\ \A b \in Base : /\ WF_vars(LoopStep(b))
                      /\ \A c \in Check : SF_vars(Timely /\ Response(b, c))
  /\ WF_vars(ListenerStep) /\ WF_vars(NotifyListeners)

FairSpec == Spec /\ Fairness

----------------------------------------------------------------------------
(* Properties.                                                             *)

AgentType ==
  /\ locals \in SUBSET Local /\ remotes \in SUBSET Signalled
  /\ adding \in SUBSET Pair /\ mutex \in {"free", "agent"}
  /\ ctx \in {"live", "done"}

PairType ==
  /\ pairs \in SUBSET Pair /\ adopted \in SUBSET Reflexive
  /\ pairState \in [Pair -> {"Frozen", "Waiting"} \cup Protected]
  /\ nominated \in SUBSET Pair /\ confirmed \in SUBSET Pair
  /\ failCount \in [Pair -> 0 .. MaxFailCount]

QueueType == triggered \in Seq(Pair) /\ next \in Nat

SelectType ==
  /\ selected \in Pair \cup {None} /\ state \in {"Running", "Completed"}
  /\ notifying \in Nat

RunType ==
  /\ runAt \in {"idle", "picked", "written", "stopped"}
  /\ runPair \in Pair \cup {None} /\ runCheck \in Check \cup {None}

CheckType ==
  /\ armed \in SUBSET Check /\ firing \in SUBSET Check
  /\ inflight \in SUBSET Check /\ handlers \in SUBSET Check

LoopType ==
  /\ loopAt \in [Base -> {"idle", "result", "update", "adopt", "trigger",
                          "append", "dead"}]
  /\ loopPair \in [Base -> Pair \cup {None}]
  /\ packet \in [Base -> {None, "success", "error", "use", "plain"}]

GetType ==
  /\ getter \in {"idle", "check", "wait", "stopped"}
  /\ current \in Pair \cup {None} /\ token \in {0, 1}

TypeOK == /\ AgentType /\ PairType /\ QueueType /\ SelectType
          /\ RunType /\ CheckType /\ LoopType /\ GetType

\* updateState only selects a pair the peer has nominated and a check of our own
\* has confirmed, and the checklist is Completed exactly when there is one.
SelectedIsUsable ==
  /\ (selected = None) = (state = "Running")
  /\ selected # None => selected \in nominated \cap confirmed

\* Once made, the selection is final: the DataStream that GetDataStream returned
\* never moves to another pair, whatever is nominated or succeeds later.
SelectionIsFinal == [][selected # None => selected' = selected]_vars

\* A nominated pair that has succeeded is never overlooked: nomination and
\* success may come in either order, and while neither handler is about to call
\* updateState the checklist has been completed.
NoMissedSelection ==
  \A p \in nominated : pairState[p] = "Succeeded" =>
    \/ state = "Completed"
    \/ loopAt[BaseOf[p[1]]] = "update" /\ loopPair[BaseOf[p[1]]] = p

\* A pair never stays InProgress for good: some timer or some response that has
\* been read will move it on, although responses stop only their own timer.
InProgressMovesOn ==
  \A p \in Pair : pairState[p] = "InProgress" =>
    \/ \E c \in armed : c[1] = p
    \/ loopAt[BaseOf[p[1]]] = "result" /\ loopPair[BaseOf[p[1]]] = p

\* getSelected is never left waiting for a change that has already happened.
ListenerWillBeTold ==
  getter = "wait" /\ selected # current => token = 1 \/ notifying > 0

\* notifyListeners never has to wait for room in a listener's channel, which it
\* would do with the checklist's mutex held.
NotifyNeverBlocks ==
  notifying > 0 => notifying = 1 /\ token = 0

\* GetDataStream learns of the selection.
SelectionReachesStream ==
  selected # None ~> (current = selected \/ getter = "stopped")

\* When the peer answers every check in time, nominating a pair leads to a
\* selection, unless the pair fails its check or its socket dies.
NominationCompletes ==
  \A p \in Pair :
    p \in nominated ~> \/ state = "Completed" \/ pairState[p] = "Failed"
                      \/ ctx = "done" \/ loopAt[BaseOf[p[1]]] = "dead"

============================================================================
