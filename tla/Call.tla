-------------------------------- MODULE Call --------------------------------
(***************************************************************************)
(* One call: the signaling session (internal/signaling, cmd/alohartcd),    *)
(* the peer connection (peer_connection.go) and the goroutines of the ICE  *)
(* agent (internal/ice/agent.go) that it starts, with the mDNS client that *)
(* resolves the names among the peer's candidates.                         *)
(*                                                                         *)
(* The caller sends an offer, candidates and the end of candidates over a  *)
(* websocket, whose page may go away at any time, or over MQTT, where the  *)
(* session never ends.  What the checklist, DTLS and RTP do is what Stream *)
(* waits for: a selection, a handshake, the end of the data stream.        *)
(***************************************************************************)
EXTENDS Mdns

CONSTANTS Scenarios,     \* scope, transport and script of the calls
          Offer, End,    \* messages that are no candidates
          Direct,        \* candidates with a UDP address
          Ignored,       \* candidates of other protocols
          CandCap,       \* 4, capacity of remoteCandidates
          LcandCap,      \* 2, capacity of lcand
          Locals         \* number of local candidates

Candidate == Resolver \cup Direct \cup Ignored

ASSUME CallAssumption ==
  /\ Scenarios \subseteq [scope : {"call", "names"}, transport : {"websocket", "mqtt"},
                           script : Seq(Candidate \cup {Offer, End})]
  /\ CandCap \in Nat \ {0} /\ LcandCap \in Nat \ {0} /\ Locals \in Nat
  /\ Offer \notin Candidate /\ End \notin Candidate /\ Offer # End
  /\ Resolver \cap (Direct \cup Ignored) = {} /\ Direct \cap Ignored = {}
  /\ \A s \in Scenarios : \A j, k \in DOMAIN s.script :
       s.script[j] = s.script[k] => j = k

VARIABLES
  scope,                 \* "call", or "names" for Resolve alone, over a long time
  transport,             \* the listener: "websocket", "mqtt"
  script, nread,         \* what the caller sends, and how much has been read
  ws,                    \* the page's end of the websocket
  wsLoop,                \* the goroutine that handles the messages in turn
  rcandCh,               \* the session's channel of candidates: "open", "closed"
  ctx,                   \* the context of the peer connection
  handler,               \* doPeerSession with Stream
  forwarder, held,       \* its goroutine that passes candidates on
  queue,                 \* contents of the channel remoteCandidates
  remoteCandidates,      \* the field: "chan", or "nil" when the channel is closed
  gatherer,              \* startGathering
  rcand,                 \* the channel it gave to the agent
  agent,                 \* Agent.connect
  remoteLoop,            \* addAllRemoteCandidates
  gathering,             \* the goroutine that gathers local candidates
  left, lcand,           \* local candidates to gather, and in the channel
  added,                 \* remote candidates the agent has
  dropped,               \* history: candidates that were given up
  base, peer,            \* the socket of the selected pair, and the peer
  sendVideo, process

signalVars == <<scope, transport, script, nread, ws, wsLoop, rcandCh>>
candidateVars == <<forwarder, held, queue, remoteCandidates>>
gatherVars == <<gatherer, rcand, gathering, left, lcand>>
agentVars == <<agent, remoteLoop, added, dropped>>
streamVars == <<handler, base, sendVideo>>
callVars == <<signalVars, candidateVars, gatherVars, agentVars, streamVars, ctx, peer, process>>
vars == <<callVars, mdnsVars>>

Message == script[nread]

Init ==
  /\ \E s \in Scenarios : scope = s.scope /\ transport = s.transport /\ script = s.script
  /\ nread = 0
  /\ ws = "open" /\ wsLoop = "reading" /\ rcandCh = "open" /\ ctx = "live"
  /\ handler = "waiting" /\ forwarder = "none" /\ held = End
  /\ queue = <<>> /\ remoteCandidates = "chan"
  /\ gatherer = "none" /\ rcand = "unset" /\ agent = "none" /\ remoteLoop = "none"
  /\ gathering = "none" /\ left = Locals /\ lcand = 0
  /\ added = {} /\ dropped = {}
  /\ base = "none" /\ peer = "alive"
  /\ sendVideo = "none" /\ process = "up"
  /\ MdnsInit(IF scope = "names" THEN "started" ELSE "none")

----------------------------------------------------------------------------
(* Signaling.                                                              *)

\* An offer or a candidate is sent on an unbuffered channel, the end of
\* candidates closes one.
HandleMessage ==
  LET m == script[nread + 1] IN
  /\ wsLoop = "reading" /\ nread < Len(script)
  /\ nread' = nread + 1
  /\ IF m = End THEN rcandCh' = "closed" /\ UNCHANGED wsLoop
                ELSE wsLoop' = "sending" /\ UNCHANGED rcandCh
  /\ UNCHANGED <<scope, transport, script, ws, candidateVars, gatherVars, agentVars, streamVars,
                 ctx, peer, process, mdnsVars>>

ReadJSON == transport = "websocket" /\ HandleMessage
OnPublish == transport = "mqtt" /\ HandleMessage

ClosePage ==
  /\ transport = "websocket" /\ ws = "open"
  /\ ws' = "closed"
  /\ UNCHANGED <<scope, transport, script, nread, wsLoop, rcandCh, candidateVars, gatherVars,
                 agentVars, streamVars, ctx, peer, process, mdnsVars>>

\* The handler returns and cancels the context of the session.
ReadFails ==
  /\ wsLoop = "reading" /\ ws = "closed"
  /\ wsLoop' = "ended" /\ ctx' = "done"
  /\ UNCHANGED <<scope, transport, script, nread, ws, rcandCh, candidateVars, gatherVars, agentVars,
                 streamVars, peer, process, mdnsVars>>

\* A write to the websocket while the other goroutine that writes, whose state is
\* `other`, is writing too may panic; to a page that is gone it may fail, which
\* is fatal.
MayExit(other) ==
  \/ UNCHANGED process
  \/ /\ transport = "websocket" /\ (ws = "closed" \/ other = "writing")
     /\ process' = "exited"

----------------------------------------------------------------------------
(* doPeerSession and Stream.                                               *)

\* SetRemoteDescription starts the gathering before it returns the answer.
TakeOffer ==
  /\ handler = "waiting" /\ wsLoop = "sending" /\ Message = Offer
  /\ wsLoop' = "reading" /\ handler' = "writing" /\ gatherer' = "started"
  /\ UNCHANGED <<scope, transport, script, nread, ws, rcandCh, candidateVars, rcand, gathering, left, lcand,
                 agentVars, base, sendVideo, ctx, peer, process, mdnsVars>>

\* The session ends before there was an offer: log.Fatal.
NoOffer ==
  /\ handler = "waiting" /\ ctx = "done"
  /\ process' = "exited"
  /\ UNCHANGED <<signalVars, candidateVars, gatherVars, agentVars, streamVars, ctx, peer,
                 mdnsVars>>

\* The answer is written, candidates are passed on, and Stream is called.
SendAnswer ==
  /\ handler = "writing"
  /\ MayExit(gatherer)
  /\ handler' = "entering" /\ forwarder' = "reading"
  /\ UNCHANGED <<signalVars, held, queue, remoteCandidates, gatherVars, agentVars, base, sendVideo, ctx, peer, mdnsVars>>

\* GetDataStream looks once whether the agent has failed.
EnterStream ==
  /\ handler = "entering"
  /\ handler' = IF agent = "failed" THEN "returning" ELSE "connecting"
  /\ UNCHANGED <<signalVars, candidateVars, gatherVars, agentVars, base, sendVideo,
                 ctx, peer, process, mdnsVars>>

Connected ==
  /\ handler = "connecting" /\ base # "none"
  /\ handler' = "handshaking"
  /\ UNCHANGED <<signalVars, candidateVars, gatherVars, agentVars, base, sendVideo,
                 ctx, peer, process, mdnsVars>>

\* connectTimeout, or the context is done.
ConnectFails ==
  /\ handler = "connecting"
  /\ handler' = "returning"
  /\ UNCHANGED <<signalVars, candidateVars, gatherVars, agentVars, base, sendVideo,
                 ctx, peer, process, mdnsVars>>

HandshakeDone ==
  /\ handler = "handshaking" /\ base = "alive" /\ peer = "alive"
  /\ handler' = "serving" /\ sendVideo' = "running"
  /\ UNCHANGED <<signalVars, candidateVars, gatherVars, agentVars, base, ctx, peer,
                 process, mdnsVars>>

Closed == IF base = "alive" THEN "closed" ELSE base

\* The peer refuses, or the mux fails with the data stream, and the handshake with
\* the mux; the deferred calls close both.  The handshake does not look at the
\* context.
HandshakeFails ==
  /\ handler = "handshaking" /\ (base = "dead" \/ peer = "alive")
  /\ handler' = "returning" /\ base' = Closed
  /\ UNCHANGED <<signalVars, candidateVars, gatherVars, agentVars, sendVideo, ctx,
                 peer, process, mdnsVars>>

MustEndDeaf == ctx = "done"                        \* mutant: a dead stream is not seen
MustEnd == ctx = "done" \/ base = "dead"

StreamEnds ==
  /\ handler = "serving" /\ MustEnd
  /\ handler' = "returning" /\ base' = Closed
  /\ UNCHANGED <<signalVars, candidateVars, gatherVars, agentVars, sendVideo, ctx,
                 peer, process, mdnsVars>>

\* The deferred calls of doPeerSession.
Return ==
  /\ handler = "returning"
  /\ handler' = "ended" /\ ctx' = "done"
  /\ UNCHANGED <<signalVars, candidateVars, gatherVars, agentVars, base, sendVideo,
                 peer, process, mdnsVars>>

\* quit is closed, or a write fails.
SendVideoEnds ==
  /\ sendVideo = "running" /\ (ctx = "done" \/ base \in {"closed", "dead"})
  /\ sendVideo' = "ended"
  /\ UNCHANGED <<signalVars, candidateVars, gatherVars, agentVars, handler, base,
                 ctx, peer, process, mdnsVars>>

----------------------------------------------------------------------------
(* Candidates of the peer.                                                 *)

TakeCandidate ==
  /\ forwarder = "reading" /\ wsLoop = "sending" /\ Message # Offer
  /\ wsLoop' = "reading" /\ forwarder' = "adding" /\ held' = Message
  /\ UNCHANGED <<scope, transport, script, nread, ws, rcandCh, queue, remoteCandidates, gatherVars, agentVars,
                 streamVars, ctx, peer, process, mdnsVars>>

AddIceCandidate ==
  /\ forwarder = "adding"
  /\ forwarder' = "reading" /\ held' = End
  /\ \/ Len(queue) < CandCap /\ queue' = Append(queue, held) /\ UNCHANGED dropped
     \/ ctx = "done" /\ dropped' = dropped \cup {held} /\ UNCHANGED queue
  /\ UNCHANGED <<signalVars, remoteCandidates, gatherVars, agent, remoteLoop, added,
                 streamVars, ctx, peer, process, mdnsVars>>

\* The channel is closed, and the field forgets it.
EndOfCandidates ==
  /\ forwarder = "reading" /\ rcandCh = "closed"
  /\ forwarder' = "ended" /\ remoteCandidates' = "nil"
  /\ UNCHANGED <<signalVars, held, queue, gatherVars, agentVars, streamVars, ctx, peer,
                 process, mdnsVars>>

AddedAtOnceAny(c) == c \notin Ignored              \* mutant: not only resolved ones
AddedAtOnce(c) == c \in Direct

\* A name is resolved in a goroutine of its own.
TakeRemote ==
  LET c == Head(queue) IN
  /\ remoteLoop = "running" /\ rcand = "chan" /\ queue # <<>>
  /\ queue' = Tail(queue)
  /\ added' = IF AddedAtOnce(c) THEN added \cup {c} ELSE added
  /\ dropped' = IF c \in Ignored THEN dropped \cup {c} ELSE dropped
  /\ resolver' = [r \in Resolver |-> IF r = c THEN [resolver[r] EXCEPT !.at = "started"]
                                              ELSE resolver[r]]
  /\ UNCHANGED <<signalVars, forwarder, held, remoteCandidates, gatherVars, agent, remoteLoop,
                 streamVars, ctx, peer, process, records, cache, pruneSize, pruning>>

\* The channel is drained and closed, or the context is done.  From a nil
\* channel nothing comes.
RemoteLoopEnds ==
  /\ remoteLoop = "running"
  /\ \/ rcand = "chan" /\ queue = <<>> /\ remoteCandidates = "nil"
     \/ ctx = "done"
  /\ remoteLoop' = "ended"
  /\ UNCHANGED <<signalVars, candidateVars, gatherVars, agent, added, dropped, streamVars,
                 ctx, peer, process, mdnsVars>>

\* Resolve has returned.
AddResolved(r) ==
  /\ resolver[r].at \in {"resolved", "failed"}
  /\ At(r, "ended")
  /\ IF resolver[r].at = "resolved" THEN added' = added \cup {r} /\ UNCHANGED dropped
                                    ELSE dropped' = dropped \cup {r} /\ UNCHANGED added
  /\ UNCHANGED <<signalVars, candidateVars, gatherVars, agent, remoteLoop, streamVars, ctx,
                 peer, process, records, cache, pruneSize, pruning>>

----------------------------------------------------------------------------
(* Local candidates, and the agent.                                        *)

\* The field is read whenever the goroutine comes to run.
StartGathering ==
  /\ gatherer = "started"
  /\ gatherer' = "running" /\ rcand' = remoteCandidates /\ agent' = "starting"
  /\ UNCHANGED <<signalVars, candidateVars, gathering, left, lcand, remoteLoop, added,
                 dropped, streamVars, ctx, peer, process, mdnsVars>>

Connect ==
  /\ agent = "starting"
  /\ \/ agent' = "running" /\ remoteLoop' = "running" /\ gathering' = "running"
     \/ agent' = "failed" /\ gathering' = "ended" /\ UNCHANGED remoteLoop
  /\ UNCHANGED <<signalVars, candidateVars, gatherer, rcand, left, lcand, added, dropped,
                 streamVars, ctx, peer, process, mdnsVars>>

GatherLocal ==
  /\ gathering = "running" /\ left > 0 /\ lcand < LcandCap
  /\ left' = left - 1 /\ lcand' = lcand + 1
  /\ UNCHANGED <<signalVars, candidateVars, gatherer, rcand, gathering, agentVars,
                 streamVars, ctx, peer, process, mdnsVars>>

GatheringEnds ==
  /\ gathering = "running" /\ (left = 0 \/ ctx = "done")
  /\ gathering' = "ended"
  /\ UNCHANGED <<signalVars, candidateVars, gatherer, rcand, left, lcand, agentVars,
                 streamVars, ctx, peer, process, mdnsVars>>

\* A local candidate, or the end of them, goes to the page.
TakeLocal ==
  /\ gatherer = "running" /\ (lcand > 0 \/ gathering = "ended")
  /\ gatherer' = "writing"
  /\ UNCHANGED <<signalVars, candidateVars, rcand, gathering, left, lcand, agentVars,
                 streamVars, ctx, peer, process, mdnsVars>>

SendLocalCandidate ==
  /\ gatherer = "writing"
  /\ MayExit(handler)
  /\ IF lcand > 0 THEN lcand' = lcand - 1 /\ gatherer' = "running"
                  ELSE gatherer' = "ended" /\ UNCHANGED lcand
  /\ UNCHANGED <<signalVars, candidateVars, rcand, gathering, left, agentVars, streamVars,
                 ctx, peer, mdnsVars>>

GathererEnds ==
  /\ gatherer = "running" /\ ctx = "done"
  /\ gatherer' = "ended"
  /\ UNCHANGED <<signalVars, candidateVars, rcand, gathering, left, lcand, agentVars,
                 streamVars, ctx, peer, process, mdnsVars>>

----------------------------------------------------------------------------
(* What Stream waits for.                                                  *)

\* A pair is selected; it may be one of a peer reflexive candidate.
Select ==
  /\ agent = "running" /\ base = "none" /\ ctx = "live"
  /\ forwarder # "none" /\ left < Locals
  /\ base' = "alive"
  /\ UNCHANGED <<signalVars, candidateVars, gatherVars, agentVars, handler, sendVideo, ctx,
                 peer, process, mdnsVars>>

\* Before a pair is selected, a peer that is gone is one for which none is.
PeerLeaves ==
  /\ base # "none" /\ peer = "alive" /\ peer' = "gone"
  /\ UNCHANGED <<signalVars, candidateVars, gatherVars, agentVars, streamVars, ctx, process,
                 mdnsVars>>

\* The read loop of the socket ends: it was closed, or nothing came for
\* timeoutReadFromBase.
BaseDies ==
  /\ base \in {"alive", "closed"}
  /\ base' = "dead"
  /\ UNCHANGED <<signalVars, candidateVars, gatherVars, agentVars, handler, sendVideo, ctx, peer, process, mdnsVars>>

----------------------------------------------------------------------------
\* Records outlive a call; with scope "names" they expire, and names are answered
\* for that nobody has asked for.
Next ==
  \/ /\ scope = "call" /\ process = "up"
     /\ \/ ReadJSON \/ OnPublish \/ ClosePage \/ ReadFails
        \/ NoOffer \/ TakeOffer \/ SendAnswer \/ EnterStream \/ Connected \/ ConnectFails
        \/ HandshakeDone \/ HandshakeFails \/ StreamEnds \/ Return \/ SendVideoEnds
        \/ TakeCandidate \/ AddIceCandidate \/ EndOfCandidates \/ TakeRemote \/ RemoteLoopEnds
        \/ StartGathering \/ Connect \/ GatherLocal \/ GatheringEnds
        \/ TakeLocal \/ SendLocalCandidate \/ GathererEnds
        \/ Select \/ PeerLeaves \/ BaseDies
        \/ \E r \in Resolver : AddResolved(r)
        \/ /\ ClientStep(DOMAIN cache, {FALSE}) \/ \E r \in Resolver : ResolverStep(r)
           /\ UNCHANGED callVars
  \/ scope = "names" /\ MdnsNext /\ UNCHANGED callVars

Spec == Init /\ [][Next]_vars

\* What the goroutines of a call do by themselves.
Progress ==
  \/ ReadFails \/ NoOffer \/ TakeOffer \/ SendAnswer \/ EnterStream \/ ConnectFails
  \/ StreamEnds \/ Return \/ SendVideoEnds
  \/ base = "dead" /\ HandshakeFails
  \/ TakeCandidate \/ AddIceCandidate \/ EndOfCandidates \/ TakeRemote \/ RemoteLoopEnds
  \/ StartGathering \/ Connect \/ GatherLocal \/ GatheringEnds
  \/ TakeLocal \/ SendLocalCandidate \/ GathererEnds
  \/ (peer = "gone" \/ base = "closed") /\ BaseDies
  \/ \E r \in Resolver : AddResolved(r) \/ (ResolverStep(r) /\ UNCHANGED callVars)

\* Goroutines run, reads and writes of sockets return, and timers fire: Resolve
\* and GetDataStream give up, and a socket dies that hears nothing or is closed.
\* A call takes finitely many steps, so this follows from the fairness of each
\* goroutine.  Neither caller nor peer has to do anything, and no handshake has
\* to complete.
Fairness == WF_vars(process = "up" /\ scope = "call" /\ Progress)

FairSpec == Spec /\ Fairness

----------------------------------------------------------------------------
(* Properties.                                                             *)

\* Where the candidate c is, of the places it can be in.
Places(c) ==
  {p \in {"script", "signaling", "forwarder", "queue", "resolver", "added", "dropped"} :
     \/ p = "script" /\ \E i \in nread + 1 .. Len(script) : script[i] = c
     \/ p = "signaling" /\ wsLoop = "sending" /\ Message = c
     \/ p = "forwarder" /\ forwarder = "adding" /\ held = c
     \/ p = "queue" /\ \E i \in 1 .. Len(queue) : queue[i] = c
     \/ p = "resolver" /\ c \in Resolver /\ resolver[c].at \notin {"none", "ended"}
     \/ p = "added" /\ c \in added
     \/ p = "dropped" /\ c \in dropped}

\* A candidate of the caller is in exactly one place on its way through the
\* signaling loop, the forwarding goroutine, the channel and the resolvers to the
\* agent: none is lost, repeated, or added after it was given up.
CandidatesConserved ==
  scope = "call" =>
    \A c \in Candidate :
      (\E i \in DOMAIN script : script[i] = c) => \E p \in Places(c) : Places(c) = {p}

InFlight ==
  \E c \in Candidate : Places(c) \cap {"signaling", "forwarder", "queue", "resolver"} # {}

\* The candidates that were read reach the agent or are given up, unless the call
\* ends, or end-of-candidates came before startGathering had read the channel
\* (peer_connection.go:341): then the agent waits for a nil channel.
CandidatesReachAgent ==
  scope = "call" /\ InFlight
    ~> ~InFlight \/ ctx = "done" \/ rcand = "nil" \/ process = "exited"

Unwound ==
  /\ handler = "ended" /\ gatherer = "ended" /\ gathering \in {"none", "ended"}
  /\ remoteLoop \in {"none", "ended"} /\ sendVideo \in {"none", "ended"}
  /\ \A r \in Resolver : resolver[r].at \in {"none", "ended"}

\* peer_connection.go, Stream: "If Close() is called explicitly, or if the parent
\* context is canceled, we should terminate cleanly", and a peer that disconnects
\* is noticed.  When the context ends every goroutine of the call does, except
\* the one that passes candidates on, and Stream while DTLS waits for a peer
\* that is there.
CallUnwinds ==
  ctx = "done" \/ peer = "gone"
    ~> Unwound \/ process = "exited" \/ (handler = "handshaking" /\ peer = "alive")
============================================================================
