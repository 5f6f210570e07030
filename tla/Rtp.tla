-------------------------------- MODULE Rtp --------------------------------
(***************************************************************************)
(* An RTP stream from a sender to a receiver that both run internal/rtp,   *)
(* with the peer's NACKs.  The network delivers packets in order, or loses *)
(* and reorders them.                                                      *)
(***************************************************************************)
EXTENDS RtpSender, RtpReceiver

CONSTANTS Scenarios,     \* [video, network : {"orderly", "lossy", "nacks"}]
          MaxCopies      \* bound of the packets the network repeats

ASSUME ScenarioAssumption ==
  Scenarios \subseteq [video : Videos, network : {"orderly", "lossy", "nacks"}]

VARIABLES conditions, copies

vars == <<senderVars, receiverVars, network, video, health, conditions, copies>>

Init ==
  /\ \E s \in Scenarios : video = s.video /\ conditions = s.network
  /\ copies = 0
  /\ network = {}
  /\ sequenceStart \in Starts /\ count = 0
  /\ cache = [s \in {} |-> 0] /\ pool = {} /\ mem = <<>>
  /\ stap = <<>> /\ todo = <<>> /\ taken = 0 /\ sending = "absent"
  /\ streams = "absent" /\ loop = "reading" /\ lost = <<>>
  /\ resendPackets = <<>> /\ nacks = 0 /\ conn = "open" /\ health = "ok"
  /\ lastSequence = 0 /\ lastIndex = 0
  /\ buf = <<>> /\ pending = <<>> /\ ch = <<>> /\ consumed = 0
  /\ receiving = IF conditions = "orderly" THEN "serving" ELSE "absent"
  /\ highest = -1 /\ window = "kept" /\ rejected = {}

\* An orderly network delivers the packet that was sent first.
Receive(packet) ==
  /\ conditions # "nacks"
  /\ conditions = "orderly" => \A q \in network : packet.index <= q.index
  /\ \/ network' = network \ {packet} /\ UNCHANGED copies
     \/ conditions = "lossy" /\ copies < MaxCopies /\ copies' = copies + 1 /\ UNCHANGED network
  /\ ReadPacket(packet)
  /\ UNCHANGED <<senderVars, video, conditions>>

Lose(packet) ==
  /\ conditions # "orderly" /\ network' = network \ {packet}
  /\ UNCHANGED <<senderVars, receiverVars, video, health, conditions, copies>>

\* The session ends, and its set-up races, where NACKs arrive.
SessionStep ==
  \/ \E pid \in SeqNo, blp \in SUBSET (0 .. NackBits - 1) : RecvNack(pid, blp)
  \/ EndSendVideo
  \/ CloseConn
  \/ RecvShortPacket

SenderStep ==
  \/ Packetize
  \/ \E b \in Obtainable : WritePacket(b)
  \/ Resend
  \/ AddStream
  \/ StreamAdded
  \/ StartSendVideo
  \/ QueueLost
  \/ ReadFails
  \/ conditions = "nacks" /\ SessionStep

ReceiverStep ==
  \/ PutUnit
  \/ Consume
  \/ conditions = "lossy" /\ (StartReceiveVideo \/ EndReceiveVideo \/ CloseStream)

Next ==
  /\ health = "ok"
  /\ \/ SenderStep /\ UNCHANGED <<receiverVars, conditions, copies>>
     \/ ReceiverStep /\ UNCHANGED <<senderVars, network, video, conditions, copies>>
     \/ \E packet \in network : Receive(packet) \/ Lose(packet)

\* Goroutines that can run do run, and the source goes on.
Fairness ==
  /\ WF_vars(health = "ok" /\ (Packetize \/ \E b \in Obtainable : WritePacket(b))
             /\ UNCHANGED <<receiverVars, conditions, copies>>)
  /\ WF_vars(health = "ok" /\ Resend /\ UNCHANGED <<receiverVars, conditions, copies>>)
  /\ WF_vars(health = "ok" /\ (QueueLost \/ ReadFails)
             /\ UNCHANGED <<receiverVars, conditions, copies>>)
  /\ WF_vars(health = "ok" /\ (PutUnit \/ Consume)
             /\ UNCHANGED <<senderVars, network, video, conditions, copies>>)

Spec == Init /\ [][Next]_vars /\ Fairness

----------------------------------------------------------------------------
(* Properties.                                                             *)

\* resend finds under a sequence number the last packet that was sent with it:
\* no buffer of the cache is overwritten when the pool hands out buffers again,
\* and a packet that NACKs keep in the cache is replaced when its sequence
\* number is used again.
ResendIsCurrent ==
  \A s \in DOMAIN cache :
    LET packet == mem[cache[s].buf] IN
    /\ Sequence(packet.index) = s /\ packet.index < Index
    /\ Index - packet.index <= SeqMod

\* updateIndex estimates the sender's index: as long as the first packet has
\* rollover counter 0 and no packet is more than half of the sequence numbers
\* ahead of or behind the highest one, lastIndex is the highest index that
\* arrived, and no packet with an intact tag fails its check.
IndexIsRight ==
  window = "kept" =>
    /\ highest # -1 => lastIndex = highest /\ lastSequence = Sequence(highest)
    /\ rejected = {}

\* Units that have arrived and were not consumed.
waiting == ch \o pending

IsWhole(unit) ==
  /\ unit[1].from = 0 /\ unit[Len(unit)].to = video[unit[1].unit].size
  /\ \A k \in 1 .. Len(unit) - 1 :
       unit[k + 1].from = unit[k].to /\ unit[k + 1].unit = unit[k].unit

IsConsecutive(unit) ==
  \A k \in 1 .. Len(unit) - 1 : unit[k + 1].index = unit[k].index + 1

\* handleData puts no mixture of units together: a unit whose fragments came in
\* packets with consecutive indices is one unit of the source, with its first
\* and its last byte and no gap.
UnitsAreWhole ==
  \A k \in 1 .. Len(waiting) : IsConsecutive(waiting[k]) => IsWhole(waiting[k])

\* packetize and handleData are inverse: over a network that keeps the order,
\* the units of the source arrive whole, in order and each once, and all that
\* packetize has sent arrive.
OrderlyDelivery ==
  conditions = "orderly" =>
    /\ \A k \in 1 .. Len(waiting) :
         waiting[k][1].unit = consumed + k /\ IsWhole(waiting[k])
    /\ todo = <<>> /\ network = {} /\ sending = "serving" =>
         consumed + Len(waiting) = taken - Len(stap)

\* A sequence number that a NACK asks for and that is cached is sent again,
\* unless SendVideo ends, the connection is closed or the packet is evicted.
NacksAreServed ==
  \A s \in SeqNo :
    (/\ \E k \in 1 .. Len(lost \o resendPackets) : (lost \o resendPackets)[k] = s
     /\ s \in DOMAIN cache /\ sending = "serving")
    ~> (\/ s \in DOMAIN cache /\ mem[cache[s].buf] \in network
        \/ s \notin DOMAIN cache \/ sending = "ended" \/ conn = "closed" \/ health # "ok")

\* The session's read loops wait only for SendVideo and ReceiveVideo: after the
\* connection is closed the loop returns, unless its handler waits for a
\* SendVideo that has ended; a unit leaves the handler while ReceiveVideo runs.
LoopsMoveOn ==
  /\ (conn = "closed") ~>
       (loop = "returned" \/ (lost # <<>> /\ sending = "ended") \/ health # "ok")
  /\ (pending # <<>>) ~> (pending = <<>> \/ receiving # "serving" \/ health # "ok")

============================================================================
