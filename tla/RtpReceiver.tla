---------------------------- MODULE RtpReceiver ----------------------------
(***************************************************************************)
(* The receiving half of a stream: the rtpReader, which estimates the      *)
(* index of a packet from its sequence number, the H.264 reassembly and    *)
(* ReceiveVideo (internal/rtp).  The session's read loop of this side      *)
(* calls readPacket; it waits when the channel of units is full.           *)
(***************************************************************************)
EXTENDS RtpWire

CONSTANTS UnitCap,       \* capacity of the channel of units
          IndexMod       \* 2^64, a multiple of SeqMod

ASSUME ReceiverAssumption ==
  /\ UnitCap \in Nat \ {0}
  /\ IndexMod \in Nat \ {0} /\ IndexMod % SeqMod = 0

VARIABLES lastSequence, lastIndex,
          buf,            \* pieces of the unit under reassembly; <<>> for nil
          pending,        \* units the handler has yet to put in the channel
          ch,             \* the channel of units
          receiving,      \* ReceiveVideo
          consumed,       \* number of units that were consumed
          highest,        \* history: highest index that was read, or -1
          window,         \* history: "kept" while packets come near enough
          rejected        \* history: packets with a whole tag that failed it

indexVars == <<lastSequence, lastIndex>>
unitVars == <<buf, pending, ch, receiving, consumed>>
historyVars == <<highest, window, rejected>>
receiverVars == <<indexVars, unitVars, historyVars>>

----------------------------------------------------------------------------
(* rtpReader.                                                              *)

\* The distance of a sequence number to the last one, corrected for rollover.
DeltaWide(s) == s - lastSequence                   \* mutant: no correction
Delta(s) ==
  LET d == s - lastSequence IN
  IF d > HalfSeq THEN d - SeqMod ELSE IF d <= - HalfSeq THEN d + SeqMod ELSE d

\* 0 stands for no packet yet: the rollover counter starts at 0.
Estimate(s) == IF lastIndex = 0 THEN s ELSE (lastIndex + Delta(s)) % IndexMod

UpdateIndex(s) ==
  IF lastIndex = 0 \/ Estimate(s) > lastIndex
  THEN lastIndex' = Estimate(s) /\ lastSequence' = s
  ELSE UNCHANGED indexVars

\* The tag covers the rollover counter.
Verified(packet, index) ==
  packet.tag = "whole" /\ Rollover(index) = Rollover(packet.index)

----------------------------------------------------------------------------
(* handleData: units from payloads.                                        *)

\* A piece of a unit, with the index of the packet it came in.
Piece(packet, u, from, to) == [unit |-> u, from |-> from, to |-> to, index |-> packet.index]

\* The units of a packet that is no fragment.
PlainUnits(packet) ==
  LET p == packet.payload IN
  [k \in 1 .. Len(p.units) |-> <<Piece(packet, p.units[k], 0, video[p.units[k]].size)>>]

\* mutant: the first byte of the unit is not restored
CollectedBare(packet) ==
  LET p == packet.payload
      piece == Piece(packet, p.units[1], p.from, p.to) IN
  IF "start" \in p.edges THEN <<piece>>
  ELSE IF buf = <<>> THEN <<>> ELSE Append(buf, piece)

\* A start drops what was collected and restores the unit's first byte.
Collected(packet) ==
  LET p == packet.payload
      u == p.units[1] IN
  IF "start" \in p.edges THEN <<Piece(packet, u, 0, p.to)>>
  ELSE IF buf = <<>> THEN <<>>
  ELSE Append(buf, Piece(packet, u, p.from, p.to))

HandleData(packet) ==
  IF packet.payload.kind # "fragment"
  THEN pending' = PlainUnits(packet) /\ UNCHANGED buf
  ELSE IF "end" \in packet.payload.edges /\ Collected(packet) # <<>>
  THEN pending' = <<Collected(packet)>> /\ buf' = <<>>
  ELSE buf' = Collected(packet) /\ UNCHANGED pending

----------------------------------------------------------------------------
(* readPacket, and ReceiveVideo.                                           *)

\* Packets come near enough: the first one has rollover counter 0, the others
\* are within half of the sequence numbers of the highest one.
Near(index) ==
  /\ index < IndexMod
  /\ IF highest = -1 THEN index < SeqMod
     ELSE index - highest \in 1 - HalfSeq .. HalfSeq

History(packet, verified) ==
  /\ highest' = IF packet.index > highest THEN packet.index ELSE highest
  /\ window' = IF Near(packet.index) THEN window ELSE "left"
  /\ rejected' = IF verified \/ packet.tag = "cut" THEN rejected ELSE rejected \cup {packet.index}

\* The index is updated before the packet is verified.
ReadPacket(packet) ==
  LET s == Sequence(packet.index)
      verified == Verified(packet, Estimate(s)) IN
  /\ pending = <<>>
  /\ UpdateIndex(s)
  /\ IF verified /\ receiving # "absent" THEN HandleData(packet)
                                         ELSE UNCHANGED <<buf, pending>>
  /\ History(packet, verified)
  /\ UNCHANGED <<ch, receiving, consumed, health>>

PutUnit ==
  /\ pending # <<>> /\ Len(ch) < UnitCap
  /\ ch' = Append(ch, Head(pending)) /\ pending' = Tail(pending)
  /\ UNCHANGED <<indexVars, historyVars, buf, receiving, consumed, health>>

StartReceiveVideo ==
  /\ receiving = "absent" /\ receiving' = "serving"
  /\ UNCHANGED <<indexVars, historyVars, buf, pending, ch, consumed, health>>

Consume ==
  /\ receiving = "serving" /\ ch # <<>>
  /\ ch' = Tail(ch) /\ consumed' = consumed + 1
  /\ UNCHANGED <<indexVars, historyVars, buf, pending, receiving, health>>

\* quit is closed, or consume fails.
EndReceiveVideo ==
  /\ receiving = "serving" /\ receiving' = "ended"
  /\ UNCHANGED <<indexVars, historyVars, buf, pending, ch, consumed, health>>

\* Stream.Close after ReceiveVideo clears the writer's cache.  The stream is
\* recvonly, as the rtsp source makes it, and has no writer.
CloseStream ==
  /\ receiving = "ended" /\ receiving' = "closed"
  /\ health' = "panic"
  /\ UNCHANGED <<indexVars, historyVars, buf, pending, ch, consumed>>

============================================================================
