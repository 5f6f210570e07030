------------------------------ MODULE RtpWire ------------------------------
(***************************************************************************)
(* What travels between the two ends of an RTP stream (internal/rtp): the  *)
(* packets of an H.264 video and the network that carries them.            *)
(*                                                                         *)
(* The video is a sequence of NAL units; a unit is its position in it.  A  *)
(* packet is identified by its index, the extended sequence number.  On    *)
(* the wire are the index modulo SeqMod and a tag that covers the payload  *)
(* and the rollover counter, the rest of the index.                        *)
(***************************************************************************)
EXTENDS Integers, Sequences

CONSTANTS HalfSeq,       \* 2^15, half of the sequence numbers
          Videos         \* videos a source may have: sequences of NAL units

SeqMod == 2 * HalfSeq
SeqNo == 0 .. SeqMod - 1

ASSUME WireAssumption ==
  /\ HalfSeq \in Nat \ {0}
  /\ Videos \subseteq Seq([kind : {"param", "slice"}, size : Nat \ {0}])

Sequence(index) == index % SeqMod
Rollover(index) == index \div SeqMod

\* A payload holds parameter units, or the bytes from .. to - 1 of a unit: all
\* of them, or a fragment with the edges its header marks.
Payload ==
  [kind : {"single", "stap", "fragment"}, units : Seq(Nat), from : Nat, to : Nat,
   edges : SUBSET {"start", "end"}]

\* The tag is cut when it does not fit in the buffer.
Packet == [index : Nat, payload : Payload, tag : {"whole", "cut"}]

VARIABLES video,          \* the NAL units of the source: [kind, size]
          network,        \* packets under way
          health          \* "ok" until the process crashes

============================================================================
