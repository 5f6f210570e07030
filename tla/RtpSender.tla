----------------------------- MODULE RtpSender -----------------------------
(***************************************************************************)
(* The sending half of a stream: SendVideo with the H.264 packetizer, the  *)
(* rtpWriter with its retransmission cache and buffer pool, and the read   *)
(* loop of the session that hands it the peer's NACKs (internal/rtp).      *)
(***************************************************************************)
EXTENDS RtpWire

CONSTANTS Starts,        \* values of the random sequenceStart
          CacheSize,     \* rtpCacheSize
          MaxSize,       \* 1280, bound of a payload
          Capacity,      \* 1500, size of a buffer
          HeaderSize, RocSize, TagSize,
          NackBits,      \* 16, width of a NACK's mask
          ResendCap,     \* capacity of resendPackets
          MaxNacks       \* bound of the NACKs that arrive

ASSUME SenderAssumption ==
  /\ Starts \subseteq SeqNo /\ CacheSize \in Nat \ {0}
  /\ MaxSize \in Nat /\ MaxSize > 2 /\ Capacity \in Nat
  /\ HeaderSize \in Nat /\ RocSize \in Nat /\ TagSize \in Nat
  /\ NackBits \in 0 .. SeqMod - 1 /\ ResendCap \in Nat \ {0} /\ MaxNacks \in Nat

VARIABLES sequenceStart, count,
          cache,          \* sequence number |-> [buf, age], age 0 in front
          mem,            \* what the buffers allocated so far hold
          pool,           \* buffers in the pool
          stap,           \* units that wait for the next picture
          todo,           \* payloads packetize has yet to write
          taken,          \* units taken from the source
          sending,        \* SendVideo
          streams,        \* the session's entry of the stream
          loop,           \* the session's read loop
          lost,           \* sequence numbers the handler has yet to queue
          resendPackets, nacks,
          conn            \* the session's connection

writerVars == <<sequenceStart, count, cache, pool, mem>>
videoVars == <<stap, todo, taken, sending>>
sessionVars == <<streams, loop, lost, nacks, conn>>
senderVars == <<writerVars, videoVars, sessionVars, resendPackets>>

----------------------------------------------------------------------------
(* H.264 packetization.                                                    *)

Whole(u) ==
  [kind |-> "single", units |-> <<u>>, from |-> 0, to |-> video[u].size, edges |-> {}]

Stap(us) == [kind |-> "stap", units |-> us, from |-> 0, to |-> 0, edges |-> {}]

IsEndLate(tail, size) == tail > size               \* mutant: an exact fit has no end
IsEnd(tail, size) == tail >= size

\* The k-th fragment.  The first byte of the unit is carried by the headers.
FragmentFrom(k) == 1 + (k - 1) * (MaxSize - 2)

Fragment(u, k) ==
  LET size == video[u].size
      from == FragmentFrom(k)
      tail == from + MaxSize - 2 IN
  [kind |-> "fragment", units |-> <<u>>, from |-> from,
   to |-> IF IsEnd(tail, size) THEN size ELSE tail,
   edges |-> (IF k = 1 THEN {"start"} ELSE {})
             \cup (IF IsEnd(tail, size) THEN {"end"} ELSE {})]

Fragments(u) ==
  [k \in {i \in 1 .. video[u].size : FragmentFrom(i) < video[u].size} |-> Fragment(u, k)]

Picture(u) == IF video[u].size < MaxSize THEN <<Whole(u)>> ELSE Fragments(u)

\* appendSTAP: one byte, then the length in two bytes and every unit.
StapSize(us) ==
  LET size[n \in 0 .. Len(us)] ==
        IF n = 0 THEN 1 ELSE size[n - 1] + 2 + video[us[n]].size
  IN  size[Len(us)]

PayloadSize(p) ==
  CASE p.kind = "single" -> p.to
    [] p.kind = "fragment" -> 2 + p.to - p.from
    [] p.kind = "stap" -> StapSize(p.units)

----------------------------------------------------------------------------
(* The retransmission cache (a least recently used cache) and the pool.    *)

\* Entries in front of an entry of this age move back by one.
Aged(c, age) ==
  [s \in DOMAIN c |-> IF c[s].age < age THEN [c[s] EXCEPT !.age = @ + 1] ELSE c[s]]

\* Get moves the entry to the front.
Touch(c, s) == [Aged(c, c[s].age) EXCEPT ![s].age = 0]

\* Add replaces the entry of the same key, or pushes the others back.
Added(c, s, b) ==
  LET aged == Aged(c, IF s \in DOMAIN c THEN c[s].age ELSE CacheSize) IN
  [t \in DOMAIN c \cup {s} |-> IF t = s THEN [buf |-> b, age |-> 0] ELSE aged[t]]

\* What falls off the back is evicted.
Evicted(c) == {s \in DOMAIN c : c[s].age >= CacheSize}
Kept(c) == [s \in DOMAIN c \ Evicted(c) |-> c[s]]

\* sync.Pool: a buffer that was put back, or a new one.
Obtainable == IF pool = {} THEN {Len(mem) + 1} ELSE pool

----------------------------------------------------------------------------
(* SendVideo.                                                              *)

Index == count + sequenceStart

Packetize ==
  LET u == taken + 1 IN
  /\ sending = "serving" /\ todo = <<>> /\ u \in 1 .. Len(video)
  /\ taken' = u
  /\ IF video[u].kind = "param"
     THEN stap' = Append(stap, u) /\ UNCHANGED todo
     ELSE /\ stap' = <<>>
          /\ todo' = (IF stap = <<>> THEN <<>> ELSE <<Stap(stap)>>) \o Picture(u)
  /\ UNCHANGED <<writerVars, sessionVars, resendPackets, sending, network, video, health>>

\* writePacket returns an error: packetize and SendVideo return it.
Fail == sending' = "ended" /\ todo' = <<>>

\* The pool without the buffer that is used and with the evicted ones.
PoolAfterShared(b, c) == pool \cup {c[s].buf : s \in Evicted(c)}   \* mutant: b stays
PoolAfter(b, c) == (pool \ {b}) \cup {c[s].buf : s \in Evicted(c)}

\* The payload is copied into buffer b if it is not larger than the whole
\* buffer.  The rollover counter must fit behind it; the tag that replaces it
\* is longer, and is cut.  Then the packet is counted, cached and written.
WritePacket(b) ==
  LET p == Head(todo)
      used == HeaderSize + PayloadSize(p)
      packet == [index |-> Index, payload |-> p,
                 tag |-> IF used + TagSize > Capacity THEN "cut" ELSE "whole"]
      added == Added(cache, Sequence(Index), b) IN
  /\ todo # <<>> /\ b \in Obtainable
  /\ \/ /\ PayloadSize(p) > Capacity
        /\ Fail /\ pool' = pool \ {b}
        /\ UNCHANGED <<count, cache, mem, network, health>>
     \/ /\ PayloadSize(p) <= Capacity /\ used + RocSize > Capacity
        /\ health' = "panic"
        /\ UNCHANGED <<count, cache, pool, mem, network, todo, sending>>
     \/ /\ used + RocSize <= Capacity
        /\ count' = count + 1
        /\ mem' = IF b \in DOMAIN mem THEN [mem EXCEPT ![b] = packet] ELSE Append(mem, packet)
        /\ cache' = Kept(added) /\ pool' = PoolAfter(b, added)
        /\ IF conn = "closed" THEN Fail /\ UNCHANGED network
           ELSE /\ network' = network \cup {packet}
                /\ todo' = Tail(todo) /\ UNCHANGED sending
        /\ UNCHANGED health
  /\ UNCHANGED <<sequenceStart, stap, taken, resendPackets, streams, loop, lost, nacks,
                 conn, video>>

\* mutant: the packet is found but not written
ResendNothing ==
  /\ sending = "serving" /\ todo = <<>> /\ resendPackets # <<>>
  /\ resendPackets' = Tail(resendPackets)
  /\ UNCHANGED <<writerVars, videoVars, sessionVars, video, health, network>>

\* A write error is only logged.
Resend ==
  LET s == Head(resendPackets) IN
  /\ sending = "serving" /\ todo = <<>> /\ resendPackets # <<>>
  /\ resendPackets' = Tail(resendPackets)
  /\ IF s \in DOMAIN cache
     THEN /\ cache' = Touch(cache, s)
          /\ network' = IF conn = "open" THEN network \cup {mem[cache[s].buf]}
                                          ELSE network
     ELSE UNCHANGED <<cache, network>>
  /\ UNCHANGED <<sequenceStart, count, pool, mem, videoVars, sessionVars, video, health>>

\* quit is closed, or the source has ended.
EndSendVideo ==
  /\ sending = "serving" /\ todo = <<>>
  /\ sending' = "ended"
  /\ UNCHANGED <<writerVars, stap, todo, taken, sessionVars, resendPackets, network, video,
                 health>>

----------------------------------------------------------------------------
(* The session: AddStream, and the read loop with SendVideo's handler.     *)

\* AddStream writes the map that the read loop reads.
AddStream ==
  /\ streams = "absent" /\ streams' = "adding"
  /\ UNCHANGED <<writerVars, videoVars, resendPackets, loop, lost, nacks, conn, network,
                 video, health>>

StreamAdded ==
  /\ streams = "adding" /\ streams' = "added"
  /\ UNCHANGED <<writerVars, videoVars, resendPackets, loop, lost, nacks, conn, network,
                 video, health>>

\* SendVideo registers the handler and becomes a receiver of the source.
StartSendVideo ==
  /\ streams = "added" /\ sending = "absent"
  /\ sending' = "serving"
  /\ UNCHANGED <<writerVars, stap, todo, taken, sessionVars, resendPackets, network, video,
                 health>>

\* getLostPackets: pid, and one more for every bit of the mask.
LostPackets(pid, blp) ==
  SelectSeq([k \in 1 .. NackBits + 1 |-> Sequence(pid + k - 1)],
            LAMBDA s : s = pid \/ Sequence(s - pid - 1) \in blp)

\* A NACK is read.  Without the stream or its handler it is ignored.  A lookup
\* while AddStream writes the map may be a fatal error.
RecvNack(pid, blp) ==
  /\ loop = "reading" /\ lost = <<>> /\ conn = "open" /\ nacks < MaxNacks
  /\ nacks' = nacks + 1
  /\ lost' = IF sending = "absent" THEN <<>> ELSE LostPackets(pid, blp)
  /\ \/ UNCHANGED health
     \/ streams = "adding" /\ health' = "fatal"
  /\ UNCHANGED <<writerVars, videoVars, resendPackets, streams, loop, conn, network, video>>

\* The handler waits for room in the channel.
HasRoomShort == Len(resendPackets) + 1 < ResendCap   \* mutant: one too few
HasRoom == Len(resendPackets) < ResendCap

QueueLost ==
  /\ lost # <<>> /\ HasRoom
  /\ resendPackets' = Append(resendPackets, Head(lost)) /\ lost' = Tail(lost)
  /\ UNCHANGED <<writerVars, videoVars, streams, loop, nacks, conn, network, video,
                 health>>

\* The connection is closed by its owner; the next Read fails.
CloseConn ==
  /\ conn = "open" /\ conn' = "closed"
  /\ UNCHANGED <<writerVars, videoVars, resendPackets, streams, loop, lost, nacks, network,
                 video, health>>

ReadFails ==
  /\ loop = "reading" /\ lost = <<>> /\ conn = "closed"
  /\ loop' = "returned"
  /\ UNCHANGED <<writerVars, videoVars, resendPackets, streams, lost, nacks, conn, network,
                 video, health>>

\* identifyPacket fails: the loop returns.
RecvShortPacket ==
  /\ loop = "reading" /\ lost = <<>> /\ conn = "open"
  /\ loop' = "returned"
  /\ UNCHANGED <<writerVars, videoVars, resendPackets, streams, lost, nacks, conn, network,
                 video, health>>

============================================================================
