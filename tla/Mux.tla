-------------------------------- MODULE Mux --------------------------------
(***************************************************************************)
(* The packet multiplexer of internal/mux.  One goroutine (readLoop) reads *)
(* packets from the connection into a buffer it owns and hands each one to *)
(* the endpoint whose MatchFunc accepts it, taking one of that endpoint's  *)
(* unused buffers in exchange.  Reader goroutines block in Endpoint.Read.  *)
(*                                                                         *)
(* A critical section of Endpoint.Mutex is one action: it contains no      *)
(* blocking call.  Mux.Close holds Mux.lock across one critical section    *)
(* per endpoint, so that lock is a variable.                               *)
(***************************************************************************)
EXTENDS Integers, Sequences, FiniteSets

CONSTANTS
  Endpoint,    \* endpoints that are ever created
  Reader,      \* goroutines that call Endpoint.Read
  ReadsFrom,   \* ReadsFrom[r]: the endpoint r reads
  Class,       \* what a MatchFunc can tell apart (the first byte's range)
  Match,       \* Match[e]: the classes the MatchFunc of e accepts
  NBufs,       \* numBufferPackets, the length of an endpoint's ring
  LoopBuf,     \* the buffer readLoop allocates for itself
  NoEndpoint,  \* dispatch found no endpoint
  NoPacket,    \* contents of a buffer nothing was read into yet
  MaxPackets   \* bound: packets the connection delivers in a behaviour

ASSUME NBufsAssumption == NBufs \in Nat \ {0}
ASSUME ReadersAssumption == ReadsFrom \in [Reader -> Endpoint]
ASSUME MatchAssumption == Match \in [Endpoint -> SUBSET Class]
ASSUME LoopBufAssumption == LoopBuf \notin Endpoint \X (0 .. NBufs - 1)
ASSUME NoEndpointAssumption == NoEndpoint \notin Endpoint
ASSUME MaxPacketsAssumption == MaxPackets \in Nat

Packet == [id : 1 .. MaxPackets, class : Class]
ASSUME NoPacketAssumption == NoPacket \notin Packet

Slot == 0 .. NBufs - 1
Buffer == (Endpoint \X Slot) \cup {LoopBuf}
Closer == {"loop", "user"}   \* callers of Mux.Close

VARIABLES
  mem,         \* mem[b]: the packet stored in buffer b
  bufs,        \* Endpoint.bufs
  first,       \* Endpoint.first
  nused,       \* Endpoint.nused
  available,   \* endpoints whose available channel holds its token
  dead,        \* endpoints whose dead channel is closed
  created,     \* endpoints NewEndpoint has returned
  endpoints,   \* Mux.endpoints
  removing,    \* Endpoint.Close is between close() and RemoveEndpoint()
  lock,        \* who is inside Mux.Close's critical section, or "free"
  closer,      \* progress of each caller of Mux.Close
  conn,        \* the underlying connection: "open" or "closed"
  loop,        \* where readLoop is
  buf,         \* readLoop's buffer
  target,      \* the endpoint dispatch chose
  sent,        \* packets read from the connection so far
  reader,      \* where each reader is in Endpoint.Read
  received     \* the packet the last successful Read of an endpoint returned

ringVars == <<mem, bufs, first, nused, received>>
closeVars == <<created, endpoints, removing, lock, closer, conn>>
loopVars == <<loop, buf, target, sent>>
vars == <<ringVars, available, dead, closeVars, loopVars, reader>>

Init ==
  /\ mem = [b \in Buffer |-> NoPacket]
  /\ bufs = [e \in Endpoint |-> [i \in Slot |-> <<e, i>>]]
  /\ first = [e \in Endpoint |-> 0]
  /\ nused = [e \in Endpoint |-> 0]
  /\ available = {} /\ dead = {}
  /\ created = {} /\ endpoints = {} /\ removing = {}
  /\ lock = "free"
  /\ closer = [c \in Closer |-> "idle"]
  /\ conn = "open"
  /\ loop = "read" /\ buf = LoopBuf /\ target = NoEndpoint /\ sent = 0
  /\ reader = [r \in Reader |-> "idle"]
  /\ received = [e \in Endpoint |-> NoPacket]

----------------------------------------------------------------------------
(* Creating and closing endpoints, and closing the mux.                    *)

NewEndpoint(e) ==
  /\ e \notin created /\ lock = "free"
  /\ created' = created \cup {e}
  /\ endpoints' = endpoints \cup {e}
  /\ UNCHANGED <<ringVars, available, dead, removing, lock, closer, conn,
                 loopVars, reader>>

\* Endpoint.close: closing dead twice is avoided under the endpoint's mutex.
Kill(e) == dead \cup {e}

\* The first half of Endpoint.Close; RemoveEndpoint is the second.
EndpointClose(e) ==
  /\ e \in created /\ e \notin removing
  /\ dead' = Kill(e)
  /\ removing' = removing \cup {e}
  /\ UNCHANGED <<ringVars, available, created, endpoints, lock, closer, conn,
                 loopVars, reader>>

RemoveEndpoint(e) ==
  /\ e \in removing /\ lock = "free"
  /\ endpoints' = endpoints \ {e}
  /\ removing' = removing \ {e}
  /\ UNCHANGED <<ringVars, available, dead, created, lock, closer, conn,
                 loopVars, reader>>

MuxClose(c) ==
  /\ closer[c] = IF c = "loop" THEN "called" ELSE "idle"
  /\ lock = "free"
  /\ lock' = c
  /\ closer' = [closer EXCEPT ![c] = "closing"]
  /\ UNCHANGED <<ringVars, available, dead, created, endpoints, removing, conn,
                 loopVars, reader>>

MuxCloseEndpoint(c, e) ==
  /\ closer[c] = "closing" /\ e \in endpoints
  /\ dead' = Kill(e)
  /\ endpoints' = endpoints \ {e}
  /\ UNCHANGED <<ringVars, available, created, removing, lock, closer, conn,
                 loopVars, reader>>

MuxCloseUnlock(c) ==
  /\ closer[c] = "closing" /\ endpoints = {}
  /\ lock' = "free"
  /\ closer' = [closer EXCEPT ![c] = "unlocked"]
  /\ UNCHANGED <<ringVars, available, dead, created, endpoints, removing, conn,
                 loopVars, reader>>

MuxCloseConn(c) ==
  /\ closer[c] = "unlocked"
  /\ conn' = "closed"
  /\ closer' = [closer EXCEPT ![c] = "done"]
  /\ UNCHANGED <<ringVars, available, dead, created, endpoints, removing, lock,
                 loopVars, reader>>

----------------------------------------------------------------------------
(* readLoop and dispatch.                                                  *)

\* A packet already queued in the connection may still be read after Close.
ReadLoopRead(class) ==
  /\ loop = "read" /\ sent < MaxPackets
  /\ mem' = [mem EXCEPT ![buf] = [id |-> sent + 1, class |-> class]]
  /\ sent' = sent + 1
  /\ loop' = "dispatch"
  /\ UNCHANGED <<bufs, first, nused, received, available, dead, closeVars, buf,
                 target, reader>>

\* Read fails: the connection was closed here, or died (ICE timeout).
ReadLoopError ==
  /\ loop = "read"
  /\ loop' = "exit"
  /\ closer' = [closer EXCEPT !["loop"] = "called"]   \* defer m.Close()
  /\ UNCHANGED <<ringVars, available, dead, created, endpoints, removing, lock,
                 conn, buf, target, sent, reader>>

Matching == {e \in endpoints : mem[buf].class \in Match[e]}

\* Map iteration order is random: any matching endpoint may come first.
Dispatch ==
  /\ loop = "dispatch" /\ lock = "free"
  /\ \/ /\ Matching = {}
        /\ loop' = "read" /\ UNCHANGED target
     \/ \E e \in Matching : target' = e /\ loop' = "deliver"
  /\ UNCHANGED <<ringVars, available, dead, closeVars, buf, sent, reader>>

\* The slot after the first used one.
Advance(e) == (first[e] + 1) % NBufs

NextSlotNewest(e) ==                              \* mutant: drops the newest
  (first[e] + (IF nused[e] = NBufs THEN nused[e] - 1 ELSE nused[e])) % NBufs
\* The slot that receives the next packet: the oldest one when all are used.
NextSlot(e) == IF nused[e] = NBufs THEN first[e]
                                   ELSE (first[e] + nused[e]) % NBufs

SwapOutNothing(e) == buf                          \* mutant: no exchange
\* What deliver returns: the buffer that the packet's buffer replaces.
SwapOut(e) == bufs[e][NextSlot(e)]

\* The exchange of buffers at the end of deliver.
Swap(e) ==
  /\ bufs' = [bufs EXCEPT ![e][NextSlot(e)] = buf]
  /\ buf' = SwapOut(e)
  /\ IF nused[e] = NBufs
     THEN first' = [first EXCEPT ![e] = Advance(e)] /\ UNCHANGED nused
     ELSE nused' = [nused EXCEPT ![e] = @ + 1] /\ UNCHANGED first

\* select in deliver: when dead is closed and the token is absent, either
\* case may be taken; when dead is closed and the token is there, only dead.
Deliver ==
  LET e == target IN
  /\ loop = "deliver"
  /\ \/ /\ e \in dead
        /\ UNCHANGED <<bufs, first, nused, buf, available>>
     \/ /\ e \notin dead \/ e \notin available
        /\ available' = available \cup {e}
        /\ Swap(e)
  /\ loop' = "read" /\ target' = NoEndpoint
  /\ UNCHANGED <<mem, received, dead, closeVars, sent, reader>>

----------------------------------------------------------------------------
(* Endpoint.Read.                                                          *)

\* The test of e.nused at the top of Read holds no lock: it races with deliver
\* and tryConsume, so it may see an outdated count and go either way.
ReadCall(r) ==
  /\ reader[r] = "idle" /\ ReadsFrom[r] \in created
  /\ \E where \in {"try", "wait"} : reader' = [reader EXCEPT ![r] = where]
  /\ UNCHANGED <<ringVars, available, dead, closeVars, loopVars>>

ReadDeadIgnored(r) == FALSE                       \* mutant: select lacks dead
ReadDead(r) ==
  /\ reader[r] = "wait" /\ ReadsFrom[r] \in dead
  /\ reader' = [reader EXCEPT ![r] = "eof"]
  /\ UNCHANGED <<ringVars, available, dead, closeVars, loopVars>>

ReadAvailable(r) ==
  /\ reader[r] = "wait" /\ ReadsFrom[r] \in available
  /\ available' = available \ {ReadsFrom[r]}
  /\ reader' = [reader EXCEPT ![r] = "woken"]
  /\ UNCHANGED <<ringVars, dead, closeVars, loopVars>>

MoreUsedNever(e) == FALSE                         \* mutant: token not renewed
\* Packets are left after one is consumed.
MoreUsed(e) == nused[e] > 1

TryConsume(r) ==
  LET e == ReadsFrom[r] IN
  /\ reader[r] \in {"try", "woken"}
  /\ IF nused[e] = 0
     THEN /\ reader' = [reader EXCEPT ![r] = "wait"]
          /\ UNCHANGED <<first, nused, received, available>>
     ELSE /\ received' = [received EXCEPT ![e] = mem[bufs[e][first[e]]]]
          /\ first' = [first EXCEPT ![e] = Advance(e)]
          /\ nused' = [nused EXCEPT ![e] = @ - 1]
          /\ available' = IF MoreUsed(e) THEN available \cup {e} ELSE available
          /\ reader' = [reader EXCEPT ![r] = "idle"]
  /\ UNCHANGED <<mem, bufs, dead, closeVars, loopVars>>

----------------------------------------------------------------------------
CloseStep(c) ==
  \/ MuxClose(c)
  \/ \E e \in Endpoint : MuxCloseEndpoint(c, e)
  \/ MuxCloseUnlock(c)
  \/ MuxCloseConn(c)

ReadStep(r) == ReadDead(r) \/ ReadAvailable(r) \/ TryConsume(r)

Next ==
  \/ \E e \in Endpoint : NewEndpoint(e) \/ EndpointClose(e) \/ RemoveEndpoint(e)
  \/ \E c \in Closer : CloseStep(c)
  \/ \E class \in Class : ReadLoopRead(class)
  \/ ReadLoopError \/ Dispatch \/ Deliver
  \/ \E r \in Reader : ReadCall(r) \/ ReadStep(r)

Spec == Init /\ [][Next]_vars

\* Goroutines that can run do run.  Nobody has to call Read, NewEndpoint,
\* Endpoint.Close or Mux.Close; a connection need not deliver packets, but a
\* closed one fails its Read.
Fairness ==
  /\ \A e \in Endpoint : WF_vars(RemoveEndpoint(e))
  /\ WF_vars(MuxClose("loop"))
  /\ \A c \in Closer : /\ WF_vars(\E e \in Endpoint : MuxCloseEndpoint(c, e))
                       /\ WF_vars(MuxCloseUnlock(c))
                       /\ WF_vars(MuxCloseConn(c))
  /\ WF_vars(conn = "closed" /\ ReadLoopError)
  /\ WF_vars(Dispatch) /\ WF_vars(Deliver)
  /\ \A r \in Reader : WF_vars(ReadStep(r))

FairSpec == Spec /\ Fairness

----------------------------------------------------------------------------
(* Properties.                                                             *)

TypeOK ==
  /\ mem \in [Buffer -> Packet \cup {NoPacket}]
  /\ bufs \in [Endpoint -> [Slot -> Buffer]]
  /\ first \in [Endpoint -> Slot]
  /\ nused \in [Endpoint -> 0 .. NBufs]
  /\ available \in SUBSET Endpoint
  /\ dead \in SUBSET Endpoint
  /\ created \in SUBSET Endpoint
  /\ endpoints \in SUBSET created
  /\ removing \in SUBSET created
  /\ lock \in Closer \cup {"free"}
  /\ closer \in [Closer -> {"idle", "called", "closing", "unlocked", "done"}]
  /\ conn \in {"open", "closed"}
  /\ loop \in {"read", "dispatch", "deliver", "exit"}
  /\ buf \in Buffer
  /\ target \in Endpoint \cup {NoEndpoint}
  /\ sent \in 0 .. MaxPackets
  /\ reader \in [Reader -> {"idle", "try", "wait", "woken", "eof"}]
  /\ received \in [Endpoint -> Packet \cup {NoPacket}]

\* The exchange of buffers between readLoop and the endpoints never lets two
\* slots, of the same or of different endpoints, share a buffer, and readLoop
\* never reads the next packet into a buffer that is still in a ring.
BuffersDisjoint ==
  /\ \A e1, e2 \in Endpoint : \A i1, i2 \in Slot :
       bufs[e1][i1] = bufs[e2][i2] => e1 = e2 /\ i1 = i2
  /\ \A e \in Endpoint : \A i \in Slot : bufs[e][i] # buf

\* The packets waiting in e, oldest first, and the slot of the i-th.
Position(e, i) == (first[e] + (i - 1)) % NBufs
Contents(e) == [i \in 1 .. nused[e] |-> mem[bufs[e][Position(e, i)]]]

\* An endpoint is a bounded FIFO queue that drops its oldest packet when full:
\* swapping buffers, concurrent readers and closing never change, reorder,
\* repeat or lose a packet in any other way.
Queues == INSTANCE PacketQueue WITH
            queue <- [e \in Endpoint |-> Contents(e)], Capacity <- NBufs
ImplementsQueues == Queues!Spec

Later(p, q) == p = NoPacket \/ p.id < q.id

\* The packets an endpoint holds are in the order they came from the
\* connection and all came after the one its last Read returned.
InOrder ==
  \A e \in Endpoint : \A i \in 1 .. nused[e] :
    Later(IF i = 1 THEN received[e] ELSE Contents(e)[i - 1], Contents(e)[i])

\* While packets wait, the token of Endpoint.available is there or in the
\* hands of a reader about to consume: no reader sleeps beside a packet.
NoLostWakeup ==
  \A e \in Endpoint : nused[e] > 0 =>
    e \in available \/ \E r \in Reader : ReadsFrom[r] = e /\ reader[r] = "woken"

\* An endpoint that is not dead is in Mux.endpoints, where Mux.Close finds it,
\* however Endpoint.Close, Mux.Close and the deferred Close interleave.
LiveEndpointsRegistered ==
  created \ dead \subseteq endpoints

\* Closing an endpoint makes every Read of it return.
DeadEndpointReleasesReaders ==
  \A r \in Reader :
    (ReadsFrom[r] \in dead /\ reader[r] # "idle") ~> reader[r] \in {"idle", "eof"}

============================================================================
