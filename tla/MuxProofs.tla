----------------------------- MODULE MuxProofs -----------------------------
(***************************************************************************)
(* Mux keeps its buffers disjoint, loses no wake-up and implements the     *)
(* bounded queues of PacketQueue, for any number of endpoints, readers and *)
(* buffers per endpoint.                                                   *)
(***************************************************************************)
EXTENDS Mux, TLAPS

\* The provers of a leaf that names none.
USE ZenonT(5), SMTT(20)

USE NBufsAssumption, ReadersAssumption, MatchAssumption, LoopBufAssumption,
    NoEndpointAssumption, MaxPacketsAssumption

\* The circular index of endpoint.go wraps at most once.
LEMMA RingIndex ==
  ASSUME NEW a \in Slot, NEW k \in 0 .. NBufs
  PROVE  (a + k) % NBufs = IF a + k < NBufs THEN a + k ELSE a + k - NBufs
BY Z3 DEF Slot

\* Advancing the start of the ring by one shifts every position by one.
LEMMA RingShift ==
  ASSUME NEW a \in Slot, NEW k \in Slot
  PROVE  (((a + 1) % NBufs) + k) % NBufs = (a + (k + 1)) % NBufs
<1>1. (a + 1) % NBufs \in Slot
  BY DEF Slot
<1>2. (a + 1) % NBufs = IF a + 1 < NBufs THEN a + 1 ELSE a + 1 - NBufs
  BY Z3 DEF Slot
<1>3. (((a + 1) % NBufs) + k) % NBufs
        = IF ((a + 1) % NBufs) + k < NBufs THEN ((a + 1) % NBufs) + k
                                         ELSE ((a + 1) % NBufs) + k - NBufs
  <2> DEFINE b == (a + 1) % NBufs
  <2>1. b \in Slot /\ k \in 0 .. NBufs
    BY <1>1 DEF Slot
  <2> HIDE DEF b
  <2>2. (b + k) % NBufs = IF b + k < NBufs THEN b + k ELSE b + k - NBufs
    BY <2>1, RingIndex
  <2> QED
    BY <2>2 DEF b
<1>4. (a + (k + 1)) % NBufs
        = IF a + (k + 1) < NBufs THEN a + (k + 1) ELSE a + (k + 1) - NBufs
  <2>1. k + 1 \in 0 .. NBufs
    BY DEF Slot
  <2> QED
    BY <2>1, RingIndex
<1> QED
  BY <1>2, <1>3, <1>4 DEF Slot

\* Different positions of the ring are different slots.
LEMMA RingDistinct ==
  ASSUME NEW a \in Slot, NEW k \in Slot, NEW l \in Slot,
         (a + k) % NBufs = (a + l) % NBufs
  PROVE  k = l
<1>1. (a + k) % NBufs = IF a + k < NBufs THEN a + k ELSE a + k - NBufs
  BY RingIndex DEF Slot
<1>2. (a + l) % NBufs = IF a + l < NBufs THEN a + l ELSE a + l - NBufs
  BY RingIndex DEF Slot
<1> QED
  BY <1>1, <1>2 DEF Slot

\* readLoop has an endpoint while it delivers, and a packet in its buffer from
\* the time it has read one until it has delivered it.
LoopInv ==
  /\ loop = "deliver" => target \in Endpoint
  /\ loop \in {"dispatch", "deliver"} => mem[buf] \in Packet /\ mem[buf].id = sent

----------------------------------------------------------------------------
LEMMA RingTypes ==
  ASSUME TypeOK, NEW e \in Endpoint
  PROVE  /\ Advance(e) \in Slot /\ NextSlot(e) \in Slot
         /\ nused[e] # NBufs => nused[e] + 1 \in 0 .. NBufs
         /\ nused[e] # 0 => nused[e] - 1 \in 0 .. NBufs
<1>1. first[e] \in Slot /\ nused[e] \in 0 .. NBufs
  BY DEF TypeOK
<1>2. (first[e] + 1) % NBufs \in Slot
  BY <1>1 DEF Slot
<1>3. (first[e] + nused[e]) % NBufs \in Slot
  BY <1>1 DEF Slot
<1> QED
  BY <1>1, <1>2, <1>3 DEF Advance, NextSlot

\* The types of all variables, and LoopInv, are preserved by every step.
LEMMA TypeStep == TypeOK /\ LoopInv /\ [Next]_vars => TypeOK' /\ LoopInv'
<1> SUFFICES ASSUME TypeOK, LoopInv, [Next]_vars PROVE TypeOK' /\ LoopInv'
  OBVIOUS
<1> USE DEF TypeOK, LoopInv, Closer, ringVars, closeVars, loopVars
<1>1. ASSUME NEW e \in Endpoint, NewEndpoint(e) PROVE TypeOK' /\ LoopInv'
  BY <1>1 DEF NewEndpoint
<1>2. ASSUME NEW e \in Endpoint, EndpointClose(e) PROVE TypeOK' /\ LoopInv'
  BY <1>2 DEF EndpointClose, Kill
<1>3. ASSUME NEW e \in Endpoint, RemoveEndpoint(e) PROVE TypeOK' /\ LoopInv'
  BY <1>3 DEF RemoveEndpoint
<1>4. ASSUME NEW c \in Closer, CloseStep(c) PROVE TypeOK' /\ LoopInv'
  BY <1>4 DEF CloseStep, MuxClose, MuxCloseEndpoint, MuxCloseUnlock,
              MuxCloseConn, Kill
<1>5. ASSUME NEW class \in Class, ReadLoopRead(class) PROVE TypeOK' /\ LoopInv'
  <2>1. [id |-> sent + 1, class |-> class] \in Packet
    BY <1>5 DEF ReadLoopRead, Packet
  <2> QED
    BY <1>5, <2>1 DEF ReadLoopRead
<1>6. ASSUME ReadLoopError PROVE TypeOK' /\ LoopInv'
  BY <1>6 DEF ReadLoopError
<1>7. ASSUME Dispatch PROVE TypeOK' /\ LoopInv'
  BY <1>7 DEF Dispatch, Matching
<1>8. ASSUME Deliver PROVE TypeOK' /\ LoopInv'
  <2>1. target \in Endpoint
    BY <1>8 DEF Deliver
  <2>2. CASE UNCHANGED <<bufs, first, nused, buf, available>>
    BY <1>8, <2>2 DEF Deliver
  <2>3. CASE available' = available \cup {target} /\ Swap(target)
    <3>1. Advance(target) \in Slot /\ NextSlot(target) \in Slot
      BY <2>1, RingTypes
    <3>2. bufs' \in [Endpoint -> [Slot -> Buffer]] /\ buf' \in Buffer
      BY <2>1, <2>3, <3>1 DEF Swap, SwapOut
    <3>3. first' \in [Endpoint -> Slot]
      BY <2>1, <2>3, <3>1 DEF Swap
    <3>4. nused' \in [Endpoint -> 0 .. NBufs]
      <4>1. nused[target] # NBufs => nused[target] + 1 \in 0 .. NBufs
        BY <2>1, RingTypes
      <4> QED
        BY <2>1, <2>3, <4>1 DEF Swap
    <3> QED
      BY <1>8, <2>3, <3>2, <3>3, <3>4 DEF Deliver
  <2> QED
    BY <1>8, <2>2, <2>3 DEF Deliver
<1>9. ASSUME NEW r \in Reader, ReadCall(r) PROVE TypeOK' /\ LoopInv'
  BY <1>9 DEF ReadCall
<1>10. ASSUME NEW r \in Reader, ReadDead(r) \/ ReadAvailable(r)
       PROVE  TypeOK' /\ LoopInv'
  BY <1>10 DEF ReadDead, ReadAvailable
<1>11. ASSUME NEW r \in Reader, TryConsume(r) PROVE TypeOK' /\ LoopInv'
  <2>1. ReadsFrom[r] \in Endpoint
    OBVIOUS
  <2>2. Advance(ReadsFrom[r]) \in Slot
    BY <2>1, RingTypes
  <2>3. bufs[ReadsFrom[r]][first[ReadsFrom[r]]] \in Buffer
    BY <2>1
  <2>4. CASE nused[ReadsFrom[r]] = 0
    BY <1>11, <2>1, <2>4 DEF TryConsume
  <2>5. CASE nused[ReadsFrom[r]] # 0
    <3>1. nused[ReadsFrom[r]] - 1 \in 0 .. NBufs
      BY <2>1, <2>5, RingTypes
    <3>2. first' \in [Endpoint -> Slot]
      BY <1>11, <2>1, <2>2, <2>5, SMTT(30) DEF TryConsume
    <3>5. nused' \in [Endpoint -> 0 .. NBufs]
      <4>1. nused' = [nused EXCEPT ![ReadsFrom[r]] = @ - 1]
        BY <1>11, <2>5 DEF TryConsume
      <4> QED
        BY <2>1, <3>1, <4>1
    <3>3. received' \in [Endpoint -> Packet \cup {NoPacket}]
      <4>1. received' = [received EXCEPT ![ReadsFrom[r]] =
                           mem[bufs[ReadsFrom[r]][first[ReadsFrom[r]]]]]
        BY <1>11, <2>5 DEF TryConsume
      <4>2. mem[bufs[ReadsFrom[r]][first[ReadsFrom[r]]]] \in Packet \cup {NoPacket}
        BY <2>3
      <4> QED
        BY <2>1, <4>1, <4>2
    <3>4. available' \in SUBSET Endpoint
      BY <1>11, <2>1, <2>5 DEF TryConsume
    <3> QED
      BY <1>11, <2>5, <3>2, <3>3, <3>4, <3>5 DEF TryConsume
  <2> QED
    BY <2>4, <2>5
<1>12. CASE UNCHANGED vars
  BY <1>12 DEF vars
<1> QED
  BY <1>1, <1>2, <1>3, <1>4, <1>5, <1>6, <1>7, <1>8, <1>9, <1>10, <1>11, <1>12
  DEF Next, ReadStep

\* Every variable of Mux keeps its type.
THEOREM TypeCorrect == Spec => [](TypeOK /\ LoopInv)
<1>1. Init => TypeOK /\ LoopInv
  BY DEF Init, TypeOK, LoopInv, Buffer, Slot, Closer
<1> QED
  BY <1>1, TypeStep, PTL DEF Spec

----------------------------------------------------------------------------
(* Ownership of buffers.                                                   *)

\* Only Deliver moves buffers.
LEMMA BuffersMove ==
  ASSUME [Next]_vars, ~Deliver
  PROVE  UNCHANGED <<bufs, buf>>
BY DEF Next, vars, ringVars, closeVars, loopVars, NewEndpoint, EndpointClose,
       RemoveEndpoint, CloseStep, MuxClose, MuxCloseEndpoint, MuxCloseUnlock,
       MuxCloseConn, ReadLoopRead, ReadLoopError, Dispatch, ReadCall, ReadStep,
       ReadDead, ReadAvailable, TryConsume

LEMMA DisjointStep ==
  TypeOK /\ LoopInv /\ BuffersDisjoint /\ [Next]_vars => BuffersDisjoint'
<1> SUFFICES ASSUME TypeOK, LoopInv, BuffersDisjoint, [Next]_vars
             PROVE  BuffersDisjoint'
  OBVIOUS
<1>1. CASE ~Deliver
  BY <1>1, BuffersMove DEF BuffersDisjoint
<1>2. CASE Deliver
  <2>1. target \in Endpoint
    BY <1>2 DEF Deliver, LoopInv
  <2>2. CASE UNCHANGED <<bufs, buf>>
    BY <2>2 DEF BuffersDisjoint
  <2>3. CASE Swap(target)
    <3> DEFINE s == NextSlot(target)
    <3>1. s \in Slot
      BY <2>1, RingTypes
    <3>2. buf' = bufs[target][s]
      BY <2>3 DEF Swap, SwapOut
    <3>3. \A e \in Endpoint : \A i \in Slot :
            bufs'[e][i] = IF e = target /\ i = s THEN buf ELSE bufs[e][i]
      BY <2>1, <2>3, <3>1 DEF Swap, TypeOK
    <3> HIDE DEF s
    <3> QED
      BY <2>1, <3>1, <3>2, <3>3 DEF BuffersDisjoint
  <2> QED
    BY <1>2, <2>2, <2>3 DEF Deliver
<1> QED
  BY <1>1, <1>2

\* The exchange of buffers never makes two slots, or a slot and readLoop, share
\* a buffer.
THEOREM BuffersStayDisjoint == Spec => []BuffersDisjoint
<1>1. Init => BuffersDisjoint
  BY DEF Init, BuffersDisjoint, Slot
<1> QED
  BY <1>1, TypeCorrect, DisjointStep, PTL DEF Spec

----------------------------------------------------------------------------
(* Wake-ups and registration.                                              *)

LEMMA WakeupStep ==
  TypeOK /\ LoopInv /\ NoLostWakeup /\ [Next]_vars => NoLostWakeup'
<1> SUFFICES ASSUME TypeOK, LoopInv, NoLostWakeup, [Next]_vars,
                    NEW e \in Endpoint, nused'[e] > 0
             PROVE  \/ e \in available'
                    \/ \E r \in Reader : ReadsFrom[r] = e /\ reader'[r] = "woken"
  BY DEF NoLostWakeup
<1>1. CASE Deliver
  <2>1. target \in Endpoint
    BY <1>1 DEF Deliver, LoopInv
  <2>2. CASE UNCHANGED <<nused, available>>
    BY <1>1, <2>2 DEF Deliver, NoLostWakeup
  <2>3. CASE available' = available \cup {target} /\ Swap(target)
    <3>1. e # target => nused'[e] = nused[e]
      BY <2>1, <2>3 DEF Swap, TypeOK
    <3> QED
      BY <1>1, <2>3, <3>1 DEF NoLostWakeup, Deliver
  <2> QED
    BY <1>1, <2>2, <2>3 DEF Deliver
<1>2. CASE \E r \in Reader : TryConsume(r)
  <2>1. PICK r \in Reader : TryConsume(r)
    BY <1>2
  <2>2. \A q \in Reader : q # r => reader'[q] = reader[q]
    BY <2>1 DEF TryConsume, TypeOK
  <2>3. CASE ReadsFrom[r] # e
    <3>1. nused'[e] = nused[e] /\ (e \in available => e \in available')
      BY <2>1, <2>3 DEF TryConsume, TypeOK
    <3> QED
      BY <2>2, <2>3, <3>1 DEF NoLostWakeup
  <2>4. CASE ReadsFrom[r] = e
    <3>1. nused[e] # 0 /\ nused'[e] = nused[e] - 1
      BY <2>1, <2>4 DEF TryConsume, TypeOK
    <3>2. MoreUsed(e)
      BY <3>1 DEF MoreUsed, TypeOK
    <3> QED
      BY <2>1, <2>4, <3>1, <3>2 DEF TryConsume
  <2> QED
    BY <2>3, <2>4
<1>3. CASE \E r \in Reader : ReadAvailable(r)
  BY <1>3 DEF ReadAvailable, ringVars, NoLostWakeup, TypeOK
<1>4. CASE \E r \in Reader : ReadCall(r) \/ ReadDead(r)
  BY <1>4 DEF ReadCall, ReadDead, ringVars, NoLostWakeup, TypeOK
<1>5. CASE UNCHANGED <<nused, available, reader>>
  BY <1>5 DEF NoLostWakeup
<1>6. \/ Deliver \/ UNCHANGED <<nused, available, reader>>
      \/ \E r \in Reader : ReadCall(r) \/ ReadStep(r)
  BY DEF Next, vars, ringVars, closeVars, loopVars, NewEndpoint, EndpointClose,
         RemoveEndpoint, CloseStep, MuxClose, MuxCloseEndpoint, MuxCloseUnlock,
         MuxCloseConn, ReadLoopRead, ReadLoopError, Dispatch
<1> QED
  BY <1>1, <1>2, <1>3, <1>4, <1>5, <1>6 DEF ReadStep

\* A waiting packet always has a token or a reader that is about to take it.
THEOREM NoWakeupIsLost == Spec => []NoLostWakeup
<1>1. Init => NoLostWakeup
  BY DEF Init, NoLostWakeup
<1> QED
  BY <1>1, TypeCorrect, WakeupStep, PTL DEF Spec

\* Endpoint.Close marks the endpoint dead before it unregisters it.
RegistrationInv == LiveEndpointsRegistered /\ removing \subseteq dead

\* Mux.Close finds every endpoint that is not dead yet.
THEOREM LiveEndpointsStayRegistered == Spec => []LiveEndpointsRegistered
<1>1. Init => RegistrationInv
  BY DEF Init, RegistrationInv, LiveEndpointsRegistered
<1>2. RegistrationInv /\ [Next]_vars => RegistrationInv'
  BY DEF RegistrationInv, LiveEndpointsRegistered, Next, vars, ringVars,
         closeVars, loopVars, NewEndpoint, EndpointClose, RemoveEndpoint, Kill,
         CloseStep, MuxClose, MuxCloseEndpoint, MuxCloseUnlock, MuxCloseConn,
         ReadLoopRead, ReadLoopError, Dispatch, Deliver, ReadCall, ReadStep,
         ReadDead, ReadAvailable, TryConsume
<1>3. RegistrationInv => LiveEndpointsRegistered
  BY DEF RegistrationInv
<1> QED
  BY <1>1, <1>2, <1>3, PTL DEF Spec

----------------------------------------------------------------------------
(* The ring of an endpoint is a queue.                                     *)

LEMMA ContentsAt ==
  ASSUME TypeOK, NEW e \in Endpoint
  PROVE  /\ nused[e] \in 0 .. NBufs /\ first[e] \in Slot
         /\ \A i \in 1 .. nused[e] : /\ Position(e, i) \in Slot
                                     /\ bufs[e][Position(e, i)] \in Buffer
         /\ Contents(e) \in Seq(Packet \cup {NoPacket})
         /\ Len(Contents(e)) = nused[e]
<1>1. nused[e] \in 0 .. NBufs /\ first[e] \in Slot
  BY DEF TypeOK
<1>2. \A i \in 1 .. nused[e] : Position(e, i) \in Slot
  BY <1>1 DEF Position, Slot
<1>3. \A i \in 1 .. nused[e] :
        /\ bufs[e][Position(e, i)] \in Buffer
        /\ mem[bufs[e][Position(e, i)]] \in Packet \cup {NoPacket}
  BY <1>2 DEF TypeOK
<1>4. nused[e] \in Nat
  BY <1>1, NBufsAssumption
<1>5. Contents(e) \in [1 .. nused[e] -> Packet \cup {NoPacket}]
  BY <1>3 DEF Contents
<1>6. Contents(e) \in Seq(Packet \cup {NoPacket}) /\ Len(Contents(e)) = nused[e]
  BY <1>4, <1>5
<1> QED
  BY <1>1, <1>2, <1>3, <1>6

\* Reading the next packet from the connection disturbs no waiting packet.
LEMMA ReadKeepsContents ==
  ASSUME TypeOK, BuffersDisjoint, NEW class \in Class, ReadLoopRead(class),
         NEW e \in Endpoint
  PROVE  Contents(e)' = Contents(e)
<1>1. \A i \in 1 .. nused[e] : bufs[e][Position(e, i)] # buf
  BY ContentsAt DEF BuffersDisjoint
<1>2. \A i \in 1 .. nused[e] :
        mem'[bufs[e][Position(e, i)]] = mem[bufs[e][Position(e, i)]]
  BY <1>1, ContentsAt DEF ReadLoopRead, TypeOK
<1>3. nused' = nused /\ first' = first /\ bufs' = bufs
  BY DEF ReadLoopRead
<1>4. Contents(e)' = [i \in 1 .. nused[e] |-> mem'[bufs[e][Position(e, i)]]]
  BY <1>3 DEF Contents, Position
<1> QED
  BY <1>2, <1>4 DEF Contents

\* Delivering appends the packet in readLoop's buffer to the target's queue,
\* after dropping the oldest packet of a full one.
LEMMA SwapAppends ==
  ASSUME TypeOK, BuffersDisjoint, NEW e \in Endpoint, Swap(e), mem' = mem
  PROVE  Contents(e)' = Append(IF Len(Contents(e)) = NBufs THEN Tail(Contents(e))
                                                          ELSE Contents(e),
                               mem[buf])
<1> DEFINE n == nused[e]
           s == NextSlot(e)
<1>1. n \in 0 .. NBufs /\ first[e] \in Slot /\ s \in Slot
  BY ContentsAt, RingTypes
<1>2. \A i \in Slot : bufs'[e][i] = IF i = s THEN buf ELSE bufs[e][i]
  BY <1>1 DEF Swap, TypeOK
<1>3. CASE n # NBufs
  <2>1. nused'[e] = n + 1 /\ first'[e] = first[e]
    BY <1>3 DEF Swap, TypeOK
  <2>2. s = Position(e, n + 1)
    BY <1>1, <1>3 DEF NextSlot, Position
  <2>3. \A i \in 1 .. n + 1 : Position(e, i)' = Position(e, i)
    BY <2>1 DEF Position
  <2>4. \A i \in 1 .. n + 1 : Position(e, i) \in Slot
    BY <1>1 DEF Position, Slot
  <2>5. \A i \in 1 .. n : Position(e, i) # s
    <3> SUFFICES ASSUME NEW i \in 1 .. n, Position(e, i) = Position(e, n + 1)
                 PROVE  FALSE
      BY <2>2
    <3>1. i - 1 \in Slot /\ n \in Slot /\ (n + 1) - 1 = n
      BY <1>1, <1>3 DEF Slot
    <3>2. i - 1 = n
      BY <1>1, <3>1, RingDistinct DEF Position
    <3> QED
      BY <1>1, <3>2
  <2>6. Contents(e)' = [i \in 1 .. n + 1 |-> mem[bufs'[e][Position(e, i)]]]
    BY <2>1, <2>3 DEF Contents
  <2>7. Contents(e)' = [i \in 1 .. n + 1 |-> IF i = n + 1 THEN mem[buf]
                                                          ELSE Contents(e)[i]]
    <3>1. \A i \in 1 .. n : mem[bufs'[e][Position(e, i)]] = Contents(e)[i]
      BY <1>1, <1>2, <2>4, <2>5 DEF Contents
    <3>2. mem[bufs'[e][Position(e, n + 1)]] = mem[buf]
      BY <1>1, <1>2, <2>2
    <3>3. \A i \in 1 .. n + 1 : i = n + 1 \/ i \in 1 .. n
      BY <1>1
    <3> QED
      BY <2>6, <3>1, <3>2, <3>3
  <2>8. Len(Contents(e)) = n /\ Contents(e) \in Seq(Packet \cup {NoPacket})
    BY ContentsAt
  <2> QED
    BY <1>1, <1>3, <2>7, <2>8
<1>4. CASE n = NBufs
  <2>1. nused'[e] = NBufs /\ first'[e] = (first[e] + 1) % NBufs
    BY <1>4 DEF Swap, TypeOK, Advance
  <2>2. s = first[e]
    BY <1>4 DEF NextSlot
  <2>3. \A i \in 1 .. NBufs : Position(e, i)' = (first[e] + i) % NBufs
    <3> TAKE i \in 1 .. NBufs
    <3>1. i - 1 \in Slot /\ (i - 1) + 1 = i
      BY DEF Slot
    <3> QED
      BY <1>1, <2>1, <3>1, RingShift DEF Position
  <2>4. (first[e] + NBufs) % NBufs = first[e]
    BY <1>1, RingIndex DEF Slot
  <2>5. \A i \in 1 .. NBufs - 1 :
          (first[e] + i) % NBufs = Position(e, i + 1) /\ (first[e] + i) % NBufs # s
    <3> TAKE i \in 1 .. NBufs - 1
    <3>1. (i + 1) - 1 = i /\ i \in Slot /\ 0 \in Slot /\ i # 0
      BY DEF Slot
    <3>2. (first[e] + 0) % NBufs = first[e]
      BY <1>1 DEF Slot
    <3>3. (first[e] + i) % NBufs # (first[e] + 0) % NBufs
      BY <1>1, <3>1, RingDistinct
    <3> QED
      BY <2>2, <3>1, <3>2, <3>3 DEF Position
  <2>6. \A i \in 1 .. NBufs : (first[e] + i) % NBufs \in Slot
    BY <1>1 DEF Slot
  <2>7. Contents(e)' = [i \in 1 .. NBufs |-> mem[bufs'[e][(first[e] + i) % NBufs]]]
    BY <2>1, <2>3 DEF Contents
  <2>8. Contents(e)' = [i \in 1 .. NBufs |-> IF i = NBufs THEN mem[buf]
                                                         ELSE Contents(e)[i + 1]]
    <3>1. \A i \in 1 .. NBufs - 1 :
            mem[bufs'[e][(first[e] + i) % NBufs]] = Contents(e)[i + 1]
      BY <1>2, <1>4, <2>5, <2>6 DEF Contents
    <3>2. mem[bufs'[e][(first[e] + NBufs) % NBufs]] = mem[buf]
      BY <1>1, <1>2, <2>2, <2>4
    <3>3. \A i \in 1 .. NBufs : i = NBufs \/ i \in 1 .. NBufs - 1
      OBVIOUS
    <3> QED
      BY <2>7, <3>1, <3>2, <3>3
  <2>9. Len(Contents(e)) = NBufs /\ Contents(e) \in Seq(Packet \cup {NoPacket})
    BY <1>4, ContentsAt
  <2> QED
    BY <2>8, <2>9
<1> QED
  BY <1>3, <1>4

LEMMA TailOf ==
  ASSUME NEW S, NEW s \in Seq(S), Len(s) # 0
  PROVE  /\ s # <<>>
         /\ Tail(s) = [i \in 1 .. Len(s) - 1 |-> s[i + 1]]
<1>1. s # <<>>
  OBVIOUS
<1>2. Tail(s) \in Seq(S) /\ Len(Tail(s)) = Len(s) - 1
  BY <1>1
<1>3. \A i \in 1 .. Len(s) - 1 : Tail(s)[i] = s[i + 1]
  BY <1>1
<1>4. ASSUME NEW t \in Seq(S) PROVE t = [i \in 1 .. Len(t) |-> t[i]]
  OBVIOUS
<1>5. Tail(s) = [i \in 1 .. Len(s) - 1 |-> Tail(s)[i]]
  BY <1>2, <1>4
<1> QED
  BY <1>1, <1>3, <1>5

\* A successful tryConsume takes the oldest packet and leaves the others.
LEMMA ConsumeTails ==
  ASSUME TypeOK, NEW e \in Endpoint, nused[e] # 0,
         first'[e] = Advance(e), nused'[e] = nused[e] - 1, UNCHANGED <<mem, bufs>>
  PROVE  /\ Contents(e) # <<>>
         /\ Head(Contents(e)) = mem[bufs[e][first[e]]]
         /\ Contents(e)' = Tail(Contents(e))
<1> DEFINE n == nused[e]
<1>1. n \in 1 .. NBufs /\ first[e] \in Slot
  BY ContentsAt
<1>2. Len(Contents(e)) = n /\ Contents(e) \in Seq(Packet \cup {NoPacket})
  BY ContentsAt
<1>3. Position(e, 1) = first[e]
  BY <1>1 DEF Position, Slot
<1>4. Head(Contents(e)) = mem[bufs[e][first[e]]]
  BY <1>1, <1>2, <1>3 DEF Contents
<1>5. \A i \in 1 .. n - 1 : Position(e, i)' = Position(e, i + 1)
  <2> TAKE i \in 1 .. n - 1
  <2>1. i - 1 \in Slot /\ (i - 1) + 1 = (i + 1) - 1
    BY <1>1 DEF Slot
  <2> QED
    BY <1>1, <2>1, RingShift DEF Position, Advance
<1>6. Contents(e)' = [i \in 1 .. n - 1 |-> mem[bufs[e][Position(e, i + 1)]]]
  BY <1>5 DEF Contents
<1>7. \A i \in 1 .. n - 1 : mem[bufs[e][Position(e, i + 1)]] = Contents(e)[i + 1]
  BY <1>1 DEF Contents
<1>8. Contents(e)' = [i \in 1 .. n - 1 |-> Contents(e)[i + 1]]
  BY <1>6, <1>7
<1> HIDE DEF n
<1>9. /\ Contents(e) # <<>>
      /\ Tail(Contents(e)) = [i \in 1 .. n - 1 |-> Contents(e)[i + 1]]
  BY <1>1, <1>2, TailOf
<1> QED
  BY <1>4, <1>8, <1>9

\* What no step changes but reading, delivering and consuming.
LEMMA RingsFrame ==
  ASSUME [Next]_vars, ~Deliver, \A c \in Class : ~ReadLoopRead(c),
         \A r \in Reader : ~TryConsume(r)
  PROVE  UNCHANGED <<mem, bufs, first, nused, received>>
BY DEF Next, vars, ringVars, closeVars, loopVars, NewEndpoint, EndpointClose,
       RemoveEndpoint, CloseStep, MuxClose, MuxCloseEndpoint, MuxCloseUnlock,
       MuxCloseConn, ReadLoopError, Dispatch, ReadCall, ReadStep,
       ReadDead, ReadAvailable

LEMMA ContentsFrame ==
  ASSUME NEW e \in Endpoint, mem' = mem, bufs'[e] = bufs[e],
         first'[e] = first[e], nused'[e] = nused[e]
  PROVE  Contents(e)' = Contents(e)
BY DEF Contents, Position

\* Every step of Mux is a step of PacketQueue or leaves its state alone.
LEMMA QueueStep ==
  TypeOK /\ LoopInv /\ BuffersDisjoint /\ [Next]_vars
    => [Queues!Next]_(Queues!vars)
<1> SUFFICES ASSUME TypeOK, LoopInv, BuffersDisjoint, [Next]_vars
             PROVE  [Queues!Next]_(Queues!vars)
  OBVIOUS
<1> DEFINE Same(e) == Contents(e)' = Contents(e)
<1>1. ASSUME \A e \in Endpoint : Same(e), received' = received
      PROVE  UNCHANGED Queues!vars
  BY <1>1 DEF Queues!vars
<1>2. CASE \E c \in Class : ReadLoopRead(c)
  BY <1>1, <1>2, ReadKeepsContents DEF ReadLoopRead
<1>3. CASE Deliver
  <2>1. PICK e \in Endpoint : e = target
    BY <1>3 DEF Deliver, LoopInv
  <2>2. CASE UNCHANGED <<bufs, first, nused>>
    BY <1>1, <1>3, <2>2, ContentsFrame DEF Deliver
  <2>3. CASE Swap(target)
    <3>1. Swap(e) /\ mem' = mem /\ received' = received /\ mem[buf] \in Packet
      BY <1>3, <2>1, <2>3 DEF Deliver, LoopInv
    <3>2. \A f \in Endpoint \ {e} : Same(f)
      BY <3>1, ContentsFrame DEF Swap, TypeOK
    <3>3. Contents(e)' = Append(Queues!MakeRoom(Contents(e)), mem[buf])
      BY <3>1, SwapAppends DEF Queues!MakeRoom
    <3>4. Queues!Enqueue(e)
      BY <3>1, <3>2, <3>3 DEF Queues!Enqueue
    <3> QED
      BY <3>4 DEF Queues!Next
  <2> QED
    BY <1>3, <2>2, <2>3 DEF Deliver
<1>4. CASE \E r \in Reader : TryConsume(r)
  <2>1. PICK r \in Reader : TryConsume(r)
    BY <1>4
  <2> DEFINE e == ReadsFrom[r]
  <2>2. e \in Endpoint
    OBVIOUS
  <2>3. CASE nused[e] = 0
    BY <1>1, <2>1, <2>3, ContentsFrame DEF TryConsume
  <2>4. CASE nused[e] # 0
    <3>1. \A f \in Endpoint \ {e} : Same(f)
      BY <2>1, <2>2, <2>4, ContentsFrame DEF TryConsume, TypeOK
    <3>2. first'[e] = Advance(e) /\ nused'[e] = nused[e] - 1
          /\ UNCHANGED <<mem, bufs>>
          /\ received' = [received EXCEPT ![e] = mem[bufs[e][first[e]]]]
      BY <2>1, <2>2, <2>4 DEF TryConsume, TypeOK
    <3>3. /\ Contents(e) # <<>>
          /\ Head(Contents(e)) = mem[bufs[e][first[e]]]
          /\ Contents(e)' = Tail(Contents(e))
      BY <2>2, <2>4, <3>2, ConsumeTails
    <3>4. Queues!Dequeue(e)
      BY <2>2, <3>1, <3>2, <3>3 DEF Queues!Dequeue
    <3> QED
      BY <2>2, <3>4 DEF Queues!Next
  <2> QED
    BY <2>3, <2>4
<1>5. CASE /\ ~Deliver /\ \A c \in Class : ~ReadLoopRead(c)
           /\ \A r \in Reader : ~TryConsume(r)
  BY <1>1, <1>5, RingsFrame, ContentsFrame
<1> QED
  BY <1>2, <1>3, <1>4, <1>5

\* Every endpoint is the bounded drop-oldest FIFO of PacketQueue, whatever the
\* number of readers, whoever closes it and however its buffers move.
THEOREM MuxImplementsQueues == Spec => ImplementsQueues
<1>1. Init => Queues!Init
  BY DEF Init, Queues!Init, Contents
<1> QED
  BY <1>1, TypeCorrect, BuffersStayDisjoint, QueueStep, PTL
  DEF Spec, ImplementsQueues, Queues!Spec

----------------------------------------------------------------------------
(* Order.  Packets are numbered as they are read, so a packet delivered is *)
(* newer than all that are queued or were returned before.                 *)

\* The number of the last packet that may be in a queue.
Queued == IF loop \in {"dispatch", "deliver"} THEN sent - 1 ELSE sent

\* The packets of q are numbered in order, after last and up to b.
Ordered(q, last, b) ==
  /\ last = NoPacket \/ (last \in Packet /\ last.id <= b)
  /\ \A i \in 1 .. Len(q) :
       /\ q[i] \in Packet /\ q[i].id <= b
       /\ Later(IF i = 1 THEN last ELSE q[i - 1], q[i])

OrderInv == \A e \in Endpoint : Ordered(Contents(e), received[e], Queued)

LEMMA OrderedAppend ==
  ASSUME NEW q \in Seq(Packet \cup {NoPacket}), NEW last, NEW b \in Int,
         Ordered(q, last, b), NEW p \in Packet, p.id > b
  PROVE  Ordered(Append(q, p), last, p.id)
<1> DEFINE a == Append(q, p)
<1>1. \A x \in Packet : x.id \in Int
  BY DEF Packet
<1>2. Len(a) = Len(q) + 1 /\ a[Len(q) + 1] = p /\ Len(q) \in Nat
      /\ \A i \in 1 .. Len(q) : a[i] = q[i]
  OBVIOUS
<1>3. last = NoPacket \/ (last \in Packet /\ last.id < p.id)
  BY <1>1 DEF Ordered
<1>4. \A i \in 1 .. Len(q) : q[i] \in Packet /\ q[i].id < p.id
  BY <1>1 DEF Ordered
<1> HIDE DEF a
<1>5. ASSUME NEW i \in 1 .. Len(a)
      PROVE  /\ a[i] \in Packet /\ a[i].id <= p.id
             /\ Later(IF i = 1 THEN last ELSE a[i - 1], a[i])
  <2>1. CASE i \in 1 .. Len(q)
    <3>1. a[i] = q[i] /\ (i # 1 => a[i - 1] = q[i - 1])
      BY <1>2, <2>1
    <3> QED
      BY <1>1, <1>4, <2>1, <3>1 DEF Ordered
  <2>2. CASE i = Len(q) + 1
    <3>1. a[i] = p /\ (i # 1 => i - 1 \in 1 .. Len(q) /\ a[i - 1] = q[i - 1])
      BY <1>2, <2>2
    <3> QED
      BY <1>1, <1>3, <1>4, <3>1 DEF Later
  <2> QED
    BY <1>2, <2>1, <2>2
<1>6. last = NoPacket \/ (last \in Packet /\ last.id <= p.id)
  BY <1>1, <1>3
<1> QED
  BY <1>5, <1>6 DEF Ordered, a

\* The oldest packet may leave the queue, consumed or dropped.
LEMMA OrderedTail ==
  ASSUME NEW q \in Seq(Packet \cup {NoPacket}), NEW last, NEW b \in Int,
         Ordered(q, last, b), Len(q) # 0
  PROVE  Ordered(Tail(q), Head(q), b) /\ Ordered(Tail(q), last, b)
<1>1. \A x \in Packet : x.id \in Int
  BY DEF Packet
<1>2. Tail(q) = [i \in 1 .. Len(q) - 1 |-> q[i + 1]] /\ q # <<>>
  BY TailOf
<1>3. Len(Tail(q)) = Len(q) - 1 /\ Len(q) \in Nat \ {0} /\ Head(q) = q[1]
  BY <1>2
<1> DEFINE t == Tail(q)
<1>4. \A i \in 1 .. Len(t) : t[i] = q[i + 1] /\ i + 1 \in 1 .. Len(q)
  BY <1>2, <1>3
<1>5. Head(q) \in Packet /\ Head(q).id <= b /\ Later(last, Head(q))
  BY <1>3 DEF Ordered
<1> HIDE DEF t
<1>6. ASSUME NEW i \in 1 .. Len(t)
      PROVE  /\ t[i] \in Packet /\ t[i].id <= b
             /\ Later(IF i = 1 THEN Head(q) ELSE t[i - 1], t[i])
             /\ Later(IF i = 1 THEN last ELSE t[i - 1], t[i])
  <2>1. /\ q[i + 1] \in Packet /\ q[i + 1].id <= b
        /\ Later(q[i], q[i + 1])
    BY <1>4 DEF Ordered
  <2>2. t[i] = q[i + 1] /\ (i # 1 => t[i - 1] = q[i])
    <3>1. i # 1 => i - 1 \in 1 .. Len(t) /\ (i - 1) + 1 = i
      BY <1>3 DEF t
    <3> QED
      BY <1>4, <3>1
  <2>3. i = 1 => Later(last, t[i]) /\ Later(Head(q), t[i])
    <3>1. last = NoPacket \/ last \in Packet
      BY DEF Ordered
    <3> QED
      BY <1>1, <1>3, <1>5, <2>1, <2>2, <3>1, NoPacketAssumption DEF Later
  <2> QED
    BY <2>1, <2>2, <2>3
<1>7. last = NoPacket \/ (last \in Packet /\ last.id <= b)
  BY DEF Ordered
<1> QED
  BY <1>5, <1>6, <1>7 DEF Ordered, t

LEMMA OrderedUpTo ==
  ASSUME NEW q, NEW last, NEW b \in Int, NEW c \in Int, b <= c, Ordered(q, last, b)
  PROVE  Ordered(q, last, c)
<1>1. \A x \in Packet : x.id \in Int
  BY DEF Packet
<1> QED
  BY <1>1 DEF Ordered

\* No step lowers the number of the last packet that may be queued.
LEMMA QueuedGrows ==
  ASSUME TypeOK, TypeOK', [Next]_vars
  PROVE  Queued \in Int /\ Queued' \in Int /\ Queued <= Queued'
<1>1. sent \in Int /\ sent' \in Int
  BY DEF TypeOK
<1>2. \/ sent' = sent /\ (loop' \in {"dispatch", "deliver"}
                            => loop \in {"dispatch", "deliver"})
      \/ sent' = sent + 1 /\ loop = "read" /\ loop' = "dispatch"
  BY DEF Next, vars, ringVars, closeVars, loopVars, NewEndpoint, EndpointClose,
         RemoveEndpoint, CloseStep, MuxClose, MuxCloseEndpoint, MuxCloseUnlock,
         MuxCloseConn, ReadLoopRead, ReadLoopError, Dispatch, Deliver, ReadCall,
         ReadStep, ReadDead, ReadAvailable, TryConsume
<1>3. "read" \notin {"dispatch", "deliver"}
  OBVIOUS
<1>4. CASE sent' = sent + 1 /\ loop = "read" /\ loop' = "dispatch"
  <2>1. Queued = sent /\ Queued' = sent' - 1
    BY <1>3, <1>4 DEF Queued
  <2> QED
    BY <1>1, <1>4, <2>1
<1>5. CASE sent' = sent /\ (loop' \in {"dispatch", "deliver"}
                              => loop \in {"dispatch", "deliver"})
  BY <1>1, <1>5 DEF Queued
<1> QED
  BY <1>2, <1>4, <1>5

LEMMA OrderStep ==
  /\ TypeOK /\ LoopInv /\ BuffersDisjoint /\ OrderInv
  /\ TypeOK' /\ [Next]_vars
  => OrderInv'
<1> SUFFICES ASSUME TypeOK, LoopInv, BuffersDisjoint, OrderInv, TypeOK',
                    [Next]_vars, NEW e \in Endpoint
             PROVE  Ordered(Contents(e)', received'[e], Queued')
  BY DEF OrderInv
<1>1. /\ Queued \in Int /\ Queued' \in Int /\ Queued <= Queued'
      /\ Ordered(Contents(e), received[e], Queued)
      /\ Contents(e) \in Seq(Packet \cup {NoPacket})
  BY QueuedGrows, ContentsAt DEF OrderInv
<1>2. ASSUME Contents(e)' = Contents(e), received'[e] = received[e]
      PROVE  Ordered(Contents(e)', received'[e], Queued')
  BY <1>1, <1>2, OrderedUpTo
<1>3. CASE \E c \in Class : ReadLoopRead(c)
  BY <1>2, <1>3, ReadKeepsContents DEF ReadLoopRead
<1>4. CASE Deliver
  <2>1. CASE UNCHANGED <<bufs, first, nused>>
    BY <1>2, <1>4, <2>1, ContentsFrame DEF Deliver
  <2>2. CASE Swap(target) /\ e # target
    <3>1. target \in Endpoint
      BY <1>4 DEF Deliver, LoopInv
    <3>2. Contents(e)' = Contents(e)
      BY <1>4, <2>2, <3>1, ContentsFrame DEF Swap, Deliver, TypeOK
    <3> QED
      BY <1>2, <1>4, <3>2 DEF Deliver
  <2>3. CASE Swap(target) /\ e = target
    <3> DEFINE q == Contents(e)
               room == IF Len(q) = NBufs THEN Tail(q) ELSE q
    <3>1. /\ Swap(e) /\ mem' = mem /\ received' = received
          /\ mem[buf] \in Packet /\ mem[buf].id = sent
      BY <1>4, <2>3 DEF Deliver, LoopInv
    <3>2. Contents(e)' = Append(room, mem[buf])
      BY <3>1, SwapAppends
    <3>3. Queued = sent - 1 /\ Queued' = sent /\ sent \in Int
      BY <1>4 DEF Deliver, Queued, TypeOK
    <3>4. room \in Seq(Packet \cup {NoPacket}) /\ Ordered(room, received[e], Queued)
      <4>1. CASE Len(q) = NBufs
        <5>1. Len(q) # 0 /\ q # <<>>
          BY <1>1, <4>1
        <5>2. Ordered(Tail(q), received[e], Queued)
          BY <1>1, <5>1, OrderedTail
        <5>3. Tail(q) \in Seq(Packet \cup {NoPacket})
          BY <1>1, <5>1
        <5> QED
          BY <4>1, <5>2, <5>3
      <4> QED
        BY <1>1, <4>1
    <3> HIDE DEF room, q
    <3>5. mem[buf].id > Queued
      BY <3>1, <3>3
    <3>6. Ordered(Append(room, mem[buf]), received[e], mem[buf].id)
      BY <1>1, <3>1, <3>4, <3>5, OrderedAppend
    <3> QED
      BY <3>1, <3>2, <3>3, <3>6
  <2> QED
    BY <1>4, <2>1, <2>2, <2>3 DEF Deliver
<1>5. CASE \E r \in Reader : TryConsume(r)
  <2>1. PICK r \in Reader : TryConsume(r)
    BY <1>5
  <2>2. CASE nused[ReadsFrom[r]] = 0
    BY <1>2, <2>1, <2>2, ContentsFrame DEF TryConsume
  <2>3. CASE nused[ReadsFrom[r]] # 0 /\ ReadsFrom[r] # e
    <3>1. Contents(e)' = Contents(e)
      BY <2>1, <2>3, ContentsFrame, SMTT(30) DEF TryConsume, TypeOK
    <3> QED
      BY <1>2, <2>1, <2>3, <3>1, ZenonT(60) DEF TryConsume, TypeOK
  <2>4. CASE nused[ReadsFrom[r]] # 0 /\ ReadsFrom[r] = e
    <3>1. /\ first'[e] = Advance(e) /\ nused'[e] = nused[e] - 1
          /\ UNCHANGED <<mem, bufs>>
          /\ received'[e] = mem[bufs[e][first[e]]]
      BY <2>1, <2>4, SMTT(30) DEF TryConsume, TypeOK
    <3>2. /\ Head(Contents(e)) = mem[bufs[e][first[e]]]
          /\ Contents(e)' = Tail(Contents(e))
      BY <2>4, <3>1, ConsumeTails
    <3>3. Len(Contents(e)) # 0
      BY <2>4, ContentsAt
    <3>4. Ordered(Tail(Contents(e)), Head(Contents(e)), Queued)
      BY <1>1, <3>3, OrderedTail
    <3> QED
      BY <1>1, <3>1, <3>2, <3>4, OrderedUpTo
  <2> QED
    BY <2>2, <2>3, <2>4
<1>6. CASE /\ ~Deliver /\ \A c \in Class : ~ReadLoopRead(c)
           /\ \A r \in Reader : ~TryConsume(r)
  BY <1>2, <1>6, RingsFrame, ContentsFrame
<1> QED
  BY <1>3, <1>4, <1>5, <1>6

\* Readers of an endpoint get packets in the order the connection produced
\* them, and none twice, even when the ring overflows.
THEOREM PacketsStayInOrder == Spec => []InOrder
<1>1. Init => OrderInv
  BY DEF Init, OrderInv, Ordered, Contents
<1>2. TypeOK /\ OrderInv => InOrder
  <2> SUFFICES ASSUME TypeOK, OrderInv, NEW e \in Endpoint, NEW i \in 1 .. nused[e]
               PROVE  Later(IF i = 1 THEN received[e] ELSE Contents(e)[i - 1],
                            Contents(e)[i])
    BY DEF InOrder
  <2> QED
    BY ContentsAt DEF OrderInv, Ordered
<1> QED
  BY <1>1, <1>2, TypeCorrect, BuffersStayDisjoint, OrderStep, PTL DEF Spec
============================================================================
