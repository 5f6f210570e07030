--------------------------- MODULE DtlsConnProofs ---------------------------
(***************************************************************************)
(* createConn never returns a connection whose handshake has not finished, *)
(* for any roles and any number of records in flights and datagrams.       *)
(***************************************************************************)
EXTENDS DtlsConn, TLAPS

Progress == {"early", "last", "sent", "finished"}

ConnType ==
  [role : {"client", "server"}, suite : BOOLEAN, progress : Progress,
   flight : Progress \cup {"none"}, sends : Nat, lock : Goroutine \cup {"none"},
   rest : Nat, data : Nat, nextConn : {"open", "failed", "closed"},
   connErr : {"none", "closed", "failed"}, completed : BOOLEAN,
   decrypted : {"open", "closed"}]

Typed ==
  /\ c \in ConnType
  /\ stop \in [Goroutine -> {"no", "closing", "storing", "looking", "signalling"}]
  /\ why \in [Goroutine -> {"closed", "failed"}]

\* The handshake has finished, or an error is stored.
Over == c.progress = "finished" \/ c.connErr # "none"

\* Who looks at handshakeCompleted, in order to close it, does so when it is over.
SignalsAreLate == \A g \in Goroutine : stop[g] \in {"looking", "signalling"} => Over

ConnInv == Typed /\ SignalsAreLate /\ (c.completed => Over) /\ SuccessMeansFinished

\* ConnInv holds of a new Conn: nothing is completed and nobody stops.
LEMMA ConnInitially == ConnInit => ConnInv
<1> SUFFICES ASSUME ConnInit PROVE ConnInv
  OBVIOUS
<1>1. c = [role |-> c.role, suite |-> c.suite, progress |-> c.progress,
           flight |-> c.flight, sends |-> c.sends, lock |-> c.lock, rest |-> c.rest,
           data |-> c.data, nextConn |-> c.nextConn, connErr |-> c.connErr,
           completed |-> c.completed, decrypted |-> c.decrypted]
  BY DEF ConnInit
<1>2. c.role \in Roles
  BY DEF ConnInit
<1>3. c.role \in {"client", "server"}
  BY <1>2, ConnAssumption
<1>4. c.sends = 0 /\ c.rest = 0 /\ c.data = 0
  BY DEF ConnInit
<1>5. /\ c.progress = "early" /\ c.flight = "none" /\ c.lock = "none"
      /\ c.nextConn = "open" /\ c.connErr = "none" /\ c.decrypted = "open"
  BY DEF ConnInit
<1>6. c.suite = FALSE /\ c.completed = FALSE
  BY DEF ConnInit
<1>7. c \in ConnType
  <2>1. c.sends \in Nat /\ c.rest \in Nat /\ c.data \in Nat
    BY <1>4
  <2>2. /\ c.progress \in Progress /\ c.flight \in Progress \cup {"none"}
        /\ c.lock \in Goroutine \cup {"none"}
        /\ c.nextConn \in {"open", "failed", "closed"}
        /\ c.connErr \in {"none", "closed", "failed"} /\ c.decrypted \in {"open", "closed"}
    BY <1>5 DEF Progress
  <2>3. c.suite \in BOOLEAN /\ c.completed \in BOOLEAN
    BY <1>6
  <2> QED
    BY <1>1, <1>3, <2>1, <2>2, <2>3 DEF ConnType
<1>8. Typed /\ SignalsAreLate
  BY <1>7 DEF ConnInit, Typed, SignalsAreLate
<1> QED
  BY <1>6, <1>8 DEF ConnInv, SuccessMeansFinished, ConnInit

\* A step that leaves createConn alone, undoes neither the end of the handshake nor
\* a stored error, and begins to signal only when it is over, preserves ConnInv.
LEMMA QuietStep ==
  ASSUME ConnInv, Typed', creator' = creator, Over => Over',
         c.progress = "finished" => c'.progress = "finished",
         c'.completed => c.completed \/ Over',
         \A g \in Goroutine : stop'[g] \in {"looking", "signalling"} =>
                                stop[g] \in {"looking", "signalling"} \/ Over'
  PROVE  ConnInv'
<1>1. SignalsAreLate'
  BY DEF ConnInv, SignalsAreLate
<1>2. (c.completed => Over)'
  BY DEF ConnInv
<1>3. SuccessMeansFinished'
  BY DEF ConnInv, SuccessMeansFinished
<1> QED
  BY <1>1, <1>2, <1>3 DEF ConnInv

\* The fields the argument is about.
Same == c'.progress = c.progress /\ c'.connErr = c.connErr /\ c'.completed = c.completed

\* What a step does to stopWithError when it signals nothing: nobody enters it but
\* at its start.
Calm ==
  /\ stop' \in [Goroutine -> {"no", "closing", "storing", "looking", "signalling"}]
  /\ why' \in [Goroutine -> {"closed", "failed"}]
  /\ \A g \in Goroutine : stop'[g] \in {"looking", "signalling"} =>
                            stop[g] \in {"looking", "signalling"}

\* A step that leaves those fields and createConn alone and is calm preserves ConnInv.
LEMMA CalmStep ==
  ASSUME ConnInv, c' \in ConnType, Same, Calm, creator' = creator
  PROVE  ConnInv'
<1>1. Typed'
  BY DEF Calm, Typed
<1>2. Over => Over'
  BY DEF Same, Over
<1> QED
  BY <1>1, <1>2, QuietStep DEF Same, Calm

\* Calling stopWithError, or not, is calm.
LEMMA StopIsCalm ==
  ASSUME Typed, NEW g \in Goroutine,
         UNCHANGED stopVars \/ (\E e \in {"closed", "failed"} : StopWithError(g, e))
  PROVE  Calm
<1>1. CASE UNCHANGED stopVars
  BY <1>1 DEF Typed, Calm, stopVars
<1>2. CASE \E e \in {"closed", "failed"} : StopWithError(g, e)
  BY <1>2 DEF Typed, Calm, StopWithError
<1> QED
  BY <1>1, <1>2

\* Every step of stopWithError and of signalHandshakeComplete preserves ConnInv:
\* the error is stored before handshakeCompleted is looked at.
LEMMA StopsKeepInv == ASSUME ConnInv, NEW g \in Goroutine, Stops(g) PROVE ConnInv'
<1> USE DEF ConnInv
<1>0. creator' = creator
  BY DEF Stops, CloseNext, StoreErr, LookAtCompleted, CloseCompleted, ownerVars
<1>1. CASE CloseNext(g)
  <2>1. c' \in ConnType /\ Same
    BY <1>1 DEF CloseNext, Typed, ConnType, Same
  <2>2. Calm
    BY <1>1 DEF CloseNext, Typed, Calm
  <2> QED
    BY <1>0, <2>1, <2>2, CalmStep
<1>2. CASE StoreErr(g)
  <2>1. why[g] \in {"closed", "failed"}
    BY DEF Typed
  <2>2. c' \in ConnType /\ c'.connErr = why[g] /\ c'.progress = c.progress /\ c'.completed = c.completed
    BY <1>2, <2>1 DEF StoreErr, Stored, Typed, ConnType
  <2>3. Over'
    BY <2>1, <2>2 DEF Over
  <2>4. Typed'
    BY <1>2, <2>2 DEF StoreErr, Typed
  <2> QED
    BY <1>0, <2>2, <2>3, <2>4, QuietStep
<1>3. CASE LookAtCompleted(g)
  <2>1. c' \in ConnType /\ Same
    BY <1>3 DEF LookAtCompleted, Typed, Same
  <2>2. Calm
    BY <1>3 DEF LookAtCompleted, Typed, Calm
  <2> QED
    BY <1>0, <2>1, <2>2, CalmStep
<1>4. CASE CloseCompleted(g)
  <2>1. Over
    BY <1>4 DEF CloseCompleted, SignalsAreLate
  <2>2. c' \in ConnType /\ c'.progress = c.progress /\ c'.connErr = c.connErr
    <3>1. CASE c' = c
      BY <3>1 DEF Typed
    <3>2. CASE c' = [c EXCEPT !.completed = TRUE]
      BY <3>2 DEF Typed, ConnType
    <3> QED
      BY <1>4, <3>1, <3>2 DEF CloseCompleted
  <2>3. Over'
    BY <2>1, <2>2 DEF Over
  <2>4. Typed'
    BY <1>4, <2>2 DEF CloseCompleted, Typed
  <2> QED
    BY <1>0, <2>2, <2>3, <2>4, QuietStep
<1> QED
  BY <1>1, <1>2, <1>3, <1>4 DEF Stops

\* The steps of Close are calm, by either goroutine.
LEMMA ClosesKeepInv == ASSUME ConnInv, NEW g \in Goroutine, Closes(g) PROVE ConnInv'
<1> USE DEF ConnInv
<1>0. creator' = creator
  BY DEF Closes, Notify, CloseStops, CloseReturns, ownerVars
<1>1. Calm
  <2>1. UNCHANGED stopVars \/ (\E e \in {"closed", "failed"} : StopWithError(g, e))
    BY DEF Closes, Notify, CloseStops, CloseReturns, SendEncrypted, InternalSend
  <2> QED
    BY <2>1, StopIsCalm
<1>2. c' \in ConnType /\ Same
  <2>1. CASE c' = c
    BY <2>1 DEF Typed, Same
  <2>2. CASE c' = [c EXCEPT !.lock = g]
    BY <2>2 DEF Typed, ConnType, Same
  <2>3. CASE c' = [c EXCEPT !.lock = "none"]
    BY <2>3 DEF Typed, ConnType, Same
  <2> QED
    BY <2>1, <2>2, <2>3 DEF Closes, Notify, CloseStops, CloseReturns
<1> QED
  BY <1>0, <1>1, <1>2, CalmStep

\* A record that comes changes only the counts of the datagram and of the data.
LEMMA ReceivesKeepInv == ASSUME ConnInv, Receives PROVE ConnInv'
<1> USE DEF ConnInv
<1>1. PICK place \in {"handling", "notifying", "delivering", "leaving"}, d \in {0, 1} :
        Arrives(place, d)
  BY DEF Receives, RecvHandshake, RecvCloseNotify, RecvData, RecvBad
<1>2. Calm
  <2>1. "inbound" \in Goroutine
    BY DEF Goroutine
  <2>2. UNCHANGED stopVars \/ (\E e \in {"closed", "failed"} : StopWithError("inbound", e))
    BY DEF Receives, RecvHandshake, RecvCloseNotify, RecvData, RecvBad
  <2> QED
    BY <2>1, <2>2, StopIsCalm
<1>3. c' \in ConnType /\ Same
  <2>1. c.data + d \in Nat /\ (c.rest > 0 => c.rest - 1 \in Nat)
    BY DEF Typed, ConnType
  <2>2. \E n \in Nat, m \in Nat : c' = [c EXCEPT !.rest = n, !.data = m]
    <3>1. ASSUME NEW n \in 0 .. MaxRest, c' = [c EXCEPT !.rest = n, !.data = @ + d]
          PROVE  \E i \in Nat, m \in Nat : c' = [c EXCEPT !.rest = i, !.data = m]
      <4>1. n \in Nat
        BY ConnAssumption
      <4> QED
        BY <2>1, <3>1, <4>1
    <3>2. ASSUME c.rest > 0, c' = [c EXCEPT !.rest = @ - 1, !.data = @ + d]
          PROVE  \E i \in Nat, m \in Nat : c' = [c EXCEPT !.rest = i, !.data = m]
      BY <2>1, <3>2
    <3> QED
      BY <1>1, <3>1, <3>2 DEF Arrives
  <2>3. PICK n \in Nat, m \in Nat : c' = [c EXCEPT !.rest = n, !.data = m]
    BY <2>2
  <2>4. c' \in ConnType
    BY <2>3 DEF Typed, ConnType
  <2>5. Same
    BY <2>3 DEF Typed, ConnType, Same
  <2> QED
    BY <2>4, <2>5
<1>4. creator' = creator
  BY <1>1 DEF Arrives, ownerVars
<1> QED
  BY <1>2, <1>3, <1>4, CalmStep

\* The handshake finishes, and goroutine g goes on to signal it.
LEMMA FinishKeepsInv ==
  ASSUME ConnInv, NEW g \in Goroutine, c' \in ConnType, c'.progress = "finished",
         SignalHandshakeComplete(g), creator' = creator
  PROVE  ConnInv'
<1>1. Typed'
  BY DEF ConnInv, Typed, SignalHandshakeComplete
<1>2. Over'
  BY DEF Over
<1> QED
  BY <1>1, <1>2, QuietStep

\* The rest of the inbound goroutine: only HandleFinished signals.
LEMMA InboundKeepsInv ==
  ASSUME ConnInv,
         ReadFails \/ ReadAfterStop \/ HandshakeMessage \/ DatagramDone \/ InboundLeaves
  PROVE  ConnInv'
<1> USE DEF ConnInv
<1>0. "inbound" \in Goroutine
  BY DEF Goroutine
<1>1. CASE HandleFinished
  <2>1. c' \in ConnType /\ c'.progress = "finished"
    BY <1>0, <1>1 DEF HandleFinished, Typed, ConnType, Progress
  <2>2. SignalHandshakeComplete("inbound") /\ creator' = creator
    BY <1>1 DEF HandleFinished, ownerVars
  <2> QED
    BY <1>0, <2>1, <2>2, FinishKeepsInv
<1>2. CASE HandleLast
  <2>1. c.progress = "early" /\ creator' = creator /\ UNCHANGED stopVars
    BY <1>2 DEF HandleLast, ownerVars
  <2>2. c' \in ConnType /\ c'.connErr = c.connErr /\ c'.completed = c.completed
    <3>1. CASE c' = [c EXCEPT !.progress = "last", !.flight = "last"]
      BY <3>1 DEF Typed, ConnType, Progress
    <3>2. CASE c' = [c EXCEPT !.progress = "last"]
      BY <3>2 DEF Typed, ConnType, Progress
    <3> QED
      BY <1>2, <3>1, <3>2 DEF HandleLast
  <2>3. Over => Over'
    BY <2>1, <2>2 DEF Over
  <2>4. Typed'
    BY <2>1, <2>2 DEF Typed, stopVars
  <2> QED
    BY <2>1, <2>2, <2>3, <2>4, QuietStep DEF stopVars
<1>3. ASSUME ReadFails \/ ReadAfterStop \/ HandleMessage \/ FinishedHandled \/ HandleFails
               \/ DatagramDone \/ InboundLeaves
      PROVE  ConnInv'
  <2> USE <1>3 DEF ReadFails, ReadAfterStop, HandleMessage, FinishedHandled, HandleFails,
                   DatagramDone, InboundLeaves
  <2>1. UNCHANGED stopVars \/ (\E e \in {"closed", "failed"} : StopWithError("inbound", e))
    OBVIOUS
  <2>2. Calm
    BY <1>0, <2>1, StopIsCalm
  <2>3. creator' = creator
    BY DEF ownerVars
  <2>4. c' \in ConnType /\ Same
    <3>1. CASE c' = c
      BY <3>1 DEF Typed, Same
    <3>2. CASE c' = [c EXCEPT !.suite = TRUE]
      BY <3>2 DEF Typed, ConnType, Same
    <3>3. CASE c' = [c EXCEPT !.lock = "none"]
      BY <3>3 DEF Typed, ConnType, Same
    <3>4. CASE c' = [c EXCEPT !.decrypted = CloseDecrypted]
      BY <3>4 DEF CloseDecrypted, Typed, ConnType, Same
    <3> QED
      BY <3>1, <3>2, <3>3, <3>4
  <2> QED
    BY <2>2, <2>3, <2>4, CalmStep
<1> QED
  BY <1>1, <1>2, <1>3 DEF HandshakeMessage

\* The outbound goroutine: only the server's last flight signals.
LEMMA OutboundKeepsInv ==
  ASSUME ConnInv, Tick \/ StartFlight \/ SendRecord \/ FlightFails \/ FlightSent \/ OutboundEnds
  PROVE  ConnInv'
<1> USE DEF ConnInv
<1>0. "outbound" \in Goroutine
  BY DEF Goroutine
<1>1. CASE FlightSent
  <2>0. creator' = creator
    BY <1>1 DEF FlightSent, ownerVars
  <2>1. CASE c.role = "server" /\ c.flight = "last"
    <3>1. c' = [c EXCEPT !.lock = "none", !.flight = "none", !.progress = "finished"]
      BY <1>1, <2>1 DEF FlightSent
    <3>2. c' \in ConnType /\ c'.progress = "finished"
      BY <3>1 DEF Typed, ConnType, Progress
    <3>3. SignalHandshakeComplete("outbound")
      BY <1>1, <2>1 DEF FlightSent
    <3> QED
      BY <1>0, <2>0, <3>2, <3>3, FinishKeepsInv
  <2>2. CASE ~(c.role = "server" /\ c.flight = "last")
    <3>1. PICK p \in Progress :
            /\ c' = [c EXCEPT !.lock = "none", !.flight = "none", !.progress = p]
            /\ c.progress = "finished" => p = "finished"
      <4>1. c.progress \in Progress /\ "sent" \in Progress
        BY DEF Typed, ConnType, Progress
      <4>2. CASE c.flight = "last" /\ c.progress = "last"
        BY <1>1, <2>2, <4>1, <4>2 DEF FlightSent
      <4>3. CASE ~(c.flight = "last" /\ c.progress = "last")
        BY <1>1, <2>2, <4>1, <4>3 DEF FlightSent
      <4> QED
        BY <4>2, <4>3
    <3>2. /\ c' \in ConnType /\ c'.progress = p
          /\ c'.connErr = c.connErr /\ c'.completed = c.completed
      BY <3>1 DEF Typed, ConnType
    <3>3. UNCHANGED stopVars
      BY <1>1, <2>2 DEF FlightSent
    <3>4. Over => Over'
      BY <3>1, <3>2 DEF Over
    <3>5. Typed'
      BY <3>2, <3>3 DEF Typed, stopVars
    <3> QED
      BY <2>0, <3>1, <3>2, <3>3, <3>4, <3>5, QuietStep DEF stopVars
  <2> QED
    BY <2>1, <2>2
<1>2. /\ \A n \in 0 .. MaxSends : n \in Nat
      /\ c.sends > 0 => c.sends - 1 \in Nat
  BY ConnAssumption DEF Typed, ConnType
<1>3. ASSUME Tick \/ StartFlight \/ SendRecord \/ FlightFails \/ OutboundEnds PROVE ConnInv'
  <2> USE <1>3 DEF Tick, StartFlight, SendRecord, FlightFails, OutboundEnds
  <2>1. UNCHANGED stopVars \/ (\E e \in {"closed", "failed"} : StopWithError("outbound", e))
    BY DEF InternalSend
  <2>2. Calm
    BY <1>0, <2>1, StopIsCalm
  <2>3. creator' = creator
    BY DEF ownerVars
  <2>4. c' \in ConnType /\ Same
    <3>1. CASE c' = c
      BY <3>1 DEF Typed, Same
    <3>2. CASE c' = [c EXCEPT !.flight = c.progress]
      BY <3>2 DEF Typed, ConnType, Same
    <3>3. ASSUME NEW n \in 0 .. MaxSends, c' = [c EXCEPT !.lock = "outbound", !.sends = n]
          PROVE  c' \in ConnType /\ Same
      <4>1. n \in Nat
        BY <1>2
      <4>2. c' \in ConnType
        BY <1>0, <3>3, <4>1 DEF Typed, ConnType
      <4>3. Same
        BY <3>3 DEF Typed, ConnType, Same
      <4> QED
        BY <4>2, <4>3
    <3>4. CASE c.sends > 0 /\ c' = [c EXCEPT !.sends = @ - 1]
      <4>1. c.sends - 1 \in Nat
        BY <1>2, <3>4
      <4>2. PICK n \in Nat : c' = [c EXCEPT !.sends = n]
        BY <3>4, <4>1
      <4>3. c' \in ConnType
        BY <4>2 DEF Typed, ConnType
      <4>4. Same
        BY <4>2 DEF Typed, ConnType, Same
      <4> QED
        BY <4>3, <4>4
    <3> QED
      BY <3>1, <3>2, <3>3, <3>4
  <2> QED
    BY <2>2, <2>3, <2>4, CalmStep
<1> QED
  BY <1>1, <1>3

\* createConn looks at connErr after the completion: if no error is stored, the
\* handshake has finished.
LEMMA CreateConnKeepsInv == ASSUME ConnInv, CreateConnReturns PROVE ConnInv'
<1> USE DEF ConnInv
<1>1. c' = c /\ stop' = stop /\ why' = why
  BY DEF CreateConnReturns, stopVars
<1>2. Typed' /\ SignalsAreLate' /\ (c.completed => Over)'
  BY <1>1 DEF Typed, SignalsAreLate, Over
<1>3. creator' = "ok" => c.progress = "finished"
  BY DEF CreateConnReturns, Over
<1> QED
  BY <1>1, <1>2, <1>3 DEF SuccessMeansFinished

\* What else the owner does, and the failure of the connection below, are calm.
LEMMA OwnerKeepsInv ==
  ASSUME ConnInv, Deliver \/ Read \/ ReadEnds \/ Write \/ WriteReturns \/ Close \/ TransportFails
  PROVE  ConnInv'
<1> USE DEF ConnInv, Deliver, Read, ReadEnds, Write, WriteReturns, Close, TransportFails
<1>0. "writer" \in Goroutine
  BY DEF Goroutine
<1>1. UNCHANGED stopVars \/ (\E e \in {"closed", "failed"} : StopWithError("writer", e))
  BY DEF InternalSend
<1>2. Calm
  BY <1>0, <1>1, StopIsCalm
<1>3. creator' = creator
  BY DEF ownerVars
<1>4. c' \in ConnType /\ Same
  <2>1. CASE c' = c
    BY <2>1 DEF Typed, Same
  <2>2. CASE c' = [c EXCEPT !.lock = "writer"]
    BY <1>0, <2>2 DEF Typed, ConnType, Same
  <2>3. CASE c' = [c EXCEPT !.lock = "none"]
    BY <2>3 DEF Typed, ConnType, Same
  <2>4. CASE c' = [c EXCEPT !.nextConn = "failed"]
    BY <2>4 DEF Typed, ConnType, Same
  <2> QED
    BY <2>1, <2>2, <2>3, <2>4
<1> QED
  BY <1>2, <1>3, <1>4, CalmStep

\* createConn returns a connection without an error only if its handshake has
\* finished: stopWithError stores the error before it signals the completion, and
\* the handshake handlers finish before they do.
THEOREM SuccessIsFinished == ConnSpec => []SuccessMeansFinished
<1>1. ConnInv /\ [ConnNext]_connVars => ConnInv'
  <2> SUFFICES ASSUME ConnInv, [ConnNext]_connVars PROVE ConnInv'
    OBVIOUS
  <2>1. CASE UNCHANGED connVars
    BY <2>1 DEF ConnInv, Typed, SignalsAreLate, Over, SuccessMeansFinished,
                connVars, stopVars, ownerVars
  <2>2. ASSUME NEW g \in Goroutine, Runs(g) PROVE ConnInv'
    BY <2>2, StopsKeepInv, ClosesKeepInv, InboundKeepsInv, OutboundKeepsInv, OwnerKeepsInv
       DEF Runs
  <2>3. CASE ConnNext
    BY <2>2, <2>3, ReceivesKeepInv, OutboundKeepsInv, CreateConnKeepsInv, OwnerKeepsInv
       DEF ConnNext
  <2> QED
    BY <2>1, <2>3
<1>2. ConnInv => SuccessMeansFinished
  BY DEF ConnInv
<1> QED
  BY <1>1, <1>2, ConnInitially, PTL DEF ConnSpec
============================================================================
