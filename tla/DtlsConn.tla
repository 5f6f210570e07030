------------------------------ MODULE DtlsConn ------------------------------
(***************************************************************************)
(* The life of a dtls.Conn around its handshake (conn.go): createConn      *)
(* waits until the handshake is over, the inbound goroutine reads records, *)
(* the outbound goroutine sends flights, and the owner reads, writes and   *)
(* closes.  Each of them may run stopWithError, which closes the           *)
(* connection below, stores the error and ends the handshake, in steps     *)
(* that no lock protects.                                                  *)
(*                                                                         *)
(* Of the handshake only its progress is here; Handshake has its messages. *)
(* The connection below is external: a mux endpoint or a UDP socket.  It   *)
(* may fail at any time; once it is closed, a write may fail and a read    *)
(* may still return what has come before.                                  *)
(***************************************************************************)
EXTENDS Integers

CONSTANTS
  Roles,     \* "client", "server"
  MaxSends,  \* bound: records in a flight
  MaxRest,   \* bound: records in a datagram after the first
  MaxData    \* bound: records of application data that come

ASSUME ConnAssumption ==
  Roles \subseteq {"client", "server"} /\ {MaxSends, MaxRest, MaxData} \subseteq Nat

Goroutine == {"inbound", "outbound", "writer", "closer"}

VARIABLES
  c,        \* the Conn, see ConnInit
  at,       \* where each goroutine is
  stop,     \* where it is in stopWithError, "no" when it is not
  why,      \* the error stopWithError was called with, until it is stored
  creator,  \* createConn: "waiting", "ok" or "failed"
  reader,   \* Read: "idle", "waiting" or "ended"
  health    \* "good", or why the program has panicked

stopVars == <<stop, why>>
ownerVars == <<creator, reader>>
connVars == <<c, at, stopVars, ownerVars, health>>

ConnInit ==
  /\ c \in [role : Roles,
            suite : {FALSE},        \* cipherSuite is not nil
            progress : {"early"},   \* then "last": in the last flight of this side,
                                    \* "sent": it is out, "finished"
            flight : {"none"},      \* the progress that the flight handler has seen
            sends : {0},            \* records it has yet to send
            lock : {"none"},        \* Conn.lock: who holds it
            rest : {0},             \* records of the datagram yet to be handled
            data : {0},             \* records of application data so far
            nextConn : {"open"},    \* then "failed" or "closed"
            connErr : {"none"},     \* then "closed" or "failed"
            completed : {FALSE},    \* handshakeCompleted is closed
            decrypted : {"open"}]   \* then "closed"
  /\ at = [inbound |-> "reading", outbound |-> "waiting", writer |-> "idle", closer |-> "idle"]
  /\ stop = [g \in Goroutine |-> "no"] /\ why = [g \in Goroutine |-> "failed"]
  /\ creator = "waiting" /\ reader = "idle" /\ health = "good"

\* Goroutine g, at the given place, is not in stopWithError.
Is(g, place) == at[g] = place /\ stop[g] = "no"
Goes(g, place) == at' = [at EXCEPT ![g] = place]

----------------------------------------------------------------------------
(* stopWithError and signalHandshakeComplete.                              *)

StopWithError(g, err) ==
  stop' = [stop EXCEPT ![g] = "closing"] /\ why' = [why EXCEPT ![g] = err]
SignalHandshakeComplete(g) == stop' = [stop EXCEPT ![g] = "looking"] /\ UNCHANGED why

\* Closing a socket again is an error, which replaces err.
CloseNext(g) ==
  /\ stop[g] = "closing"
  /\ c' = [c EXCEPT !.nextConn = "closed"]
  /\ \/ UNCHANGED why
     \/ c.nextConn = "closed" /\ why' = [why EXCEPT ![g] = "failed"]
  /\ stop' = [stop EXCEPT ![g] = "storing"]
  /\ UNCHANGED <<at, ownerVars, health>>

StoredNot(g) == c.connErr                          \* mutant: the error is not stored
Stored(g) == why[g]

StoreErr(g) ==
  /\ stop[g] = "storing"
  /\ c' = [c EXCEPT !.connErr = Stored(g)]
  /\ stop' = [stop EXCEPT ![g] = "looking"] /\ why' = [why EXCEPT ![g] = "failed"]
  /\ UNCHANGED <<at, ownerVars, health>>

SeesOpenNever == FALSE                             \* mutant: never signals
SeesOpen == ~c.completed

LookAtCompleted(g) ==
  /\ stop[g] = "looking"
  /\ stop' = [stop EXCEPT ![g] = IF SeesOpen THEN "signalling" ELSE "no"]
  /\ UNCHANGED <<c, at, why, ownerVars, health>>

\* close panics if somebody else was faster.
CloseCompleted(g) ==
  /\ stop[g] = "signalling"
  /\ IF c.completed THEN health' = "closed twice" /\ UNCHANGED c
                    ELSE c' = [c EXCEPT !.completed = TRUE] /\ UNCHANGED health
  /\ stop' = [stop EXCEPT ![g] = "no"]
  /\ UNCHANGED <<at, why, ownerVars>>

Stops(g) == CloseNext(g) \/ StoreErr(g) \/ LookAtCompleted(g) \/ CloseCompleted(g)

\* The connection below is closed or has failed.
Broken == c.nextConn # "open"

\* internalSend; an encrypted record needs the keys.
InternalSend(g) == UNCHANGED stopVars \/ (Broken /\ StopWithError(g, "failed"))
SendEncrypted(g) == InternalSend(g) \/ (c.progress = "early" /\ StopWithError(g, "failed"))

----------------------------------------------------------------------------
(* The inbound goroutine.  A datagram holds several records: after the     *)
(* first, connErr is not looked at.                                        *)

ReadFails ==
  /\ Is("inbound", "reading") /\ Broken
  /\ Goes("inbound", "leaving") /\ StopWithError("inbound", "failed")
  /\ UNCHANGED <<c, ownerVars, health>>

ReadAfterStop ==
  /\ Is("inbound", "reading") /\ c.connErr # "none"
  /\ Goes("inbound", "leaving")
  /\ UNCHANGED <<c, stopVars, ownerVars, health>>

\* The next record, of a new datagram or of the same.
Arrives(place, data) ==
  /\ \/ /\ Is("inbound", "reading") /\ c.nextConn # "failed" /\ c.connErr = "none"
        /\ \E n \in 0 .. MaxRest : c' = [c EXCEPT !.rest = n, !.data = @ + data]
     \/ /\ Is("inbound", "unpacking") /\ c.rest > 0
        /\ c' = [c EXCEPT !.rest = @ - 1, !.data = @ + data]
  /\ Goes("inbound", place)
  /\ UNCHANGED <<ownerVars, health>>

RecvHandshake == Arrives("handling", 0) /\ UNCHANGED stopVars
RecvCloseNotify == Arrives("notifying", 0) /\ UNCHANGED stopVars
RecvData == c.data < MaxData /\ Arrives("delivering", 1) /\ UNCHANGED stopVars

\* A malformed record or another alert.
RecvBad == Arrives("leaving", 0) /\ StopWithError("inbound", "failed")

\* decrypted has no buffer: somebody has to be in Read.
Deliver ==
  /\ Is("inbound", "delivering") /\ reader = "waiting"
  /\ Goes("inbound", "unpacking") /\ reader' = "idle"
  /\ UNCHANGED <<c, stopVars, creator, health>>

DatagramDone ==
  /\ Is("inbound", "unpacking") /\ c.rest = 0 /\ Goes("inbound", "reading")
  /\ UNCHANGED <<c, stopVars, ownerVars, health>>

NotClosed == c.decrypted                           \* mutant: Read is not told
CloseDecrypted == "closed"

InboundLeaves ==
  /\ Is("inbound", "leaving")
  /\ Goes("inbound", "ended") /\ c' = [c EXCEPT !.decrypted = CloseDecrypted]
  /\ UNCHANGED <<stopVars, ownerVars, health>>

\* handshakeMessageHandler takes the lock.
Handles == Is("inbound", "handling") /\ c.lock = "none"

\* The message leaves the progress alone, or is the Hello that chooses the suite.
HandleMessage ==
  /\ Handles /\ Goes("inbound", "unpacking")
  /\ \/ UNCHANGED c
     \/ c.progress = "early" /\ c' = [c EXCEPT !.suite = TRUE]
  /\ UNCHANGED <<stopVars, ownerVars, health>>

\* The message leads to our last flight; workerTrigger wakes an outbound goroutine
\* that waits.
HandleLast ==
  /\ Handles /\ c.progress = "early" /\ c.suite
  /\ \/ /\ Is("outbound", "waiting")
        /\ c' = [c EXCEPT !.progress = "last", !.flight = "last"]
        /\ at' = [at EXCEPT !.inbound = "unpacking", !.outbound = "locking"]
     \/ /\ ~Is("outbound", "waiting")
        /\ c' = [c EXCEPT !.progress = "last"]
        /\ Goes("inbound", "unpacking")
  /\ UNCHANGED <<stopVars, ownerVars, health>>

\* The server's Finished answers the client's last flight.
HandleFinished ==
  /\ Handles /\ c.role = "client" /\ c.progress = "sent"
  /\ c' = [c EXCEPT !.progress = "finished", !.lock = "inbound"]
  /\ Goes("inbound", "finishing") /\ SignalHandshakeComplete("inbound")
  /\ UNCHANGED <<ownerVars, health>>

FinishedHandled ==
  /\ Is("inbound", "finishing") /\ Goes("inbound", "unpacking")
  /\ c' = [c EXCEPT !.lock = "none"]
  /\ UNCHANGED <<stopVars, ownerVars, health>>

HandleFails ==
  /\ Handles /\ Goes("inbound", "leaving") /\ StopWithError("inbound", "failed")
  /\ UNCHANGED <<c, ownerVars, health>>

----------------------------------------------------------------------------
(* Close, by the owner or because the peer has closed.                     *)

\* notify encrypts, under the lock, with a cipher suite that may not be there yet.
Notify(g) ==
  /\ Is(g, "notifying") /\ c.lock = "none"
  /\ IF c.suite
     THEN /\ c' = [c EXCEPT !.lock = g] /\ Goes(g, "notified") /\ SendEncrypted(g)
          /\ UNCHANGED health
     ELSE health' = "no cipher suite" /\ UNCHANGED <<c, at, stopVars>>
  /\ UNCHANGED ownerVars

CloseStops(g) ==
  /\ Is(g, "notified")
  /\ c' = [c EXCEPT !.lock = "none"]
  /\ Goes(g, "closing") /\ StopWithError(g, "closed")
  /\ UNCHANGED <<ownerVars, health>>

\* Close returns what is stored by then; for the inbound goroutine an error is one
\* of handleIncoming.
CloseReturns(g) ==
  /\ Is(g, "closing")
  /\ \/ g = "closer" /\ Goes(g, "ended") /\ UNCHANGED stopVars
     \/ g = "inbound" /\ c.connErr = "closed" /\ Goes(g, "unpacking") /\ UNCHANGED stopVars
     \/ g = "inbound" /\ c.connErr # "closed" /\ Goes(g, "leaving") /\ StopWithError(g, "failed")
  /\ UNCHANGED <<c, ownerVars, health>>

Closes(g) == Notify(g) \/ CloseStops(g) \/ CloseReturns(g)

----------------------------------------------------------------------------
(* The outbound goroutine.                                                 *)

\* The ticker fires, once more perhaps after it was stopped.  A client that has
\* the server's ChangeCipherSpec has nothing to send.
Tick ==
  /\ Is("outbound", "waiting")
  /\ \/ Goes("outbound", "locking") /\ c' = [c EXCEPT !.flight = c.progress]
     \/ /\ c.role = "client" /\ c.progress # "early"
        /\ Goes("outbound", "leaving") /\ UNCHANGED c
  /\ UNCHANGED <<stopVars, ownerVars, health>>

StartFlight ==
  /\ Is("outbound", "locking") /\ c.lock = "none"
  /\ Goes("outbound", "sending")
  /\ \E n \in 0 .. MaxSends : c' = [c EXCEPT !.lock = "outbound", !.sends = n]
  /\ UNCHANGED <<stopVars, ownerVars, health>>

\* A record that cannot be written does not end the flight.
SendRecord ==
  /\ Is("outbound", "sending") /\ c.sends > 0
  /\ c' = [c EXCEPT !.sends = @ - 1] /\ InternalSend("outbound")
  /\ UNCHANGED <<at, ownerVars, health>>

\* Signing or hashing fails: the handler returns and keeps the lock.  The client
\* computes both for its last flight, and only once.
FlightFails ==
  /\ Is("outbound", "sending")
  /\ IF c.role = "client" THEN c.flight = "last" /\ c.progress = "last" ELSE c.suite
  /\ Goes("outbound", "leaving") /\ StopWithError("outbound", "failed")
  /\ UNCHANGED <<c, ownerVars, health>>

\* The server's last flight completes the handshake.
FlightSent ==
  /\ Is("outbound", "sending") /\ c.sends = 0
  /\ IF c.role = "server" /\ c.flight = "last"
     THEN /\ c' = [c EXCEPT !.lock = "none", !.flight = "none", !.progress = "finished"]
          /\ Goes("outbound", "leaving") /\ SignalHandshakeComplete("outbound")
     ELSE /\ c' = [c EXCEPT !.lock = "none", !.flight = "none",
                            !.progress = IF c.flight = "last" /\ @ = "last" THEN "sent" ELSE @]
          /\ Goes("outbound", IF c.connErr = "none" THEN "waiting" ELSE "leaving")
          /\ UNCHANGED stopVars
  /\ UNCHANGED <<ownerVars, health>>

OutboundEnds ==
  /\ Is("outbound", "leaving") \/ (Is("outbound", "waiting") /\ c.completed)
  /\ Goes("outbound", "ended")
  /\ UNCHANGED <<c, stopVars, ownerVars, health>>

----------------------------------------------------------------------------
(* The owner, and the connection below.                                    *)

CreateConnReturns ==
  /\ creator = "waiting" /\ c.completed
  /\ creator' = IF c.connErr = "none" THEN "ok" ELSE "failed"
  /\ UNCHANGED <<c, at, stopVars, reader, health>>

Read ==
  /\ creator = "ok" /\ reader = "idle" /\ reader' = "waiting"
  /\ UNCHANGED <<c, at, stopVars, creator, health>>

ReadEnds ==
  /\ reader = "waiting" /\ c.decrypted = "closed" /\ reader' = "ended"
  /\ UNCHANGED <<c, at, stopVars, creator, health>>

Write ==
  /\ creator = "ok" /\ Is("writer", "idle") /\ c.lock = "none" /\ c.connErr = "none"
  /\ c' = [c EXCEPT !.lock = "writer"] /\ Goes("writer", "writing") /\ InternalSend("writer")
  /\ UNCHANGED <<ownerVars, health>>

WriteReturns ==
  /\ Is("writer", "writing") /\ Goes("writer", "idle") /\ c' = [c EXCEPT !.lock = "none"]
  /\ UNCHANGED <<stopVars, ownerVars, health>>

\* Bound: the owner closes once.
Close ==
  /\ creator = "ok" /\ Is("closer", "idle") /\ Goes("closer", "notifying")
  /\ UNCHANGED <<c, stopVars, ownerVars, health>>

TransportFails ==
  /\ c.nextConn = "open" /\ c' = [c EXCEPT !.nextConn = "failed"]
  /\ UNCHANGED <<at, stopVars, ownerVars, health>>

----------------------------------------------------------------------------
Receives == RecvHandshake \/ RecvCloseNotify \/ RecvData \/ RecvBad

HandshakeMessage == HandleMessage \/ HandleLast \/ HandleFinished \/ FinishedHandled \/ HandleFails

\* What goroutine g does when nobody but the holder of the lock can keep it waiting.
Runs(g) ==
  \/ Stops(g)
  \/ g \in {"inbound", "closer"} /\ Closes(g)
  \/ g = "inbound" /\ (ReadFails \/ ReadAfterStop \/ HandshakeMessage \/ DatagramDone \/ InboundLeaves)
  \/ g = "outbound" /\ (StartFlight \/ SendRecord \/ FlightFails \/ FlightSent \/ OutboundEnds)
  \/ g = "writer" /\ WriteReturns

ConnNext ==
  /\ health = "good"
  /\ \/ Receives \/ Deliver \/ Tick \/ CreateConnReturns
     \/ Read \/ ReadEnds \/ Write \/ Close \/ TransportFails
     \/ \E g \in Goroutine : Runs(g)

ConnSpec == ConnInit /\ [][ConnNext]_connVars

----------------------------------------------------------------------------
(* Properties.                                                             *)

\* createConn returns without an error only if the handshake has finished, however
\* the error of one goroutine and the completion by another interleave.
SuccessMeansFinished == creator = "ok" => c.progress = "finished"

\* Once the connection has stopped, the caller of Client or Server does not wait
\* for ever, unless the program panics: stopWithError signals the completion.
StopReachesCreator == c.connErr # "none" ~> creator # "waiting" \/ health # "good"

\* Once the connection has stopped, a pending Read returns, unless the program
\* panics: the inbound goroutine gets out of whatever it waits for, the lock and
\* the hand-over of data included, and closes decrypted.
StopReachesReader ==
  reader = "waiting" /\ c.connErr # "none" ~> reader # "waiting" \/ health # "good"
============================================================================
