----------------------------- MODULE Handshake -----------------------------
(***************************************************************************)
(* The DTLS handshake of internal/dtls between a client and a server that  *)
(* both run this code (conn.go, client_handlers.go, server_handlers.go,    *)
(* flight.go, handshake_cache.go, fragment_buffer.go).                     *)
(*                                                                         *)
(* Each side has two goroutines.  The inbound one reads a record, stores   *)
(* it in the fragment buffer and handles every message that is next in     *)
(* sequence, with Conn.lock held.  The outbound one sends the current      *)
(* flight again and again; it looks at the flight before it takes the lock.*)
(*                                                                         *)
(* Keys, randoms and signatures never differ between two runs of the same  *)
(* pair of connections, so a cipher suite is only chosen or ready, and     *)
(* verify data is the sequence of the messages that are hashed.  A message *)
(* is never fragmented, as in handshake.Marshal.                           *)
(***************************************************************************)
EXTENDS Integers, Sequences, SequencesExt

CONSTANTS
  Conditions   \* the kinds of network and scheduling considered

Side == {"client", "server"}
Peer(s) == IF s = "client" THEN "server" ELSE "client"

ASSUME ConditionsAssumption == Conditions \subseteq {"calm", "unreliable", "racy"}

VARIABLES
  conditions,  \* "calm": flights 1 to 4 are lost, duplicated and reordered;
               \* "unreliable": every flight is; "racy": and the outbound
               \* goroutine may wait for the lock after reading the flight
  net,         \* records under way
  conn,        \* Conn: flight, localSequenceNumber, epochs, cookie, suite, status
  cache,       \* handshakeCache
  frags,       \* fragmentBuffer.cache, without what pop can no longer return
  fragEpoch,   \* fragmentBuffer.currentEpoch
  nextSeq,     \* fragmentBuffer.currentMessageSequenceNumber
  verifyData,  \* Conn.localVerifyData
  seen         \* the flight the outbound goroutine has read, or NoFlight

bufVars == <<cache, frags, fragEpoch, nextSeq>>
vars == <<conditions, net, conn, bufVars, verifyData, seen>>

NoFlight == 7

Init ==
  /\ conditions \in Conditions
  /\ net = {}
  /\ conn = [s \in Side |-> [flight |-> IF s = "client" THEN 1 ELSE 0, seq |-> 0,
                             epoch |-> 0, remoteEpoch |-> 0, cookie |-> 0,
                             suite |-> "none", status |-> "open"]]
  /\ cache = [s \in Side |-> <<>>]
  /\ frags = [s \in Side |-> {}]
  /\ fragEpoch = [s \in Side |-> 0]
  /\ nextSeq = [s \in Side |-> 0]
  /\ verifyData = [s \in Side |-> <<>>]
  /\ seen = [s \in Side |-> NoFlight]

----------------------------------------------------------------------------
(* Records and the network.                                                *)

Flights1To4 == {"ClientHello", "HelloVerifyRequest", "ServerHello", "Certificate",
                "ServerKeyExchange", "ServerHelloDone"}

\* A record sent by s.  Only Finished is sent in epoch 1, encrypted.
Record(s, type, mseq) ==
  [from |-> s, type |-> type, mseq |-> mseq,
   epoch |-> IF type = "Finished" THEN 1 ELSE 0,
   cookie |-> IF type = "ClientHello" THEN conn[s].cookie ELSE 0,
   verify |-> <<>>]

Unreliable(m) == conditions # "calm" \/ m.type \in Flights1To4

\* Records that are not unreliable come in the order they are sent, so the key
\* exchange has come before ChangeCipherSpec, and that before Finished.
ComesNext(s, m) ==
  Unreliable(m) \/ /\ m.type = "ChangeCipherSpec" => conn[s].suite = "ready"
                   /\ m.type = "Finished" => conn[s].remoteEpoch = 1

\* No property of "racy" behaviours asks whether a record ever arrives.
Lose(m) ==
  /\ conditions # "racy" /\ m \in net /\ Unreliable(m)
  /\ net' = net \ {m}
  /\ UNCHANGED <<conditions, conn, bufVars, verifyData, seen>>

----------------------------------------------------------------------------
(* handshakeCache.                                                         *)

Item(s, m) ==
  [flight |-> conn[s].flight, by |-> m.from, epoch |-> m.epoch,
   mseq |-> m.mseq, type |-> m.type]

Cached(c, item) ==
  \E i \in 1 .. Len(c) : /\ c[i].by = item.by /\ c[i].epoch = item.epoch
                         /\ c[i].mseq = item.mseq

\* push, of messages with different numbers: what the cache has is ignored.
Push(c, items) == c \o SelectSeq(items, LAMBDA item : ~Cached(c, item))

ExcludedFlight2(item) == item.flight \in 0 .. 2   \* mutant: all of flight 2
\* serverExcludeRules: the second ClientHello is hashed.
ServerExcluded(item) == \/ item.flight \in 0 .. 1
                        \/ item.flight = 2 /\ item.by = "server"

\* clientExcludeRules: nothing is excluded when the server sent no cookie.
ClientExcluded(item) == conn["client"].cookie = 1 /\ item.flight \in 0 .. 2

Excluded(s, item) ==
  IF s = "client" THEN ClientExcluded(item) ELSE ServerExcluded(item)

\* combinedHandshake: the messages that are hashed, in order.
CombinedHandshake(s, c) ==
  LET included == SelectSeq(c, LAMBDA item : ~Excluded(s, item)) IN
  [i \in 1 .. Len(included) |-> <<included[i].type, included[i].mseq>>]

\* The same with excludeLast.
ButLast(s, c) == CombinedHandshake(s, Front(c))

VerifyNothing(expected, m) == TRUE                \* mutant: Finished not checked
Verify(expected, m) == m.verify = expected

----------------------------------------------------------------------------
(* The outbound goroutine: startHandshakeOutbound and the flight handlers. *)

Busy(s) == \E m \in frags[s] : m.mseq = nextSeq[s]   \* Conn.lock is held

\* s sends the messages and, in between, ChangeCipherSpec.  The messages go to
\* the cache, under the flight that is current by now.
Send(s, messages, records) ==
  /\ net' = net \cup Range(messages) \cup records
  /\ cache' = [cache EXCEPT ![s] =
       Push(@, [i \in 1 .. Len(messages) |-> Item(s, messages[i])])]

\* currFlight.get() without the lock, and for flight 5 the test that the
\* handshake goes on; the goroutine then waits for the lock.
ReadFlight(s) ==
  /\ conditions = "racy" /\ conn[s].status = "open" /\ seen[s] = NoFlight
  /\ s = "client" /\ conn[s].flight = 5 => conn[s].remoteEpoch = 0
  /\ seen' = [seen EXCEPT ![s] = conn[s].flight]
  /\ UNCHANGED <<conditions, net, conn, bufVars, verifyData>>

\* The ticker or workerTrigger starts the handler of flight f.  workerTrigger is
\* lost when the goroutine is not waiting, the ticker is not.
Outbound(s, f) ==
  /\ conn[s].status = "open" /\ ~Busy(s)
  /\ f = IF seen[s] = NoFlight THEN conn[s].flight ELSE seen[s]
  /\ seen' = [seen EXCEPT ![s] = NoFlight]
  /\ UNCHANGED <<conditions, frags, fragEpoch, nextSeq>>

ClientFlight1Or3 ==
  /\ \E f \in {1, 3} : Outbound("client", f)
  /\ Send("client", <<Record("client", "ClientHello", conn["client"].seq)>>, {})
  /\ UNCHANGED <<conn, verifyData>>

\* Without the key pair that ServerKeyExchange makes, the handler panics.
ClientFlight5 ==
  LET c == conn["client"]
      keyExchange == Record("client", "ClientKeyExchange", c.seq)
      hashed == Push(cache["client"], <<Item("client", keyExchange)>>)
      data == IF verifyData["client"] # <<>> THEN verifyData["client"]
              ELSE CombinedHandshake("client", hashed) IN
  /\ Outbound("client", 5)
  /\ seen["client"] = NoFlight => c.remoteEpoch = 0
  /\ IF c.suite # "ready"
     THEN /\ conn' = [conn EXCEPT !["client"].status = "failed"]
          /\ UNCHANGED <<net, cache, verifyData>>
     ELSE /\ verifyData' = [verifyData EXCEPT !["client"] = data]
          /\ Send("client",
                  <<keyExchange,
                    [Record("client", "Finished", c.seq + 1) EXCEPT !.verify = data]>>,
                  {Record("client", "ChangeCipherSpec", 0)})
          /\ UNCHANGED conn

ServerFlight2 ==
  /\ Outbound("server", 2)
  /\ Send("server", <<Record("server", "HelloVerifyRequest", conn["server"].seq)>>, {})
  /\ UNCHANGED <<conn, verifyData>>

ServerFlight4 ==
  LET seq == conn["server"].seq IN
  /\ Outbound("server", 4)
  /\ Send("server", <<Record("server", "ServerHello", seq),
                      Record("server", "Certificate", seq + 1),
                      Record("server", "ServerKeyExchange", seq + 2),
                      Record("server", "ServerHelloDone", seq + 3)>>, {})
  /\ UNCHANGED <<conn, verifyData>>

\* Flight 6 is sent once: the handler ends the handshake.
ServerFlight6 ==
  LET data == CombinedHandshake("server", cache["server"]) IN
  /\ Outbound("server", 6)
  /\ verifyData' = [verifyData EXCEPT !["server"] = data]
  /\ Send("server",
          <<[Record("server", "Finished", conn["server"].seq) EXCEPT !.verify = data]>>,
          {Record("server", "ChangeCipherSpec", 0)})
  /\ conn' = [conn EXCEPT !["server"].status = "complete"]

OutboundStep == \/ ClientFlight1Or3 \/ ClientFlight5
                \/ ServerFlight2 \/ ServerFlight4 \/ ServerFlight6

----------------------------------------------------------------------------
(* The inbound goroutine: handleIncomingPacket and fragmentBuffer.push.    *)

OldEpoch(s, m) == m.epoch < conn[s].remoteEpoch

\* s reads m, which may come again: the connection is open and the previous
\* record is handled.
Incoming(s, m) ==
  /\ m \in net /\ m.from = Peer(s) /\ ComesNext(s, m)
  /\ conn[s].status # "failed" /\ ~Busy(s)
  /\ UNCHANGED <<conditions, net, cache, nextSeq, verifyData, seen>>

\* An old epoch, or an encrypted record for which there are no keys yet.
DropRecord(s, m) ==
  /\ Incoming(s, m)
  /\ \/ OldEpoch(s, m)
     \/ conn[s].remoteEpoch # 0 /\ conn[s].suite # "ready"
  /\ UNCHANGED <<conn, frags, fragEpoch>>

ChangeCipherSpec(s, m) ==
  /\ m.type = "ChangeCipherSpec" /\ Incoming(s, m) /\ ~OldEpoch(s, m)
  /\ conn[s].remoteEpoch # 0 => conn[s].suite = "ready"
  /\ conn' = [conn EXCEPT ![s].remoteEpoch = @ + 1]
  /\ UNCHANGED <<frags, fragEpoch>>

\* A message the handler already had stays in the buffer for good; it is left
\* out.  The first message with a number is the one that pop returns.
Store(F, s, m) ==
  IF m.mseq < nextSeq[s] \/ \E n \in F : n.mseq = m.mseq THEN F ELSE F \cup {m}

\* push.  An encrypted message that comes before ChangeCipherSpec is stored as
\* it is, under a number made of random bytes: nothing of it is left but the
\* epoch, which discards everything else.
PushFragment(s, m) ==
  /\ m.type # "ChangeCipherSpec" /\ Incoming(s, m) /\ ~OldEpoch(s, m)
  /\ conn[s].remoteEpoch # 0 => conn[s].suite = "ready"
  /\ fragEpoch[s] <= m.epoch
  /\ fragEpoch' = [fragEpoch EXCEPT ![s] = m.epoch]
  /\ LET kept == IF fragEpoch[s] < m.epoch THEN {} ELSE frags[s] IN
     frags' = [frags EXCEPT ![s] =
       IF m.epoch = conn[s].remoteEpoch THEN Store(kept, s, m) ELSE kept]
  /\ UNCHANGED conn

\* push discards the message of an earlier epoch, and handleIncomingPacket then
\* takes it for an unhandled record: the connection is stopped.
UnhandledRecord(s, m) ==
  /\ m.type # "ChangeCipherSpec" /\ Incoming(s, m) /\ ~OldEpoch(s, m)
  /\ conn[s].remoteEpoch # 0 => conn[s].suite = "ready"
  /\ fragEpoch[s] > m.epoch
  /\ conn' = [conn EXCEPT ![s].status = "failed"]
  /\ UNCHANGED <<frags, fragEpoch>>

RecvRecord(s, m) == \/ DropRecord(s, m) \/ ChangeCipherSpec(s, m)
                    \/ PushFragment(s, m) \/ UnhandledRecord(s, m)

----------------------------------------------------------------------------
(* The handshake handlers.                                                 *)

NextInLine(s, m) == m.mseq = nextSeq[s]

\* pop returns message m of the given type to the handler of s, which caches it.
Pop(s, m, type) ==
  /\ m \in frags[s] /\ NextInLine(s, m) /\ m.type = type
  /\ conn[s].status # "failed"
  /\ frags' = [frags EXCEPT ![s] = @ \ {m}]
  /\ nextSeq' = [nextSeq EXCEPT ![s] = m.mseq + 1]
  /\ cache' = [cache EXCEPT ![s] = Push(@, <<Item(s, m)>>)]
  /\ UNCHANGED <<conditions, net, fragEpoch, verifyData, seen>>

\* clientHandshakeHandler
HandleHelloVerifyRequest(m) ==
  /\ Pop("client", m, "HelloVerifyRequest")
  /\ IF conn["client"].flight = 1
     THEN conn' = [conn EXCEPT !["client"].cookie = 1, !["client"].seq = @ + 1,
                               !["client"].flight = 3]
     ELSE UNCHANGED conn

\* The server may skip HelloVerifyRequest.
HandleServerHello(m) ==
  /\ Pop("client", m, "ServerHello")
  /\ IF conn["client"].flight \in {1, 3}
     THEN conn' = [conn EXCEPT !["client"].suite = "chosen", !["client"].flight = 3]
     ELSE UNCHANGED conn

\* The certificate is stored, nothing else changes.
HandleCertificate(m) == Pop("client", m, "Certificate") /\ UNCHANGED conn

HandleServerKeyExchange(m) ==
  /\ Pop("client", m, "ServerKeyExchange")
  /\ IF conn["client"].flight = 3 /\ conn["client"].suite # "none"
     THEN conn' = [conn EXCEPT !["client"].suite = "ready"]
     ELSE UNCHANGED conn

HandleServerHelloDone(m) ==
  /\ Pop("client", m, "ServerHelloDone")
  /\ IF conn["client"].flight = 3
     THEN conn' = [conn EXCEPT !["client"].seq = @ + 1, !["client"].flight = 5]
     ELSE UNCHANGED conn

HandleServerFinished(m) ==
  /\ Pop("client", m, "Finished")
  /\ IF conn["client"].flight = 5
     THEN conn' = [conn EXCEPT !["client"].epoch = 1, !["client"].seq = 1,
            !["client"].status = IF Verify(ButLast("client", cache'["client"]), m)
                                 THEN "complete" ELSE "failed"]
     ELSE UNCHANGED conn

\* serverHandshakeHandler.  In flight 2 the cookie must come back; in any other
\* flight the handshake starts again at flight 2.
HandleClientHello(m) ==
  /\ Pop("server", m, "ClientHello")
  /\ IF conn["server"].flight = 2
     THEN IF m.cookie = 1
          THEN conn' = [conn EXCEPT !["server"].seq = 1, !["server"].flight = 4]
          ELSE conn' = [conn EXCEPT !["server"].status = "failed"]
     ELSE conn' = [conn EXCEPT !["server"].suite = "chosen", !["server"].flight = 2]

HandleClientKeyExchange(m) ==
  /\ Pop("server", m, "ClientKeyExchange")
  /\ IF conn["server"].flight = 4
     THEN conn' = [conn EXCEPT !["server"].suite = "ready"]
     ELSE UNCHANGED conn

HandleClientFinished(m) ==
  /\ Pop("server", m, "Finished")
  /\ IF conn["server"].flight = 4
     THEN IF Verify(ButLast("server", cache'["server"]), m)
          THEN conn' = [conn EXCEPT !["server"].epoch = 1, !["server"].seq = 5,
                                    !["server"].flight = 6]
          ELSE conn' = [conn EXCEPT !["server"].status = "failed"]
     ELSE UNCHANGED conn

Handler(s) == \E m \in frags[s] :
  \/ s = "client" /\ \/ HandleHelloVerifyRequest(m) \/ HandleServerHello(m)
                     \/ HandleCertificate(m) \/ HandleServerKeyExchange(m)
                     \/ HandleServerHelloDone(m) \/ HandleServerFinished(m)
  \/ s = "server" /\ \/ HandleClientHello(m) \/ HandleClientKeyExchange(m)
                     \/ HandleClientFinished(m)

----------------------------------------------------------------------------
Next ==
  \/ OutboundStep
  \/ \E s \in Side : ReadFlight(s) \/ Handler(s)
  \/ \E m \in net : Lose(m) \/ \E s \in Side : RecvRecord(s, m)

Spec == Init /\ [][Next]_vars

\* Goroutines run, the ticker fires again and again, and of the records that a
\* side can make use of, what is sent again and again arrives.
Fairness ==
  /\ WF_vars(ClientFlight1Or3 \/ ClientFlight5)
  /\ WF_vars(ServerFlight2 \/ ServerFlight4 \/ ServerFlight6)
  /\ \A s \in Side : WF_vars(Handler(s))
  /\ SF_<<conn, frags, fragEpoch>>(\E s \in Side, m \in net : RecvRecord(s, m))

FairSpec == Spec /\ Fairness

----------------------------------------------------------------------------
(* Properties.                                                             *)

\* A handshake that completes for the client has completed for the server, with
\* keys on both sides and the same messages in the same order: whatever is lost,
\* repeated or reordered, and whatever the outbound goroutine sends too late.
Agreement ==
  conn["client"].status = "complete" =>
    /\ conn["server"].status = "complete"
    /\ \A s \in Side : conn[s].suite = "ready" /\ conn[s].epoch = 1
    /\ CombinedHandshake("client", cache["client"])
         = CombinedHandshake("server", cache["server"])

Complete == \A s \in Side : conn[s].status = "complete"

\* With the last two flights delivered in order, the handshake completes
\* although everything before them is lost, repeated and reordered.
HandshakeCompletes == conditions = "calm" ~> Complete

\* internal/dtls/README.md: "Packet loss and re-ordering is handled during
\* handshaking".
LossAndReorderingHandled == <>Complete
============================================================================
