-------------------------------- MODULE Dtls --------------------------------
(***************************************************************************)
(* internal/dtls at its two levels: the messages of the handshake between  *)
(* two connections (Handshake), and the life of one connection (DtlsConn). *)
(* A behaviour is about one of them; the other stays as it begins.         *)
(***************************************************************************)
EXTENDS Handshake, DtlsConn

VARIABLE level   \* "messages" or "connection"

dtlsVars == <<level, vars, connVars>>

DtlsInit ==
  /\ Init /\ ConnInit
  /\ \/ level = "messages" /\ c.role = "client"
     \/ level = "connection" /\ conditions = "racy"

DtlsNext ==
  \/ level = "messages" /\ Next /\ UNCHANGED <<level, connVars>>
  \/ level = "connection" /\ ConnNext /\ UNCHANGED <<level, vars>>

Messages == level = "messages"
Lives == level = "connection" /\ health = "good"

\* At the level of messages, Handshake's Fairness.  At the level of a connection,
\* goroutines run, the records of a datagram are all handled and channels hand over;
\* no datagram has to come, and nobody has to read, write or close.
DtlsFairness ==
  /\ WF_vars(Messages /\ (ClientFlight1Or3 \/ ClientFlight5))
  /\ WF_vars(Messages /\ (ServerFlight2 \/ ServerFlight4 \/ ServerFlight6))
  /\ \A s \in Side : WF_vars(Messages /\ Handler(s))
  /\ SF_<<conn, frags, fragEpoch>>(Messages /\ \E s \in Side, m \in net : RecvRecord(s, m))
  /\ WF_connVars(Lives /\ (Runs("inbound") \/ (at.inbound = "unpacking" /\ Receives)))
  /\ \A g \in {"outbound", "writer", "closer"} : WF_connVars(Lives /\ Runs(g))
  /\ WF_connVars(Lives /\ (Deliver \/ ReadEnds))
  /\ WF_connVars(Lives /\ CreateConnReturns)

DtlsSpec == DtlsInit /\ [][DtlsNext]_dtlsVars /\ DtlsFairness
=============================================================================
