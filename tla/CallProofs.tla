----------------------------- MODULE CallProofs -----------------------------
(***************************************************************************)
(* Proofs about a call, for any resolvers, names, scripts and bounds: who  *)
(* waits for an mDNS answer will be told of it, and no candidate of the    *)
(* caller is lost or repeated on its way to the agent.                     *)
(***************************************************************************)
EXTENDS Call, TLAPS

\* The provers of a leaf that names none.
USE ZenonT(5), SMTT(20)

----------------------------------------------------------------------------
(* The mDNS client.                                                        *)

Place == {"none", "started", "found", "asking", "waiting", "resolved", "failed", "ended"}

MdnsType ==
  /\ records \in Seq(Record)
  /\ DOMAIN cache \subseteq Name
  /\ \A n \in DOMAIN cache : cache[n] \in DOMAIN records
  /\ resolver \in [Resolver -> [at : Place, rec : Nat]]

\* A channel is closed when the address is set, and the cache finds a record
\* under its own name.
RecordsRight ==
  /\ \A i \in DOMAIN records : records[i].ip = NoAddr <=> records[i].ready = "open"
  /\ \A n \in DOMAIN cache : records[cache[n]].name = n

\* A record that waits for an answer is the one handleAnswer finds, or expired.
OpenIsCached ==
  \A i \in DOMAIN records : records[i].ready = "open" =>
    \/ records[i].name \in DOMAIN cache /\ cache[records[i].name] = i
    \/ records[i].expired

\* A resolver holds a record of its name; one that has seen no address holds a
\* record with a channel.
HoldsRecord(r) ==
  /\ resolver[r].at \in {"found", "asking", "waiting"} =>
       resolver[r].rec \in DOMAIN records /\ records[resolver[r].rec].name = NameOf[r]
  /\ resolver[r].at \in {"asking", "waiting"} => records[resolver[r].rec].ready # "none"

MdnsInv == MdnsType /\ RecordsRight /\ OpenIsCached /\ \A r \in Resolver : HoldsRecord(r)

\* The steps that change no record: a resolver moves to a place where it holds
\* what it held, or nothing.
LEMMA ResolverMoves ==
  ASSUME MdnsInv, UNCHANGED <<records, cache>>, NEW r \in Resolver, NEW place \in Place,
         resolver' = [resolver EXCEPT ![r].at = place],
         \/ place \notin {"found", "asking", "waiting"}
         \/ place = "waiting" /\ resolver[r].at = "asking"
         \/ /\ place = "asking" /\ resolver[r].at = "found"
            /\ records[resolver[r].rec].ip = NoAddr
  PROVE  MdnsInv'
<1>1. MdnsType'
  BY DEF MdnsInv, MdnsType
<1>2. RecordsRight' /\ OpenIsCached'
  BY DEF MdnsInv, RecordsRight, OpenIsCached
<1>3. ASSUME NEW s \in Resolver PROVE HoldsRecord(s)'
  BY DEF MdnsInv, MdnsType, RecordsRight, HoldsRecord
<1> QED
  BY <1>1, <1>2, <1>3 DEF MdnsInv

\* A record is entered under a name that the cache does not have.
LEMMA EnterKeeps ==
  ASSUME MdnsInv, NEW record \in Record, record.name \notin DOMAIN cache,
         record.ip = NoAddr <=> record.ready = "open", Enter(record)
  PROVE  /\ records' \in Seq(Record) /\ Len(records') = Len(records) + 1
         /\ DOMAIN cache' = DOMAIN cache \cup {record.name}
         /\ \A n \in DOMAIN cache' : cache'[n] \in DOMAIN records'
         /\ \A i \in DOMAIN records : i \in DOMAIN records' /\ records'[i] = records[i]
         /\ records'[Len(records) + 1] = record
         /\ RecordsRight' /\ OpenIsCached'
<1>1. /\ records' \in Seq(Record) /\ Len(records') = Len(records) + 1
      /\ \A i \in DOMAIN records : i \in DOMAIN records' /\ records'[i] = records[i]
      /\ records'[Len(records) + 1] = record
      /\ DOMAIN records' = DOMAIN records \cup {Len(records) + 1}
  BY DEF MdnsInv, MdnsType, Enter
<1>2. /\ DOMAIN cache' = DOMAIN cache \cup {record.name}
      /\ cache'[record.name] = Len(records) + 1
      /\ \A n \in DOMAIN cache : cache'[n] = cache[n]
  BY DEF Enter
<1>3. \A n \in DOMAIN cache' : cache'[n] \in DOMAIN records'
  BY <1>1, <1>2 DEF MdnsInv, MdnsType
<1>4. RecordsRight'
  BY <1>1, <1>2 DEF MdnsInv, MdnsType, RecordsRight
<1>5. OpenIsCached'
  BY <1>1, <1>2 DEF MdnsInv, MdnsType, RecordsRight, OpenIsCached
<1> QED
  BY <1>1, <1>2, <1>3, <1>4, <1>5

\* Resolve takes a cached record, or enters a new one and waits for it.
LEMMA ResolveKeeps == ASSUME MdnsInv, NEW r \in Resolver, Resolve(r) PROVE MdnsInv'
<1> DEFINE n == NameOf[r]
<1>n. n \in Name
  BY MdnsAssumption
<1>1. CASE n \in DOMAIN cache
  <2>1. /\ resolver' = [resolver EXCEPT ![r] = [at |-> "found", rec |-> cache[n]]]
        /\ UNCHANGED <<records, cache>>
    BY <1>1 DEF Resolve
  <2>2. cache[n] \in DOMAIN records /\ cache[n] \in Nat /\ records[cache[n]].name = n
    BY <1>1 DEF MdnsInv, MdnsType, RecordsRight
  <2>3. MdnsType'
    BY <2>1, <2>2 DEF MdnsInv, MdnsType, Place
  <2>4. RecordsRight' /\ OpenIsCached'
    BY <2>1 DEF MdnsInv, RecordsRight, OpenIsCached
  <2>5. ASSUME NEW s \in Resolver PROVE HoldsRecord(s)'
    BY <2>1, <2>2 DEF MdnsInv, MdnsType, HoldsRecord
  <2> QED
    BY <2>3, <2>4, <2>5 DEF MdnsInv
<1>2. CASE n \notin DOMAIN cache
  <2> DEFINE record == [name |-> n, ip |-> NoAddr, expired |-> FALSE, ready |-> "open"]
  <2>1. /\ Enter(record)
        /\ resolver' = [resolver EXCEPT ![r] = [at |-> "found", rec |-> Len(records) + 1]]
    BY <1>2 DEF Resolve
  <2>2. record \in Record /\ record.name = n /\ record.ip = NoAddr /\ record.ready = "open"
    BY <1>n DEF Record
  <2>3. /\ records' \in Seq(Record) /\ Len(records') = Len(records) + 1
        /\ DOMAIN cache' = DOMAIN cache \cup {n}
        /\ \A m \in DOMAIN cache' : cache'[m] \in DOMAIN records'
        /\ \A i \in DOMAIN records : i \in DOMAIN records' /\ records'[i] = records[i]
        /\ records'[Len(records) + 1] = record
        /\ RecordsRight' /\ OpenIsCached'
    BY <1>2, <2>1, <2>2, EnterKeeps
  <2> HIDE DEF record
  <2>4. Len(records) + 1 \in Nat /\ Len(records) + 1 \in DOMAIN records'
    BY <2>3 DEF MdnsInv, MdnsType
  <2>5. MdnsType'
    BY <1>n, <2>1, <2>3, <2>4 DEF MdnsInv, MdnsType, Place
  <2>6. ASSUME NEW s \in Resolver PROVE HoldsRecord(s)'
    BY <2>1, <2>2, <2>3, <2>4 DEF MdnsInv, MdnsType, HoldsRecord
  <2> QED
    BY <2>3, <2>5, <2>6 DEF MdnsInv
<1> QED
  BY <1>1, <1>2

\* Every step of a resolver keeps the invariant.
LEMMA ResolverStepKeeps == ASSUME MdnsInv, NEW r \in Resolver, ResolverStep(r) PROVE MdnsInv'
<1>1. CASE Resolve(r)
  BY <1>1, ResolveKeeps
<1>2. CASE RefuseName(r) \/ SendQuery(r) \/ GiveUp(r) \/ Ready(r)
  BY <1>2, ResolverMoves DEF RefuseName, SendQuery, GiveUp, Ready, At, Place
<1>3. CASE ReadIP(r)
  BY <1>3, ResolverMoves DEF ReadIP, At, Place
<1> QED
  BY <1>1, <1>2, <1>3 DEF ResolverStep

\* An answer closes the channel of the record it finds.
LEMMA AnswerKeeps ==
  ASSUME MdnsInv, NEW n \in Name, NEW a \in Addr, NEW expired \in BOOLEAN,
         HandleAnswer(n, a, expired)
  PROVE  MdnsInv'
<1> USE DEF HandleAnswer
<1>a. a # NoAddr
  BY MdnsAssumption
<1>1. CASE n \in DOMAIN cache
  <2> DEFINE i == cache[n]
             new == Updated(records[i], a, expired)
  <2>1. i \in DOMAIN records /\ records[i] \in Record /\ records[i].name = n
    BY <1>1 DEF MdnsInv, MdnsType, RecordsRight
  <2>2. /\ new \in Record /\ new.name = n /\ new.ip = a
        /\ new.ready = IF records[i].ready = "none" THEN "none" ELSE "closed"
    BY <2>1 DEF Updated, Record
  <2>3. records' = [records EXCEPT ![i] = new] /\ UNCHANGED <<cache, resolver>>
    BY <1>1
  <2> HIDE DEF new, i
  <2>4. /\ records' \in Seq(Record) /\ DOMAIN records' = DOMAIN records
        /\ records'[i] = new
        /\ \A k \in DOMAIN records : k # i => records'[k] = records[k]
    BY <2>1, <2>2, <2>3 DEF MdnsInv, MdnsType
  <2>5. MdnsType'
    BY <2>3, <2>4 DEF MdnsInv, MdnsType
  <2>6. RecordsRight'
    BY <1>a, <2>1, <2>2, <2>3, <2>4 DEF MdnsInv, MdnsType, RecordsRight
  <2>7. OpenIsCached'
    BY <2>1, <2>2, <2>3, <2>4 DEF MdnsInv, MdnsType, OpenIsCached
  <2>8. ASSUME NEW s \in Resolver PROVE HoldsRecord(s)'
    BY <2>1, <2>2, <2>3, <2>4 DEF MdnsInv, MdnsType, HoldsRecord
  <2> QED
    BY <2>5, <2>6, <2>7, <2>8 DEF MdnsInv
<1>2. CASE n \notin DOMAIN cache
  <2> DEFINE record == [name |-> n, ip |-> a, expired |-> expired, ready |-> "none"]
  <2>1. Enter(record) /\ UNCHANGED resolver
    BY <1>2
  <2>2. record \in Record /\ record.name = n /\ record.ip # NoAddr /\ record.ready # "open"
    BY <1>a DEF Record
  <2>3. /\ records' \in Seq(Record)
        /\ DOMAIN cache' = DOMAIN cache \cup {n}
        /\ \A m \in DOMAIN cache' : cache'[m] \in DOMAIN records'
        /\ \A i \in DOMAIN records : i \in DOMAIN records' /\ records'[i] = records[i]
        /\ RecordsRight' /\ OpenIsCached'
    BY <1>2, <2>1, <2>2, EnterKeeps
  <2>4. MdnsType'
    BY <2>1, <2>3 DEF MdnsInv, MdnsType
  <2>5. ASSUME NEW s \in Resolver PROVE HoldsRecord(s)'
    BY <2>1, <2>3 DEF MdnsInv, HoldsRecord
  <2> QED
    BY <2>3, <2>4, <2>5 DEF MdnsInv
<1> QED
  BY <1>1, <1>2

\* A pruned record has expired: whoever waits for it was warned.
LEMMA PruneKeeps == ASSUME MdnsInv, DoPruneCache PROVE MdnsInv'
<1> DEFINE kept == {n \in DOMAIN cache : ~records[cache[n]].expired}
<1>1. /\ DOMAIN cache' = kept /\ \A n \in kept : cache'[n] = cache[n]
      /\ UNCHANGED <<records, resolver>>
  BY DEF DoPruneCache
<1>2. MdnsType' /\ RecordsRight'
  BY <1>1 DEF MdnsInv, MdnsType, RecordsRight
<1>3. OpenIsCached'
  BY <1>1 DEF MdnsInv, OpenIsCached
<1>4. ASSUME NEW s \in Resolver PROVE HoldsRecord(s)'
  BY <1>1 DEF MdnsInv, HoldsRecord
<1> QED
  BY <1>2, <1>3, <1>4 DEF MdnsInv

\* A record that expires stays where it is.
LEMMA ExpireKeeps == ASSUME MdnsInv, NEW i \in DOMAIN records, Expire(i) PROVE MdnsInv'
<1> DEFINE new == [records[i] EXCEPT !.expired = TRUE]
<1>r. records[i] \in Record
  BY DEF MdnsInv, MdnsType
<1>e. new.expired
  BY <1>r DEF Record
<1>1. /\ new \in Record
      /\ new.name = records[i].name /\ new.ip = records[i].ip /\ new.ready = records[i].ready
  BY <1>r DEF Record
<1>2. records' = [records EXCEPT ![i] = new] /\ UNCHANGED <<cache, resolver>>
  BY DEF Expire
<1> HIDE DEF new
<1>3. /\ records' \in Seq(Record) /\ DOMAIN records' = DOMAIN records
      /\ records'[i] = new
      /\ \A k \in DOMAIN records : k # i => records'[k] = records[k]
  BY <1>1, <1>2 DEF MdnsInv, MdnsType
<1>4. MdnsType' /\ RecordsRight'
  BY <1>1, <1>2, <1>3 DEF MdnsInv, MdnsType, RecordsRight
<1>5. OpenIsCached'
  BY <1>e, <1>1, <1>2, <1>3 DEF MdnsInv, MdnsType, OpenIsCached
<1>6. ASSUME NEW s \in Resolver PROVE HoldsRecord(s)'
  BY <1>1, <1>2, <1>3 DEF MdnsInv, MdnsType, HoldsRecord
<1> QED
  BY <1>4, <1>5, <1>6 DEF MdnsInv

----------------------------------------------------------------------------
(* The call's steps, as far as the mDNS client is concerned.               *)

\* Steps that neither move a candidate into the agent nor touch the client.
Elsewhere ==
  \/ ReadJSON \/ OnPublish \/ ClosePage \/ ReadFails
  \/ NoOffer \/ TakeOffer \/ SendAnswer \/ EnterStream \/ Connected \/ ConnectFails
  \/ HandshakeDone \/ HandshakeFails \/ StreamEnds \/ Return \/ SendVideoEnds
  \/ TakeCandidate \/ AddIceCandidate \/ EndOfCandidates \/ RemoteLoopEnds
  \/ StartGathering \/ Connect \/ GatherLocal \/ GatheringEnds
  \/ TakeLocal \/ SendLocalCandidate \/ GathererEnds
  \/ Select \/ PeerLeaves \/ BaseDies

\* The rest of the call does not touch the mDNS client.
LEMMA ElsewhereLeavesMdns == Elsewhere => UNCHANGED mdnsVars
<1>1. ReadJSON \/ OnPublish \/ ClosePage \/ ReadFails \/ NoOffer \/ TakeOffer \/ SendAnswer
        \/ EnterStream \/ Connected \/ ConnectFails => UNCHANGED mdnsVars
  BY DEF ReadJSON, OnPublish, HandleMessage, ClosePage, ReadFails, NoOffer, TakeOffer,
         SendAnswer, EnterStream, Connected, ConnectFails
<1>2. HandshakeDone \/ HandshakeFails \/ StreamEnds \/ Return \/ SendVideoEnds
        \/ TakeCandidate \/ AddIceCandidate \/ EndOfCandidates \/ RemoteLoopEnds
        => UNCHANGED mdnsVars
  BY DEF HandshakeDone, HandshakeFails, StreamEnds, Return, SendVideoEnds,
         TakeCandidate, AddIceCandidate, EndOfCandidates, RemoteLoopEnds
<1>3. StartGathering \/ Connect \/ GatherLocal \/ GatheringEnds \/ TakeLocal
        \/ SendLocalCandidate \/ GathererEnds \/ Select \/ PeerLeaves \/ BaseDies
        => UNCHANGED mdnsVars
  BY DEF StartGathering, Connect, GatherLocal, GatheringEnds, TakeLocal,
         SendLocalCandidate, GathererEnds, Select, PeerLeaves, BaseDies
<1> QED
  BY <1>1, <1>2, <1>3 DEF Elsewhere

\* A goroutine for a name starts without a record.
LEMMA TakeRemoteKeepsMdns == ASSUME MdnsInv, TakeRemote PROVE MdnsInv'
<1>1. /\ UNCHANGED <<records, cache>>
      /\ resolver' = [r \in Resolver |-> IF r = Head(queue)
                                         THEN [resolver[r] EXCEPT !.at = "started"]
                                         ELSE resolver[r]]
  BY DEF TakeRemote
<1>2. resolver' \in [Resolver -> [at : Place, rec : Nat]]
  BY <1>1 DEF MdnsInv, MdnsType, Place
<1>3. MdnsType' /\ RecordsRight' /\ OpenIsCached'
  BY <1>1, <1>2 DEF MdnsInv, MdnsType, RecordsRight, OpenIsCached
<1>4. ASSUME NEW s \in Resolver PROVE HoldsRecord(s)'
  BY <1>1 DEF MdnsInv, MdnsType, HoldsRecord
<1> QED
  BY <1>3, <1>4 DEF MdnsInv

\* Every step keeps the invariant of the mDNS client.
LEMMA MdnsStep == ASSUME MdnsInv, [Next]_vars PROVE MdnsInv'
<1>1. CASE UNCHANGED mdnsVars
  BY <1>1 DEF mdnsVars, MdnsInv, MdnsType, RecordsRight, OpenIsCached, HoldsRecord
<1>2. CASE TakeRemote
  BY <1>2, TakeRemoteKeepsMdns
<1>3. ASSUME NEW r \in Resolver, AddResolved(r) PROVE MdnsInv'
  BY <1>3, ResolverMoves DEF AddResolved, At, Place
<1>4. ASSUME NEW r \in Resolver, ResolverStep(r) PROVE MdnsInv'
  BY <1>4, ResolverStepKeeps
<1>5. CASE ClientStep(Name, BOOLEAN)
  BY <1>5, AnswerKeeps, PruneKeeps DEF ClientStep
<1>6. CASE ClientStep(DOMAIN cache, {FALSE})
  <2>1. DOMAIN cache \subseteq Name
    BY DEF MdnsInv, MdnsType
  <2> QED
    BY <1>6, <2>1, AnswerKeeps, PruneKeeps DEF ClientStep
<1>7. ASSUME NEW i \in DOMAIN records, Expire(i) PROVE MdnsInv'
  BY <1>7, ExpireKeeps
<1>8. \/ Elsewhere \/ UNCHANGED mdnsVars \/ TakeRemote
      \/ (\E r \in Resolver : AddResolved(r) \/ ResolverStep(r))
      \/ ClientStep(Name, BOOLEAN) \/ ClientStep(DOMAIN cache, {FALSE})
      \/ (\E i \in DOMAIN records : Expire(i))
  BY DEF Next, Elsewhere, MdnsNext, vars
<1> QED
  BY <1>1, <1>2, <1>3, <1>4, <1>5, <1>6, <1>7, <1>8, ElsewhereLeavesMdns

\* The mDNS client starts without records.
LEMMA MdnsStart == Init => MdnsInv
<1> SUFFICES ASSUME Init PROVE MdnsInv
  OBVIOUS
<1>1. PICK place \in Place : MdnsInit(place) /\ place \in {"none", "started"}
  BY DEF Init, Place
<1>2. /\ records = <<>> /\ DOMAIN cache = {}
      /\ resolver = [r \in Resolver |-> [at |-> place, rec |-> 0]]
  BY <1>1 DEF MdnsInit
<1>3. MdnsType
  BY <1>2 DEF MdnsType
<1>4. RecordsRight /\ OpenIsCached
  BY <1>2 DEF RecordsRight, OpenIsCached
<1>5. ASSUME NEW r \in Resolver PROVE HoldsRecord(r)
  BY <1>1, <1>2 DEF HoldsRecord
<1> QED
  BY <1>3, <1>4, <1>5 DEF MdnsInv

\* Whoever waits in waitUntilResolved will be told of an answer (WaitersWillBeTold),
\* whatever answers, expirations and prunings come in between.
THEOREM WaitersAreTold == Spec => []WaitersWillBeTold
<1>1. MdnsInv => WaitersWillBeTold
  <2> SUFFICES ASSUME MdnsInv, NEW r \in Resolver, resolver[r].at \in {"asking", "waiting"}
               PROVE  LET i == resolver[r].rec IN
                      /\ i \in DOMAIN records /\ records[i].name = NameOf[r]
                      /\ \/ records[i].ready = "closed" /\ records[i].ip # NoAddr
                         \/ /\ records[i].ready = "open" /\ records[i].ip = NoAddr
                            /\ \/ NameOf[r] \in DOMAIN cache /\ cache[NameOf[r]] = i
                               \/ records[i].expired
    BY DEF WaitersWillBeTold
  <2>1. /\ resolver[r].rec \in DOMAIN records
        /\ records[resolver[r].rec].name = NameOf[r]
        /\ records[resolver[r].rec].ready # "none"
    BY DEF MdnsInv, HoldsRecord
  <2>2. records[resolver[r].rec].ready \in {"none", "open", "closed"}
    <3>1. records[resolver[r].rec] \in Record
      BY <2>1 DEF MdnsInv, MdnsType
    <3> QED
      BY <3>1 DEF Record
  <2>3. records[resolver[r].rec].ip = NoAddr <=> records[resolver[r].rec].ready = "open"
    BY <2>1 DEF MdnsInv, RecordsRight
  <2>4. records[resolver[r].rec].ready = "open" =>
          \/ NameOf[r] \in DOMAIN cache /\ cache[NameOf[r]] = resolver[r].rec
          \/ records[resolver[r].rec].expired
    BY <2>1, Zenon DEF MdnsInv, OpenIsCached
  <2> QED
    BY <2>1, <2>2, <2>3, <2>4, Zenon
<1> QED
  BY <1>1, MdnsStart, MdnsStep, PTL DEF Spec

----------------------------------------------------------------------------
(* The way of a candidate.                                                 *)

InScript(c) == \E i \in DOMAIN script : script[i] = c

\* What the caller sends differs from message to message, and the goroutines hold
\* messages of the script: the channel none twice, the forwarder only candidates.
WayType ==
  /\ script \in Seq(Candidate \cup {Offer, End})
  /\ \A j, k \in DOMAIN script : script[j] = script[k] => j = k
  /\ nread \in 0 .. Len(script)
  /\ wsLoop = "sending" => nread > 0 /\ Message # End
  /\ handler \in {"waiting", "writing"} => forwarder = "none"
  /\ forwarder = "adding" => held \in Candidate /\ InScript(held)
  /\ queue \in Seq(Candidate)
  /\ \A k \in DOMAIN queue : InScript(queue[k])
  /\ \A j, k \in DOMAIN queue : queue[j] = queue[k] => j = k

InOnePlace(c) == \E p \in Places(c) : Places(c) = {p}

WayInv == WayType /\ \A c \in Candidate : InScript(c) => InOnePlace(c)

\* A candidate that is in one place is in no other.
LEMMA OnlyPlace ==
  ASSUME NEW c \in Candidate, InOnePlace(c), NEW p \in Places(c)
  PROVE  Places(c) = {p}
BY DEF InOnePlace

\* A step moves the candidate x to the place q, and no other.
LEMMA OneMoves ==
  ASSUME WayInv, NEW x \in Candidate, NEW q, Places(x)' = {q},
         \A c \in Candidate : InScript(c) /\ c # x => Places(c)' = Places(c),
         script' = script, WayType'
  PROVE  WayInv'
<1>1. ASSUME NEW c \in Candidate, InScript(c)' PROVE InOnePlace(c)'
  <2>1. CASE c = x
    BY <2>1 DEF InOnePlace
  <2>2. CASE c # x
    <3>1. InScript(c) /\ InOnePlace(c)
      BY <1>1 DEF InScript, WayInv
    <3>2. Places(c)' = Places(c)
      BY <3>1, <2>2
    <3> QED
      BY <3>1, <3>2 DEF InOnePlace
  <2> QED
    BY <2>1, <2>2
<1> QED
  BY <1>1 DEF WayInv

\* A step moves no candidate.
LEMMA NoneMoves ==
  ASSUME WayInv, \A c \in Candidate : Places(c)' = Places(c), script' = script, WayType'
  PROVE  WayInv'
<1>1. ASSUME NEW c \in Candidate, InScript(c)' PROVE InOnePlace(c)'
  <2>1. InScript(c) /\ InOnePlace(c)
    BY <1>1 DEF InScript, WayInv
  <2> QED
    BY <2>1 DEF InOnePlace
<1> QED
  BY <1>1 DEF WayInv

\* What a candidate's place is read from.
wayVars == <<script, nread, wsLoop, forwarder, held, queue, added, dropped>>

\* A step touches none of the places.
LEMMA WayUnchanged ==
  ASSUME WayInv, UNCHANGED wayVars, handler' = handler \/ handler' \notin {"waiting", "writing"},
         \A r \in Resolver : resolver'[r].at \notin {"none", "ended"}
                               <=> resolver[r].at \notin {"none", "ended"}
  PROVE  WayInv'
<1>1. \A c \in Candidate : Places(c)' = Places(c)
  BY DEF Places, wayVars, Message
<1>2. WayType'
  BY DEF WayInv, WayType, wayVars, Message, InScript
<1> QED
  BY <1>1, <1>2, NoneMoves DEF wayVars

\* readJSON and onPublish take the next message.
LEMMA HandleMessageWay == ASSUME WayInv, HandleMessage PROVE WayInv'
<1> DEFINE m == script[nread + 1]
<1>1. /\ nread \in Nat /\ nread < Len(script) /\ Len(script) \in Nat /\ nread' = nread + 1
      /\ nread + 1 \in DOMAIN script /\ wsLoop = "reading"
      /\ m \in Candidate \cup {Offer, End}
      /\ UNCHANGED <<script, forwarder, held, queue, added, dropped, handler, resolver>>
      /\ IF m = End THEN UNCHANGED wsLoop ELSE wsLoop' = "sending"
  BY DEF HandleMessage, WayInv, WayType, candidateVars, agentVars, streamVars, mdnsVars
<1>2. Message' = m
  BY <1>1 DEF Message
<1>3. WayType'
  <2>1. nread' \in 0 .. Len(script') /\ nread' > 0
    BY <1>1
  <2>2. wsLoop' = "sending" => Message' # End
    BY <1>1, <1>2
  <2> QED
    BY <1>1, <2>1, <2>2 DEF WayInv, WayType, InScript
<1>4. \A i \in DOMAIN script : script[i] = m => i = nread + 1
  BY <1>1 DEF WayInv, WayType
<1>5. ASSUME NEW c \in Candidate, c # m PROVE Places(c)' = Places(c)
  <2>1. (\E i \in nread' + 1 .. Len(script') : script'[i] = c)
          <=> (\E i \in nread + 1 .. Len(script) : script[i] = c)
    BY <1>1, <1>5
  <2>2. wsLoop # "sending" /\ ~(wsLoop' = "sending" /\ Message' = c)
    BY <1>1, <1>2, <1>5
  <2> QED
    BY <1>1, <2>1, <2>2 DEF Places
<1>6. CASE m \in Candidate
  <2> PICK x \in Candidate : x = m
    BY <1>6
  <2>1. InScript(x)
    BY <1>1 DEF InScript
  <2>2. "script" \in Places(x)
    BY <1>1 DEF Places
  <2>3. Places(x) = {"script"}
    BY <2>1, <2>2, OnlyPlace DEF WayInv
  <2>4. ~\E i \in nread' + 1 .. Len(script') : script'[i] = x
    BY <1>1, <1>4
  <2>5. wsLoop' = "sending"
    BY <1>1, CallAssumption
  <2>6. Places(x)' = {"signaling"}
    BY <1>1, <1>2, <2>3, <2>4, <2>5 DEF Places
  <2> QED
    BY <1>1, <1>3, <1>5, <2>6, OneMoves
<1>7. CASE m \notin Candidate
  BY <1>1, <1>3, <1>5, <1>7, NoneMoves
<1> QED
  BY <1>6, <1>7

\* The forwarding goroutine takes a candidate from the session's channel.
LEMMA TakeCandidateWay == ASSUME WayInv, TakeCandidate PROVE WayInv'
<1>1. /\ forwarder = "reading" /\ wsLoop = "sending" /\ Message # Offer
      /\ wsLoop' = "reading" /\ forwarder' = "adding" /\ held' = Message
      /\ UNCHANGED <<script, nread, queue, added, dropped, handler, resolver>>
  BY DEF TakeCandidate, agentVars, streamVars, mdnsVars
<1>2. nread \in DOMAIN script /\ Message \in Candidate
  BY <1>1 DEF WayInv, WayType, Message
<1> PICK x \in Candidate : x = Message
  BY <1>2
<1>3. InScript(x)
  BY <1>2 DEF InScript, Message
<1>4. WayType'
  BY <1>1, <1>3 DEF WayInv, WayType, InScript
<1>5. "signaling" \in Places(x)
  BY <1>1 DEF Places
<1>6. Places(x) = {"signaling"}
  BY <1>3, <1>5, OnlyPlace DEF WayInv
<1>7. Places(x)' = {"forwarder"}
  BY <1>1, <1>6 DEF Places
<1>8. ASSUME NEW c \in Candidate, c # x PROVE Places(c)' = Places(c)
  BY <1>1, <1>8 DEF Places
<1> QED
  BY <1>1, <1>4, <1>7, <1>8, OneMoves

\* AddIceCandidate puts it into the channel, or drops it when the context is done.
LEMMA AddIceCandidateWay == ASSUME WayInv, AddIceCandidate PROVE WayInv'
<1>1. /\ forwarder = "adding" /\ forwarder' = "reading"
      /\ UNCHANGED <<script, nread, wsLoop, added, handler, resolver>>
      /\ Message' = Message
  BY DEF AddIceCandidate, signalVars, streamVars, mdnsVars, Message
<1>h. handler \notin {"waiting", "writing"}
  BY <1>1 DEF WayInv, WayType
<1> PICK x \in Candidate : x = held /\ InScript(x)
  BY <1>1 DEF WayInv, WayType
<1>2. "forwarder" \in Places(x)
  BY <1>1 DEF Places
<1>3. Places(x) = {"forwarder"}
  BY <1>2, OnlyPlace DEF WayInv
<1>4. CASE queue' = Append(queue, held) /\ UNCHANGED dropped
  <2>1. queue \in Seq(Candidate)
    BY DEF WayInv, WayType
  <2>2. /\ queue' \in Seq(Candidate) /\ Len(queue') = Len(queue) + 1
        /\ DOMAIN queue' = DOMAIN queue \cup {Len(queue) + 1}
        /\ Len(queue) + 1 \notin DOMAIN queue
        /\ queue'[Len(queue) + 1] = x
        /\ \A k \in DOMAIN queue : queue'[k] = queue[k]
    <3>1. queue' = Append(queue, x)
      BY <1>4
    <3>2. queue' \in Seq(Candidate) /\ Len(queue') = Len(queue) + 1 /\ Len(queue) \in Nat
      BY <2>1, <3>1
    <3>3. DOMAIN queue' = 1 .. Len(queue) + 1 /\ DOMAIN queue = 1 .. Len(queue)
      BY <2>1, <3>2
    <3>4. queue'[Len(queue) + 1] = x /\ \A k \in DOMAIN queue : queue'[k] = queue[k]
      BY <2>1, <3>1
    <3> QED
      BY <3>2, <3>3, <3>4
  <2>3. \A k \in DOMAIN queue : queue[k] # x
    <3> SUFFICES ASSUME NEW k \in DOMAIN queue, queue[k] = x PROVE FALSE
      OBVIOUS
    <3>1. k \in 1 .. Len(queue)
      BY <2>1
    <3>2. "queue" \in Places(x)
      BY <3>1 DEF Places
    <3> QED
      BY <1>3, <3>2
  <2>4. WayType'
    <3>1. \A k \in DOMAIN queue' : InScript(queue'[k])
      BY <2>2 DEF WayInv, WayType
    <3>2. \A j, k \in DOMAIN queue' : queue'[j] = queue'[k] => j = k
      BY <2>2, <2>3 DEF WayInv, WayType
    <3> QED
      BY <1>1, <1>h, <2>2, <3>1, <3>2 DEF WayInv, WayType, InScript
  <2>5. ASSUME NEW c \in Candidate, c # x PROVE Places(c)' = Places(c)
    <3>1. (\E k \in 1 .. Len(queue') : queue'[k] = c) <=> (\E k \in 1 .. Len(queue) : queue[k] = c)
      BY <2>1, <2>2, <2>5
    <3> QED
      BY <1>1, <1>4, <2>5, <3>1 DEF Places
  <2>6. Places(x)' = {"queue"}
    <3>1. \E k \in 1 .. Len(queue') : queue'[k] = x
      BY <2>1, <2>2
    <3> QED
      BY <1>1, <1>3, <1>4, <3>1 DEF Places
  <2> QED
    BY <1>1, <2>4, <2>5, <2>6, OneMoves
<1>5. CASE dropped' = dropped \cup {held} /\ UNCHANGED queue
  <2>1. WayType'
    BY <1>1, <1>h, <1>5 DEF WayInv, WayType, InScript
  <2>2. ASSUME NEW c \in Candidate, c # x PROVE Places(c)' = Places(c)
    BY <1>1, <1>5, <2>2 DEF Places
  <2>3. Places(x)' = {"dropped"}
    BY <1>1, <1>3, <1>5 DEF Places
  <2> QED
    BY <1>1, <2>1, <2>2, <2>3, OneMoves
<1> QED
  BY <1>4, <1>5 DEF AddIceCandidate

\* addAllRemoteCandidates takes it from the channel.
LEMMA TakeRemoteWay == ASSUME MdnsInv, WayInv, TakeRemote PROVE WayInv'
<1>1. /\ queue # <<>> /\ queue' = Tail(queue)
      /\ added' = IF AddedAtOnce(Head(queue)) THEN added \cup {Head(queue)} ELSE added
      /\ dropped' = IF Head(queue) \in Ignored THEN dropped \cup {Head(queue)} ELSE dropped
      /\ resolver' = [r \in Resolver |-> IF r = Head(queue)
                                         THEN [resolver[r] EXCEPT !.at = "started"]
                                         ELSE resolver[r]]
      /\ UNCHANGED <<script, nread, wsLoop, forwarder, held, handler>>
      /\ Message' = Message
  BY DEF TakeRemote, signalVars, streamVars, Message
<1>2. queue \in Seq(Candidate) /\ Head(queue) = queue[1] /\ 1 \in DOMAIN queue
  BY <1>1 DEF WayInv, WayType
<1> PICK x \in Candidate : x = Head(queue)
  BY <1>2
<1>3. InScript(x)
  BY <1>2 DEF WayInv, WayType
<1>4. /\ queue' \in Seq(Candidate) /\ Len(queue') = Len(queue) - 1 /\ Len(queue) \in Nat
      /\ \A k \in DOMAIN queue' : k + 1 \in DOMAIN queue /\ queue'[k] = queue[k + 1]
  BY <1>1, <1>2
<1>5. "queue" \in Places(x)
  BY <1>2 DEF Places
<1>6. Places(x) = {"queue"}
  BY <1>3, <1>5, OnlyPlace DEF WayInv
<1>7. WayType'
  <2>1. \A k \in DOMAIN queue' : InScript(queue'[k])
    BY <1>4 DEF WayInv, WayType
  <2>2. \A j, k \in DOMAIN queue' : queue'[j] = queue'[k] => j = k
    <3> SUFFICES ASSUME NEW j \in DOMAIN queue', NEW k \in DOMAIN queue', queue'[j] = queue'[k]
                 PROVE  j = k
      OBVIOUS
    <3>1. j + 1 = k + 1
      BY <1>4 DEF WayInv, WayType
    <3> QED
      BY <1>4, <3>1
  <2> QED
    BY <1>1, <1>4, <2>1, <2>2 DEF WayInv, WayType, InScript
<1>8. ASSUME NEW c \in Candidate, c # x PROVE Places(c)' = Places(c)
  <2>1. (\E k \in 1 .. Len(queue') : queue'[k] = c) <=> (\E k \in 1 .. Len(queue) : queue[k] = c)
    <3>1. ASSUME NEW k \in 1 .. Len(queue), queue[k] = c PROVE k - 1 \in DOMAIN queue' /\ queue'[k - 1] = c
      BY <1>2, <1>4, <1>8, <3>1
    <3> QED
      BY <1>2, <1>4, <3>1
  <2>2. c \in Resolver => resolver'[c] = resolver[c]
    BY <1>1, <1>8
  <2>3. (c \in added' <=> c \in added) /\ (c \in dropped' <=> c \in dropped)
    BY <1>1, <1>8
  <2> QED
    BY <1>1, <2>1, <2>2, <2>3 DEF Places
<1>9. ~\E k \in 1 .. Len(queue') : queue'[k] = x
  <2> SUFFICES ASSUME NEW k \in 1 .. Len(queue'), queue'[k] = x PROVE FALSE
    OBVIOUS
  <2>1. k \in DOMAIN queue' /\ k + 1 \in DOMAIN queue /\ queue[k + 1] = queue[1] /\ k + 1 # 1
    BY <1>2, <1>4
  <2> QED
    BY <1>2, <2>1 DEF WayInv, WayType
<1>10. \E q : Places(x)' = {q}
  <2>0. x \in Direct \/ x \in Ignored \/ x \in Resolver
    BY DEF Candidate
  <2>1. CASE x \in Direct
    <3>1. x \notin Resolver /\ x \notin Ignored
      BY <2>1, CallAssumption
    <3>2. x \in added' /\ dropped' = dropped
      BY <1>1, <2>1, <3>1 DEF AddedAtOnce
    <3>3. Places(x)' = {"added"}
      BY <1>1, <1>6, <1>9, <3>1, <3>2 DEF Places
    <3> QED
      BY <3>3
  <2>2. CASE x \in Ignored
    <3>1. x \notin Resolver /\ x \notin Direct
      BY <2>2, CallAssumption
    <3>2. x \in dropped' /\ added' = added
      BY <1>1, <2>2, <3>1 DEF AddedAtOnce
    <3>3. Places(x)' = {"dropped"}
      BY <1>1, <1>6, <1>9, <3>1, <3>2 DEF Places
    <3> QED
      BY <3>3
  <2>3. CASE x \in Resolver
    <3>1. x \notin Direct /\ x \notin Ignored
      BY <2>3, CallAssumption
    <3>2. dropped' = dropped /\ added' = added
      BY <1>1, <3>1 DEF AddedAtOnce
    <3>3. resolver'[x].at = "started"
      BY <1>1, <2>3 DEF MdnsInv, MdnsType
    <3>4. Places(x)' = {"resolver"}
      BY <1>1, <1>6, <1>9, <2>3, <3>2, <3>3 DEF Places
    <3> QED
      BY <3>4
  <2> QED
    BY <2>0, <2>1, <2>2, <2>3
<1> QED
  BY <1>1, <1>7, <1>8, <1>10, OneMoves

\* A resolved name is added, and one that cannot be resolved given up.
LEMMA AddResolvedWay ==
  ASSUME MdnsInv, WayInv, NEW r \in Resolver, AddResolved(r)
  PROVE  WayInv'
<1>1. /\ resolver[r].at \in {"resolved", "failed"}
      /\ resolver' = [resolver EXCEPT ![r].at = "ended"]
      /\ UNCHANGED <<script, nread, wsLoop, forwarder, held, queue, handler>>
      /\ Message' = Message
      /\ IF resolver[r].at = "resolved" THEN added' = added \cup {r} /\ UNCHANGED dropped
                                        ELSE dropped' = dropped \cup {r} /\ UNCHANGED added
  BY DEF AddResolved, At, signalVars, candidateVars, streamVars, Message
<1>2. WayType'
  BY <1>1 DEF WayInv, WayType, InScript
<1>3. resolver'[r].at = "ended" /\ \A s \in Resolver : s # r => resolver'[s] = resolver[s]
  BY <1>1 DEF MdnsInv, MdnsType
<1>4. ASSUME NEW c \in Candidate, c # r PROVE Places(c)' = Places(c)
  <2>1. c \in Resolver => resolver'[c] = resolver[c]
    BY <1>3, <1>4
  <2>2. (c \in added' <=> c \in added) /\ (c \in dropped' <=> c \in dropped)
    BY <1>1, <1>4
  <2> QED
    BY <1>1, <2>1, <2>2 DEF Places
<1>5. r \in Candidate
  BY DEF Candidate
<1>6. CASE ~InScript(r)
  <2>1. ASSUME NEW c \in Candidate, InScript(c)' PROVE InOnePlace(c)'
    <3>1. InScript(c) /\ c # r
      BY <1>1, <1>6, <2>1 DEF InScript
    <3>2. Places(c)' = Places(c) /\ InOnePlace(c)
      BY <1>4, <3>1 DEF WayInv
    <3> QED
      BY <3>2 DEF InOnePlace
  <2> QED
    BY <1>2, <2>1 DEF WayInv
<1>7. CASE InScript(r)
  <2>1. "resolver" \in Places(r)
    BY <1>1 DEF Places
  <2>2. Places(r) = {"resolver"}
    BY <1>5, <1>7, <2>1, OnlyPlace DEF WayInv
  <2>3. \E q : Places(r)' = {q}
    <3>1. CASE resolver[r].at = "resolved"
      <4>1. Places(r)' = {"added"}
        BY <1>1, <1>3, <2>2, <3>1 DEF Places
      <4> QED
        BY <4>1
    <3>2. CASE resolver[r].at # "resolved"
      <4>1. Places(r)' = {"dropped"}
        BY <1>1, <1>3, <2>2, <3>2 DEF Places
      <4> QED
        BY <4>1
    <3> QED
      BY <3>1, <3>2
  <2> QED
    BY <1>1, <1>2, <1>4, <1>5, <2>3, OneMoves
<1> QED
  BY <1>6, <1>7

\* While a name is resolved, the candidate is with its goroutine.
LEMMA ResolverStepWay ==
  ASSUME MdnsInv, NEW r \in Resolver, ResolverStep(r)
  PROVE  \A s \in Resolver : resolver'[s].at \notin {"none", "ended"}
                               <=> resolver[s].at \notin {"none", "ended"}
<1>1. resolver \in [Resolver -> [at : Place, rec : Nat]]
  BY DEF MdnsInv, MdnsType
<1>2. resolver[r].at \in {"started", "found", "asking", "waiting"}
  BY DEF ResolverStep, Resolve, RefuseName, ReadIP, SendQuery, GiveUp, Ready
<1>3. CASE Resolve(r)
  <2>1. PICK i : resolver' = [resolver EXCEPT ![r] = [at |-> "found", rec |-> i]]
    BY <1>3 DEF Resolve
  <2> QED
    BY <1>1, <1>2, <2>1
<1>4. CASE ~Resolve(r)
  <2>1. PICK place \in {"failed", "resolved", "asking", "waiting"} :
          resolver' = [resolver EXCEPT ![r].at = place]
    BY <1>4 DEF ResolverStep, RefuseName, ReadIP, SendQuery, GiveUp, Ready, At
  <2> QED
    BY <1>1, <1>2, <2>1
<1> QED
  BY <1>3, <1>4

\* The steps that let all candidates where they are.
LEMMA ElsewhereWay == ASSUME MdnsInv, WayInv, Elsewhere PROVE WayInv'
<1>m. UNCHANGED resolver
  BY ElsewhereLeavesMdns DEF mdnsVars
<1>1. CASE ReadJSON \/ OnPublish
  BY <1>1, HandleMessageWay DEF ReadJSON, OnPublish
<1>2. CASE TakeCandidate
  BY <1>2, TakeCandidateWay
<1>3. CASE AddIceCandidate
  BY <1>3, AddIceCandidateWay
<1>4. CASE ReadFails \/ TakeOffer
  <2>1. /\ UNCHANGED <<script, nread, forwarder, held, queue, added, dropped>> /\ Message' = Message
        /\ wsLoop' # "sending" /\ (wsLoop = "sending" => Message = Offer)
        /\ handler' = handler \/ (handler = "waiting" /\ handler' = "writing")
    BY <1>4 DEF ReadFails, TakeOffer, candidateVars, agentVars, streamVars, Message
  <2>2. WayType'
    BY <2>1 DEF WayInv, WayType, InScript
  <2>3. \A c \in Candidate : Places(c)' = Places(c)
    BY <1>m, <2>1, CallAssumption DEF Places
  <2> QED
    BY <2>1, <2>2, <2>3, NoneMoves
<1>5. CASE SendAnswer \/ EndOfCandidates
  <2>1. /\ UNCHANGED <<script, nread, wsLoop, held, queue, added, dropped>> /\ Message' = Message
        /\ forwarder' # "adding"
        /\ \/ handler = "writing" /\ handler' = "entering"
           \/ forwarder = "reading" /\ handler' = handler
    BY <1>5 DEF SendAnswer, EndOfCandidates, signalVars, agentVars, streamVars, Message
  <2>2. forwarder # "adding"
    BY <2>1 DEF WayInv, WayType
  <2>3. WayType'
    BY <2>1 DEF WayInv, WayType, InScript
  <2>4. \A c \in Candidate : Places(c)' = Places(c)
    BY <1>m, <2>1, <2>2 DEF Places
  <2> QED
    BY <2>1, <2>3, <2>4, NoneMoves
<1>6. CASE \/ ClosePage \/ NoOffer \/ EnterStream \/ Connected \/ ConnectFails
           \/ HandshakeDone \/ HandshakeFails \/ StreamEnds \/ Return \/ SendVideoEnds
  <2>1. UNCHANGED wayVars /\ (handler' = handler \/ handler' \notin {"waiting", "writing"})
    BY <1>6 DEF ClosePage, NoOffer, EnterStream, Connected, ConnectFails, HandshakeDone,
                HandshakeFails, StreamEnds, Return, SendVideoEnds,
                wayVars, signalVars, candidateVars, agentVars, streamVars
  <2> QED
    BY <1>m, <2>1, WayUnchanged
<1>7. CASE \/ RemoteLoopEnds \/ StartGathering \/ Connect \/ GatherLocal \/ GatheringEnds
           \/ TakeLocal \/ SendLocalCandidate \/ GathererEnds \/ Select \/ PeerLeaves \/ BaseDies
  <2>1. UNCHANGED wayVars /\ UNCHANGED handler
    BY <1>7 DEF RemoteLoopEnds, StartGathering, Connect, GatherLocal, GatheringEnds, TakeLocal,
                SendLocalCandidate, GathererEnds, Select, PeerLeaves, BaseDies,
                wayVars, signalVars, candidateVars, agentVars, streamVars
  <2> QED
    BY <1>m, <2>1, WayUnchanged
<1> QED
  BY <1>1, <1>2, <1>3, <1>4, <1>5, <1>6, <1>7 DEF Elsewhere

\* No step changes what is modelled of a call.
LEMMA ScopeStays == [Next]_vars => UNCHANGED scope
<1>1. Elsewhere => UNCHANGED scope
  BY DEF Elsewhere, ReadJSON, OnPublish, HandleMessage, ClosePage, ReadFails, NoOffer, TakeOffer,
         SendAnswer, EnterStream, Connected, ConnectFails, HandshakeDone, HandshakeFails, StreamEnds,
         Return, SendVideoEnds, TakeCandidate, AddIceCandidate, EndOfCandidates, RemoteLoopEnds,
         StartGathering, Connect, GatherLocal, GatheringEnds, TakeLocal, SendLocalCandidate,
         GathererEnds, Select, PeerLeaves, BaseDies, signalVars
<1>2. TakeRemote => UNCHANGED scope
  BY DEF TakeRemote, signalVars
<1>3. ASSUME NEW r \in Resolver, AddResolved(r) PROVE UNCHANGED scope
  BY <1>3 DEF AddResolved, signalVars
<1>4. UNCHANGED callVars => UNCHANGED scope
  BY DEF callVars, signalVars
<1> QED
  BY <1>1, <1>2, <1>3, <1>4 DEF Next, Elsewhere, vars

\* Every step keeps each candidate in one place.
LEMMA WayStep ==
  ASSUME MdnsInv, scope = "call", WayInv, [Next]_vars
  PROVE  WayInv'
<1>1. CASE Elsewhere
  BY <1>1, ElsewhereWay
<1>2. CASE TakeRemote
  BY <1>2, TakeRemoteWay
<1>3. ASSUME NEW r \in Resolver, AddResolved(r) PROVE WayInv'
  BY <1>3, AddResolvedWay
<1>4. ASSUME UNCHANGED callVars,
             \/ ClientStep(DOMAIN cache, {FALSE})
             \/ \E r \in Resolver : ResolverStep(r)
             \/ UNCHANGED mdnsVars
      PROVE  WayInv'
  <2>1. UNCHANGED wayVars /\ UNCHANGED handler
    BY <1>4 DEF callVars, wayVars, signalVars, candidateVars, agentVars, streamVars
  <2>2. \A s \in Resolver : resolver'[s].at \notin {"none", "ended"}
                              <=> resolver[s].at \notin {"none", "ended"}
    BY <1>4, ResolverStepWay DEF ClientStep, HandleAnswer, DoPruneCache, mdnsVars
  <2> QED
    BY <2>1, <2>2, WayUnchanged
<1> QED
  BY <1>1, <1>2, <1>3, <1>4 DEF Next, Elsewhere, vars

\* At first every candidate is in the script and has not been read.
LEMMA WayStart == Init => (scope = "call" => WayInv)
<1> SUFFICES ASSUME Init, scope = "call" PROVE WayInv
  OBVIOUS
<1>1. /\ script \in Seq(Candidate \cup {Offer, End})
      /\ \A j, k \in DOMAIN script : script[j] = script[k] => j = k
  BY CallAssumption DEF Init
<1>2. /\ nread = 0 /\ wsLoop = "reading" /\ forwarder = "none" /\ queue = <<>>
      /\ added = {} /\ dropped = {}
      /\ \A r \in Resolver : resolver[r].at = "none"
  BY DEF Init, MdnsInit
<1>3. WayType
  BY <1>1, <1>2 DEF WayType
<1>4. ASSUME NEW c \in Candidate, InScript(c) PROVE InOnePlace(c)
  <2>1. \E i \in nread + 1 .. Len(script) : script[i] = c
    BY <1>1, <1>2, <1>4 DEF InScript
  <2>2. Places(c) = {"script"}
    BY <1>2, <2>1 DEF Places
  <2> QED
    BY <2>2 DEF InOnePlace
<1> QED
  BY <1>3, <1>4 DEF WayInv

\* A candidate of the caller is in exactly one place on its way to the agent
\* (CandidatesConserved): the hand-overs between the signaling loop, the forwarding
\* goroutine, the channel and the resolvers lose and repeat none.
THEOREM CandidatesAreConserved == Spec => []CandidatesConserved
<1> DEFINE Inv == MdnsInv /\ (scope = "call" => WayInv)
<1>1. Init => Inv
  BY MdnsStart, WayStart
<1>2. Inv /\ [Next]_vars => Inv'
  BY MdnsStep, WayStep, ScopeStays
<1>3. Inv => CandidatesConserved
  BY DEF CandidatesConserved, WayInv, InScript, InOnePlace
<1> QED
  BY <1>1, <1>2, <1>3, PTL DEF Spec
============================================================================
