-------------------------------- MODULE Mdns --------------------------------
(***************************************************************************)
(* The mDNS client (internal/ice/mdns): Resolve, the answers that its read *)
(* loops handle, and the pruning of the cache.                             *)
(*                                                                         *)
(* A record has identity: a resolver waits for the channel of the record   *)
(* it found, whatever the cache holds by then.  An answer with an address  *)
(* is a message of the network that may come at any time.  Nothing calls   *)
(* Announce, so no record is our own and no question is answered.          *)
(***************************************************************************)
EXTENDS Naturals, Sequences, FiniteSets

CONSTANTS Resolver,      \* goroutines that call Resolve
          Name, NameOf,  \* the name each of them asks for
          Ephemeral,     \* the names that isEphemeralLocalDomain accepts
          Addr, NoAddr,
          InitialPruneSize,
          MaxRecords,    \* bound: an answer makes a record while there are fewer
          MaxPrunes      \* bound: answers come while fewer prunings are pending

ASSUME MdnsAssumption ==
  /\ NameOf \in [Resolver -> Name] /\ NoAddr \notin Addr
  /\ Ephemeral \subseteq Name
  /\ InitialPruneSize \in Nat /\ MaxRecords \in Nat /\ MaxPrunes \in Nat

VARIABLES records,       \* all records made so far
          cache,         \* name |-> its record
          pruneSize,
          pruning,       \* doPruneCache goroutines that have yet to run
          resolver       \* per resolver where it is, and its record

mdnsVars == <<records, cache, pruneSize, pruning, resolver>>

\* ready: "none" without a channel, else whether the channel is closed.
Record ==
  [name : Name, ip : Addr \cup {NoAddr}, expired : BOOLEAN,
   ready : {"none", "open", "closed"}]

MdnsInit(place) ==
  /\ records = <<>> /\ cache = [n \in {} |-> 0]
  /\ pruneSize = InitialPruneSize /\ pruning = 0
  /\ resolver = [r \in Resolver |-> [at |-> place, rec |-> 0]]

\* A record is made and entered in the cache.
Enter(record) ==
  /\ records' = Append(records, record)
  /\ cache' = [n \in DOMAIN cache \cup {record.name} |->
                 IF n = record.name THEN Len(records) + 1 ELSE cache[n]]

MaybePrune ==
  pruning' = IF Cardinality(DOMAIN cache') > pruneSize THEN pruning + 1 ELSE pruning

At(r, place) == resolver' = [resolver EXCEPT ![r].at = place]

----------------------------------------------------------------------------
(* Resolve.                                                                *)

\* The record of the name, or a new one that waits for an answer.
Resolve(r) ==
  LET n == NameOf[r] IN
  /\ resolver[r].at = "started" /\ n \in Ephemeral
  /\ IF n \in DOMAIN cache
     THEN /\ resolver' = [resolver EXCEPT ![r] = [at |-> "found", rec |-> cache[n]]]
          /\ UNCHANGED <<records, cache>>
     ELSE /\ Enter([name |-> n, ip |-> NoAddr, expired |-> FALSE, ready |-> "open"])
          /\ resolver' = [resolver EXCEPT ![r] = [at |-> "found", rec |-> Len(records) + 1]]
  /\ MaybePrune
  /\ UNCHANGED pruneSize

RefuseName(r) ==
  /\ resolver[r].at = "started" /\ NameOf[r] \notin Ephemeral
  /\ At(r, "failed")
  /\ UNCHANGED <<records, cache, pruneSize, pruning>>

\* An address is as good as any, expired or not; it is read without the lock.
ReadIP(r) ==
  /\ resolver[r].at = "found"
  /\ At(r, IF records[resolver[r].rec].ip # NoAddr THEN "resolved" ELSE "asking")
  /\ UNCHANGED <<records, cache, pruneSize, pruning>>

SendQuery(r) ==
  /\ resolver[r].at = "asking"
  /\ At(r, "waiting") \/ At(r, "failed")
  /\ UNCHANGED <<records, cache, pruneSize, pruning>>

GiveUpNever(r) == FALSE                            \* mutant: no timeout
\* mdnsResolveTimeout is over, the context of the call ends, or the query cannot
\* be sent again.  Sending it again changes nothing here.
GiveUp(r) ==
  /\ resolver[r].at = "waiting"
  /\ At(r, "failed")
  /\ UNCHANGED <<records, cache, pruneSize, pruning>>

\* The channel of a record without one is nil, and never ready.
Ready(r) ==
  /\ resolver[r].at = "waiting" /\ records[resolver[r].rec].ready = "closed"
  /\ At(r, "resolved")
  /\ UNCHANGED <<records, cache, pruneSize, pruning>>

----------------------------------------------------------------------------
(* The read loops and pruning.                                             *)

\* Update: the channel is closed once.
UpdatedNever(record, a, expired) ==                \* mutant: waiters are not told
  [record EXCEPT !.ip = a, !.expired = expired]
Updated(record, a, expired) ==
  [record EXCEPT !.ip = a, !.expired = expired,
                 !.ready = IF @ = "none" THEN "none" ELSE "closed"]

\* handleAnswer: the record of a name is updated, and one is made for a name
\* nobody has asked for.
HandleAnswer(n, a, expired) ==
  /\ n \in Ephemeral /\ pruning < MaxPrunes
  /\ n \in DOMAIN cache \/ Len(records) < MaxRecords
  /\ IF n \in DOMAIN cache
     THEN /\ records' = [records EXCEPT ![cache[n]] = Updated(@, a, expired)]
          /\ UNCHANGED cache
     ELSE Enter([name |-> n, ip |-> a, expired |-> expired, ready |-> "none"])
  /\ MaybePrune
  /\ UNCHANGED <<pruneSize, resolver>>

\* Time passes.
Expire(i) ==
  /\ ~records[i].expired
  /\ records' = [records EXCEPT ![i].expired = TRUE]
  /\ UNCHANGED <<cache, pruneSize, pruning, resolver>>

DoPruneCache ==
  LET kept == {n \in DOMAIN cache : ~records[cache[n]].expired} IN
  /\ pruning > 0
  /\ cache' = [n \in kept |-> cache[n]]
  /\ pruneSize' = Cardinality(kept) + InitialPruneSize
  /\ pruning' = pruning - 1
  /\ UNCHANGED <<records, resolver>>

ResolverStep(r) ==
  Resolve(r) \/ RefuseName(r) \/ ReadIP(r) \/ SendQuery(r) \/ GiveUp(r) \/ Ready(r)

\* An answer comes for one of Names, or the cache is pruned.
ClientStep(Names, Expired) ==
  \/ \E n \in Names, a \in Addr, expired \in Expired : HandleAnswer(n, a, expired)
  \/ DoPruneCache

MdnsNext ==
  \/ \E r \in Resolver : ResolverStep(r)
  \/ ClientStep(Name, BOOLEAN)
  \/ \E i \in DOMAIN records : Expire(i)

----------------------------------------------------------------------------
(* Properties.                                                             *)

\* Whoever waits in waitUntilResolved will be told of the answer: the channel of
\* its record is closed already, or the record is the one handleAnswer finds
\* under the name.  Only a record that has expired can be pruned from under a
\* waiter, and no answer is lost between the look at the address and the wait.
WaitersWillBeTold ==
  \A r \in Resolver : resolver[r].at \in {"asking", "waiting"} =>
    LET i == resolver[r].rec IN
    /\ i \in DOMAIN records /\ records[i].name = NameOf[r]
    /\ \/ records[i].ready = "closed" /\ records[i].ip # NoAddr
       \/ /\ records[i].ready = "open" /\ records[i].ip = NoAddr
          /\ \/ NameOf[r] \in DOMAIN cache /\ cache[NameOf[r]] = i
             \/ records[i].expired
============================================================================
