----------------------------- MODULE FlowProofs -----------------------------
(***************************************************************************)
(* Proofs about a Flow with an arbitrary source, for any consumers,        *)
(* buffers and channel capacity: a buffer's count is the number of its     *)
(* owners.  Every buffer is in a channel at most once and never both there *)
(* and in the hands of the consumer; that and what the mutex protects make *)
(* the invariant inductive (FlowInv).                                      *)
(***************************************************************************)
EXTENDS Flow, FiniteSetTheorems, TLAPS

(* Sequences without repetition.                                           *)

Occurs(s, f) == \E i \in 1 .. Len(s) : s[i] = f
Distinct(s) == \A i, j \in 1 .. Len(s) : s[i] = s[j] => i = j

\* What Receive does to a channel.
LEMMA TailOccurs ==
  ASSUME NEW s \in Seq(Frame), s # <<>>, Distinct(s)
  PROVE  /\ Head(s) \in Frame /\ Tail(s) \in Seq(Frame)
         /\ Distinct(Tail(s))
         /\ ~Occurs(Tail(s), Head(s))
         /\ \A f : Occurs(s, f) <=> f = Head(s) \/ Occurs(Tail(s), f)
<1>1. /\ Len(s) \in Nat \ {0} /\ Tail(s) \in Seq(Frame) /\ Head(s) = s[1]
      /\ Len(Tail(s)) = Len(s) - 1 /\ Head(s) \in Frame
      /\ \A i \in 1 .. Len(Tail(s)) : Tail(s)[i] = s[i + 1]
  OBVIOUS
<1>2. Distinct(Tail(s)) /\ ~Occurs(Tail(s), Head(s))
  BY <1>1 DEF Distinct, Occurs
<1>3. ASSUME NEW f, Occurs(s, f), f # Head(s)
      PROVE  Occurs(Tail(s), f)
  <2>1. PICK i \in 1 .. Len(s) : s[i] = f
    BY <1>3 DEF Occurs
  <2>2. i - 1 \in 1 .. Len(Tail(s)) /\ Tail(s)[i - 1] = f
    BY <2>1, <1>1, <1>3
  <2> QED
    BY <2>2 DEF Occurs
<1>4. \A f : f = Head(s) \/ Occurs(Tail(s), f) => Occurs(s, f)
  BY <1>1 DEF Occurs
<1> QED
  BY <1>1, <1>2, <1>3, <1>4

\* What PutTo does to a channel.
LEMMA AppendOccurs ==
  ASSUME NEW s \in Seq(Frame), NEW g \in Frame, Distinct(s), ~Occurs(s, g)
  PROVE  /\ Append(s, g) \in Seq(Frame) /\ Append(s, g) # <<>>
         /\ Distinct(Append(s, g))
         /\ \A f : Occurs(Append(s, g), f) <=> f = g \/ Occurs(s, f)
<1>1. /\ Len(s) \in Nat /\ Append(s, g) \in Seq(Frame)
      /\ Len(Append(s, g)) = Len(s) + 1 /\ Append(s, g)[Len(s) + 1] = g
      /\ \A i \in 1 .. Len(s) : Append(s, g)[i] = s[i]
  OBVIOUS
<1>2. Append(s, g) # <<>>
  BY <1>1
<1>3. Distinct(Append(s, g))
  BY <1>1 DEF Distinct, Occurs
<1>4. \A f : Occurs(Append(s, g), f) <=> f = g \/ Occurs(s, f)
  BY <1>1 DEF Occurs
<1> QED
  BY <1>1, <1>2, <1>3, <1>4

LEMMA NothingOccurs == Distinct(<<>>) /\ \A f : ~Occurs(<<>>, f)
BY DEF Distinct, Occurs

----------------------------------------------------------------------------
(* The invariant of Flow.                                                  *)

\* What the mutex protects, and where consumers are.
Protocol ==
  /\ \A u \in User : lock = u <=> user[u] = "starting"
  /\ lock = "source" <=> putting # None
  /\ left \subseteq receivers
  /\ putting = None => left = {}
  /\ receivers \cap closed = {}
  /\ \A u \in User : user[u] = "idle" => u \notin receivers
  /\ \A u \in User : u \notin receivers => ch[u] = <<>>
  /\ \A u \in User : held[u] # None <=> user[u] = "busy"

\* No buffer is twice with the same consumer, or about to be.
Once ==
  \A u \in User : /\ Distinct(ch[u])
                  /\ ~Occurs(ch[u], held[u])
                  /\ u \in left => held[u] # putting /\ ~Occurs(ch[u], putting)

FlowInv == FlowType /\ Protocol /\ Once /\ CountsAreExact

LEMMA FlowInitially == FlowInit => FlowInv
<1> SUFFICES ASSUME FlowInit PROVE FlowInv
  OBVIOUS
<1>1. FlowType /\ Protocol
  BY UserAssumption, FrameAssumption DEF FlowInit, FlowType, Protocol
<1>2. Once
  BY NothingOccurs DEF FlowInit, Once
<1>3. \A f \in Frame : Owners(f) = {}
  BY FrameAssumption DEF FlowInit, Owners, InChannel
<1>4. CountsAreExact
  BY <1>3, FS_EmptySet DEF CountsAreExact, FlowInit
<1> QED
  BY <1>1, <1>2, <1>4 DEF FlowInv

\* Owners are countable, and "source" is not a consumer.
LEMMA OwnersAreFinite ==
  ASSUME FlowType, NEW f
  PROVE  IsFiniteSet(Owners(f)) /\ Cardinality(Owners(f)) \in Nat
<1>1. IsFiniteSet(User \cup {"source"})
  BY UserAssumption, FS_AddElement
<1>2. Owners(f) \in SUBSET (User \cup {"source"})
  BY DEF Owners
<1> QED
  BY <1>1, <1>2, FS_Subset, FS_CardinalityType

\* An action that changes no owner and no count.
LEMMA SameOwners ==
  ASSUME CountsAreExact, count' = count, \A f \in Frame : Owners(f)' = Owners(f)
  PROVE  CountsAreExact'
BY DEF CountsAreExact

\* An action that takes x from the owners of g, if it is one, and counts it.
LEMMA OwnerGone ==
  ASSUME FlowType, CountsAreExact, NEW g \in Frame, NEW x \in Owners(g),
         count' = [count EXCEPT ![g] = @ - 1],
         Owners(g)' = Owners(g) \ {x},
         \A f \in Frame \ {g} : Owners(f)' = Owners(f)
  PROVE  CountsAreExact' /\ count' \in [Frame -> Nat]
<1>1. /\ IsFiniteSet(Owners(g)) /\ Cardinality(Owners(g)) \in Nat
      /\ Cardinality(Owners(g) \ {x}) = Cardinality(Owners(g)) - 1
      /\ Cardinality(Owners(g) \ {x}) \in Nat
  BY OwnersAreFinite, FS_RemoveElement, FS_CardinalityType
<1>2. count \in [Frame -> Nat] /\ count[g] = Cardinality(Owners(g))
  BY DEF FlowType, CountsAreExact
<1>3. count'[g] = Cardinality(Owners(g)') /\ count'[g] \in Nat
  BY <1>1, <1>2
<1>4. \A f \in Frame \ {g} : count'[f] = count[f] /\ count'[f] = Cardinality(Owners(f)')
  BY <1>2 DEF CountsAreExact
<1> QED
  BY <1>2, <1>3, <1>4 DEF CountsAreExact

LEMMA OwnerNew ==
  ASSUME FlowType, CountsAreExact, NEW g \in Frame, NEW x, x \notin Owners(g),
         count' = [count EXCEPT ![g] = count[g] + 1],
         Owners(g)' = Owners(g) \cup {x},
         \A f \in Frame \ {g} : Owners(f)' = Owners(f)
  PROVE  CountsAreExact' /\ count' \in [Frame -> Nat]
<1>1. /\ Cardinality(Owners(g)) \in Nat
      /\ Cardinality(Owners(g) \cup {x}) = Cardinality(Owners(g)) + 1
  BY OwnersAreFinite, FS_AddElement
<1>2. count \in [Frame -> Nat] /\ count[g] = Cardinality(Owners(g))
  BY DEF FlowType, CountsAreExact
<1>3. count'[g] = Cardinality(Owners(g)') /\ count'[g] \in Nat
  BY <1>1, <1>2
<1>4. \A f \in Frame \ {g} : count'[f] = count[f] /\ count'[f] = Cardinality(Owners(f)')
  BY <1>2 DEF CountsAreExact
<1> QED
  BY <1>2, <1>3, <1>4 DEF CountsAreExact

----------------------------------------------------------------------------
(* One lemma per action of Flow.                                           *)

LEMMA AddReceiverKeeps == ASSUME FlowInv, NEW u \in User, AddReceiver(u) PROVE FlowInv'
<1> USE DEF FlowInv
<1>1. ch' = ch
  BY DEF AddReceiver, FlowType, Protocol
<1>2. FlowType'
  BY <1>1, UserAssumption DEF AddReceiver, FlowType
<1>5. u # "free" /\ u # "source" /\ \A v \in User : v # "free" /\ v # "source"
  BY UserAssumption
<1>6. /\ user' \in [User -> {"idle", "starting", "reading", "busy", "leaving"}]
      /\ \A v \in User \ {u} : user'[v] = user[v]
      /\ receivers = {} => lock' = u /\ user'[u] = "starting"
      /\ receivers # {} => lock' = lock /\ user'[u] = "reading"
      /\ user[u] = "idle" /\ lock = "free"
  BY <1>2 DEF FlowType, AddReceiver
<1>7. Protocol'
  BY <1>1, <1>5, <1>6 DEF AddReceiver, Protocol, FlowType
<1>3. Once'
  BY <1>1 DEF AddReceiver, Once
<1>4. \A f \in Frame : Owners(f)' = Owners(f)
  BY <1>1 DEF AddReceiver, Owners, InChannel
<1> QED
  BY <1>2, <1>7, <1>3, <1>4, SameOwners DEF AddReceiver

LEMMA StartedKeeps == ASSUME FlowInv, NEW u \in User, Started(u) PROVE FlowInv'
<1> USE DEF FlowInv
<1>1. FlowType' /\ Protocol'
  BY UserAssumption DEF Started, FlowType, Protocol
<1>2. Once'
  BY DEF Started, Once
<1>3. \A f \in Frame : Owners(f)' = Owners(f)
  BY DEF Started, Owners, InChannel
<1> QED
  BY <1>1, <1>2, <1>3, SameOwners DEF Started

LEMMA LeaveKeeps == ASSUME FlowInv, NEW u \in User, Leave(u) PROVE FlowInv'
<1> USE DEF FlowInv
<1>1. FlowType' /\ Protocol'
  BY UserAssumption DEF Leave, FlowType, Protocol
<1>2. Once'
  BY DEF Leave, Once
<1>3. \A f \in Frame : Owners(f)' = Owners(f)
  BY DEF Leave, Owners, InChannel
<1> QED
  BY <1>1, <1>2, <1>3, SameOwners DEF Leave

LEMMA ReceiveKeeps == ASSUME FlowInv, NEW u \in User, Receive(u) PROVE FlowInv'
<1> USE DEF FlowInv
<1>1. /\ ch[u] \in Seq(Frame) /\ ch[u] # <<>> /\ Distinct(ch[u])
      /\ user[u] = "reading" /\ held[u] = None
  BY DEF FlowType, Once, Receive, Protocol
<1>2. /\ Head(ch[u]) \in Frame /\ Tail(ch[u]) \in Seq(Frame)
      /\ Distinct(Tail(ch[u])) /\ ~Occurs(Tail(ch[u]), Head(ch[u]))
      /\ \A f : Occurs(ch[u], f) <=> f = Head(ch[u]) \/ Occurs(Tail(ch[u]), f)
  BY <1>1, TailOccurs
<1>3. /\ ch'[u] = Tail(ch[u]) /\ held'[u] = Head(ch[u])
      /\ \A v \in User \ {u} : ch'[v] = ch[v] /\ held'[v] = held[v]
  BY DEF Receive, FlowType
<1>4. FlowType' /\ Protocol'
  BY <1>1, <1>2, UserAssumption, FrameAssumption DEF Receive, FlowType, Protocol
<1>5. Once'
  BY <1>2, <1>3 DEF Receive, Once
<1>6. \A f \in Frame : Owners(f)' = Owners(f)
  <2> SUFFICES ASSUME NEW f \in Frame PROVE Owners(f)' = Owners(f)
    OBVIOUS
  <2>1. \A v \in User : (held[v] = f \/ Occurs(ch[v], f)) <=> (held'[v] = f \/ Occurs(ch'[v], f))
    BY <1>1, <1>2, <1>3, FrameAssumption
  <2> QED
    BY <2>1 DEF Owners, InChannel, Occurs, Receive
<1> QED
  BY <1>4, <1>5, <1>6, SameOwners DEF Receive

LEMMA ReleaseFrameKeeps == ASSUME FlowInv, NEW u \in User, ReleaseFrame(u) PROVE FlowInv'
<1> USE DEF FlowInv
<1>1. PICK g \in Frame : g = held[u]
  BY DEF ReleaseFrame, FlowType, Protocol
<1>2. user[u] = "busy" /\ ~InChannel(u, g) /\ u # "source" /\ u # "free"
  BY <1>1, UserAssumption DEF ReleaseFrame, Once, InChannel, Occurs
<1>3. /\ held' \in [User -> Frame \cup {None}]
      /\ held'[u] = None /\ \A v \in User \ {u} : held'[v] = held[v]
  BY DEF ReleaseFrame, FlowType
<1>4. ch' = ch /\ putting' = putting /\ left' = left /\ None \notin Frame
  BY FrameAssumption DEF ReleaseFrame
<1>5. Owners(g)' = Owners(g) \ {u}
  BY <1>1, <1>2, <1>3, <1>4 DEF Owners, InChannel
<1>6. \A f \in Frame \ {g} : Owners(f)' = Owners(f)
  BY <1>1, <1>3, <1>4 DEF Owners, InChannel
<1>7. u \in Owners(g)
  BY <1>1 DEF Owners
<1>8. CountsAreExact' /\ count' \in [Frame -> Nat]
  BY <1>1, <1>5, <1>6, <1>7, OwnerGone DEF ReleaseFrame
<1>9. /\ user' \in [User -> {"idle", "starting", "reading", "busy", "leaving"}]
      /\ user'[u] \in {"reading", "leaving"} /\ \A v \in User \ {u} : user'[v] = user[v]
  BY DEF ReleaseFrame, FlowType
<1>10. FlowType'
  BY <1>3, <1>8, <1>9 DEF ReleaseFrame, FlowType
<1>11. Protocol'
  BY <1>2, <1>3, <1>9 DEF ReleaseFrame, Protocol
<1>12. Once'
  <2>1. ~Occurs(ch[u], None)
    BY FrameAssumption DEF Occurs, FlowType
  <2>2. u \in left => putting # None
    BY DEF Protocol
  <2> QED
    BY <1>3, <1>4, <2>1, <2>2 DEF Once
<1> QED
  BY <1>8, <1>10, <1>11, <1>12

\* closeAndDrain releases exactly what the receivers' channels own.
LEMMA DrainIsExact ==
  ASSUME FlowInv, NEW U \in SUBSET User, count' = Drain(U),
         ch' = [u \in User |-> IF u \in U THEN <<>> ELSE ch[u]],
         held' = held, putting' = putting
  PROVE  CountsAreExact' /\ count' \in [Frame -> Nat]
<1> SUFFICES ASSUME NEW f \in Frame
             PROVE  count'[f] = Cardinality(Owners(f)') /\ count'[f] \in Nat
  BY DEF CountsAreExact, Drain
<1> DEFINE D == {u \in U : InChannel(u, f)}
<1>1. D \subseteq Owners(f)
  BY DEF Owners
<1>2. Owners(f)' = Owners(f) \ D
  <2>1. \A u \in D : held[u] # f
    BY DEF FlowInv, Once, InChannel, Occurs
  <2>2. \A u \in User : InChannel(u, f)' <=> InChannel(u, f) /\ u \notin U
    BY DEF InChannel
  <2> QED
    BY <2>1, <2>2, UserAssumption DEF Owners
<1>3. IsFiniteSet(Owners(f)) /\ Cardinality(Owners(f)) \in Nat
  BY OwnersAreFinite DEF FlowInv
<1>4. /\ IsFiniteSet(D) /\ Cardinality(D) \in Nat
      /\ IsFiniteSet(Owners(f) \ D) /\ Cardinality(Owners(f) \ D) \in Nat
  BY <1>1, <1>3, FS_Subset, FS_CardinalityType
<1>5. (Owners(f) \ D) \cup D = Owners(f) /\ (Owners(f) \ D) \cap D = {}
  BY <1>1
<1>6. Cardinality(Owners(f)) = Cardinality(Owners(f) \ D) + Cardinality(D)
  <2>1. Cardinality((Owners(f) \ D) \cup D)
          = Cardinality(Owners(f) \ D) + Cardinality(D) - Cardinality((Owners(f) \ D) \cap D)
    BY <1>4, FS_Union
  <2>2. Cardinality((Owners(f) \ D) \cup D) = Cardinality(Owners(f))
    BY <1>5, Zenon
  <2>3. Cardinality((Owners(f) \ D) \cap D) = 0
    BY <1>5, FS_EmptySet, Zenon
  <2> HIDE DEF D
  <2> QED
    BY <2>1, <2>2, <2>3, <1>4
<1>7. count'[f] = Cardinality(Owners(f)) - Cardinality(D)
  BY DEF Drain, FlowInv, CountsAreExact
<1> HIDE DEF D
<1> QED
  BY <1>2, <1>3, <1>4, <1>6, <1>7

LEMMA RemoveReceiverKeeps == ASSUME FlowInv, NEW u \in User, RemoveReceiver(u) PROVE FlowInv'
<1>1. /\ user[u] = "leaving" /\ lock = "free" /\ held[u] = None
      /\ u \notin receivers => ch[u] = <<>>
  BY DEF FlowInv, Protocol, FlowType, RemoveReceiver, RemovesLocked
<1>2. ch' = [v \in User |-> IF v \in {u} \cap receivers THEN <<>> ELSE ch[v]]
  BY <1>1 DEF RemoveReceiver, FlowInv, FlowType
<1>3. CountsAreExact' /\ count' \in [Frame -> Nat]
  BY <1>2, DrainIsExact DEF RemoveReceiver
<1>4. FlowType'
  <2>1. ch' \in [User -> Seq(Frame)]
    BY <1>2 DEF FlowInv, FlowType
  <2>2. stops' \in Nat
    BY DEF RemoveReceiver, LastRemoved, FlowInv, FlowType
  <2> QED
    BY <1>3, <2>1, <2>2 DEF RemoveReceiver, FlowInv, FlowType
<1>5. left = {} /\ putting = None
  BY <1>1 DEF FlowInv, Protocol
<1>6. Protocol'
  BY <1>1, <1>2, <1>5, UserAssumption DEF RemoveReceiver, FlowInv, FlowType, Protocol
<1>7. Once'
  BY <1>2, <1>5, NothingOccurs DEF RemoveReceiver, FlowInv, Once
<1> QED
  BY <1>3, <1>4, <1>6, <1>7 DEF FlowInv

LEMMA ShutdownKeeps == ASSUME FlowInv, Shutdown PROVE FlowInv'
<1>1. CountsAreExact' /\ count' \in [Frame -> Nat]
  BY DrainIsExact DEF Shutdown, FlowInv, FlowType
<1>2. FlowType' /\ Protocol'
  BY <1>1 DEF Shutdown, FlowInv, FlowType, Protocol
<1>3. Once'
  BY NothingOccurs DEF Shutdown, FlowInv, FlowType, Protocol, Once
<1> QED
  BY <1>1, <1>2, <1>3 DEF FlowInv

LEMMA PutBeginKeeps == ASSUME FlowInv, NEW g \in Frame, PutBegin(g) PROVE FlowInv'
<1> USE DEF FlowInv
<1>1. /\ lock = "free" /\ putting = None /\ putting' = g /\ ch' = ch /\ held' = held
      /\ left' = receivers /\ None \notin Frame
  BY FrameAssumption DEF PutBegin, Protocol
<1>2. \A u \in User : held[u] # g /\ ~InChannel(u, g)
  BY DEF PutBegin, Held
<1>3. Owners(g) = {} /\ Owners(g)' = Owners(g) \cup {"source"}
  BY <1>1, <1>2 DEF Owners, InChannel
<1>4. \A f \in Frame \ {g} : Owners(f)' = Owners(f)
  BY <1>1 DEF Owners, InChannel
<1>5. count[g] = 0 /\ count' = [count EXCEPT ![g] = count[g] + 1]
  <2>1. count[g] = Cardinality(Owners(g))
    BY DEF CountsAreExact
  <2>2. Cardinality(Owners(g)) = 0
    BY <1>3, FS_EmptySet, Zenon
  <2> QED
    BY <2>1, <2>2 DEF PutBegin
<1>6. CountsAreExact' /\ count' \in [Frame -> Nat]
  BY <1>3, <1>4, <1>5, OwnerNew
<1>7. FlowType' /\ Protocol'
  BY <1>1, <1>6, UserAssumption DEF PutBegin, FlowType, Protocol
<1>8. Once'
  <2>1. \A u \in User : held[u] # g /\ ~Occurs(ch[u], g)
    BY <1>2 DEF InChannel, Occurs
  <2> QED
    BY <1>1, <2>1 DEF Once
<1> QED
  BY <1>6, <1>7, <1>8

LEMMA PutToKeeps == ASSUME FlowInv, NEW u \in User, PutTo(u) PROVE FlowInv'
<1> USE DEF FlowInv
<1>1. PICK g \in Frame : g = putting
  BY DEF PutTo, FlowType, Protocol
<1>2. /\ u \in left /\ held[u] # g /\ ~Occurs(ch[u], g) /\ Distinct(ch[u])
      /\ u # "source" /\ ch[u] \in Seq(Frame) /\ u \in receivers
  BY <1>1, UserAssumption DEF PutTo, Once, FlowType, Protocol
<1>3. held' = held /\ putting' = putting /\ left' = left \ {u}
  BY DEF PutTo
<1>4. CASE Len(ch[u]) < Capacity
  <2>1. /\ ch' = [ch EXCEPT ![u] = Append(ch[u], g)]
        /\ count' = [count EXCEPT ![g] = count[g] + 1]
    BY <1>1, <1>4 DEF PutTo, CountAfter
  <2>2. /\ Append(ch[u], g) \in Seq(Frame) /\ Distinct(Append(ch[u], g))
        /\ \A f : Occurs(Append(ch[u], g), f) <=> f = g \/ Occurs(ch[u], f)
    BY <1>2, AppendOccurs
  <2>3. /\ ch' \in [User -> Seq(Frame)] /\ ch'[u] = Append(ch[u], g)
        /\ \A v \in User \ {u} : ch'[v] = ch[v]
    BY <2>1, <2>2 DEF FlowType
  <2>4. \A v \in User, f \in Frame :
          InChannel(v, f)' <=> InChannel(v, f) \/ (v = u /\ f = g)
    <3> SUFFICES ASSUME NEW v \in User, NEW f \in Frame
                 PROVE  Occurs(ch'[v], f) <=> Occurs(ch[v], f) \/ (v = u /\ f = g)
      BY DEF InChannel, Occurs
    <3> QED
      BY <2>2, <2>3
  <2>5. u \notin Owners(g) /\ Owners(g)' = Owners(g) \cup {u}
    <3>1. ~InChannel(u, g)
      BY <1>2 DEF InChannel, Occurs
    <3> QED
      BY <1>1, <1>2, <1>3, <2>4, <3>1 DEF Owners
  <2>6. ASSUME NEW f \in Frame \ {g} PROVE Owners(f)' = Owners(f)
    <3>1. \A v \in User : InChannel(v, f)' <=> InChannel(v, f)
      BY <2>4, Zenon
    <3> QED
      BY <1>3, <3>1 DEF Owners
  <2>7. CountsAreExact' /\ count' \in [Frame -> Nat]
    BY <2>1, <2>5, <2>6, OwnerNew
  <2>8. FlowType'
    BY <2>3, <2>7 DEF PutTo, FlowType
  <2>9. Protocol'
    BY <1>2, <2>3 DEF PutTo, FlowType, Protocol
  <2>10. Once'
    BY <1>1, <1>2, <1>3, <2>2, <2>3 DEF Once
  <2> QED
    BY <2>7, <2>8, <2>9, <2>10
<1>5. CASE ~(Len(ch[u]) < Capacity)
  <2>1. ch' = ch /\ count' = count
    BY <1>1, <1>5 DEF PutTo, CountAfter, FlowType
  <2>2. \A f \in Frame : Owners(f)' = Owners(f)
    BY <1>3, <2>1 DEF Owners, InChannel
  <2>3. FlowType' /\ Protocol'
    BY <2>1 DEF PutTo, FlowType, Protocol
  <2>4. Once'
    BY <1>3, <2>1 DEF Once
  <2> QED
    BY <2>1, <2>2, <2>3, <2>4, SameOwners
<1> QED
  BY <1>4, <1>5

LEMMA PutEndKeeps == ASSUME FlowInv, PutEnd PROVE FlowInv'
<1> USE DEF FlowInv
<1>1. PICK g \in Frame : g = putting
  BY DEF PutEnd, FlowType, Protocol
<1>2. /\ putting' = None /\ None \notin Frame /\ ch' = ch /\ held' = held
      /\ left = {} /\ left' = {} /\ "source" \notin User
  BY FrameAssumption, UserAssumption DEF PutEnd
<1>3. "source" \in Owners(g) /\ Owners(g)' = Owners(g) \ {"source"}
  BY <1>1, <1>2 DEF Owners, InChannel
<1>4. \A f \in Frame \ {g} : Owners(f)' = Owners(f)
  BY <1>1, <1>2 DEF Owners, InChannel
<1>5. CountsAreExact' /\ count' \in [Frame -> Nat]
  BY <1>1, <1>3, <1>4, OwnerGone DEF PutEnd
<1>6. FlowType' /\ Protocol'
  BY <1>2, <1>5, UserAssumption DEF PutEnd, FlowType, Protocol
<1>7. Once'
  BY <1>2 DEF Once
<1> QED
  BY <1>5, <1>6, <1>7

LEMMA FlowQuiet == ASSUME FlowInv, UNCHANGED flowVars \/ StopRuns PROVE FlowInv'
<1> USE DEF FlowInv, StopRuns, flowVars
<1>1. FlowType' /\ Protocol' /\ Once'
  BY DEF FlowType, Protocol, Once
<1>2. \A f \in Frame : Owners(f)' = Owners(f)
  BY DEF Owners, InChannel
<1> QED
  BY <1>1, <1>2, SameOwners

\* FlowInv is inductive.
LEMMA FlowKeeps == FlowInv /\ [FlowNext]_flowVars => FlowInv'
BY AddReceiverKeeps, StartedKeeps, ReceiveKeeps, ReleaseFrameKeeps, LeaveKeeps,
   RemoveReceiverKeeps, PutToKeeps, PutBeginKeeps, PutEndKeeps, ShutdownKeeps,
   FlowQuiet DEF FlowNext

\* Whatever the source of a Flow does, SharedBuffer.count is exact in every state:
\* Put, Receive, Release, RemoveReceiver and Shutdown in any interleaving.
THEOREM FlowCountsAreExact == FlowSpec => []CountsAreExact
<1>1. FlowInv => CountsAreExact
  BY DEF FlowInv
<1> QED
  BY <1>1, FlowInitially, FlowKeeps, PTL DEF FlowSpec

\* Whatever the source does, nothing is sent to a channel after it was closed.
THEOREM FlowClosedIsSilent == FlowSpec => []ClosedIsSilent
<1>1. FlowInv => ClosedIsSilent
  BY DEF FlowInv, FlowType, Protocol, ClosedIsSilent
<1> QED
  BY <1>1, FlowInitially, FlowKeeps, PTL DEF FlowSpec
============================================================================
