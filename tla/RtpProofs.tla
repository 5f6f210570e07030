----------------------------- MODULE RtpProofs -----------------------------
(***************************************************************************)
(* Proofs about Rtp: the retransmission cache holds the packets it should, *)
(* the receiver's estimate of the index is right, only parameter units     *)
(* outgrow a buffer, no two units are mixed, and what is sent in order     *)
(* arrives whole and in order.                                             *)
(***************************************************************************)
EXTENDS Rtp, TLAPS

\* The provers of a leaf that names none.
USE ZenonT(5), SMTT(20)

----------------------------------------------------------------------------
(* Arithmetic of sequence numbers.                                         *)

\* What quotient and remainder of a natural number are.
LEMMA DivMod ==
  ASSUME NEW n \in Nat \ {0}, NEW i \in Nat
  PROVE  /\ i % n \in 0 .. n - 1 /\ i \div n \in Nat
         /\ i = n * (i \div n) + (i % n)
OBVIOUS

\* A product with a factor of at least 1 is at least the other factor.
LEMMA Multiple ==
  ASSUME NEW n \in Nat \ {0}, NEW k \in Int
  PROVE  /\ k >= 1 => n * k >= n
         /\ k >= 2 => n * k >= 2 * n
         /\ k <= 0 => n * k <= 0
         /\ k <= -1 => n * k <= - n
         /\ k <= -2 => n * k <= - 2 * n
OBVIOUS

\* Two numbers differ by a multiple of n and their remainders.
LEMMA Distance ==
  ASSUME NEW n \in Nat \ {0}, NEW i \in Nat, NEW j \in Nat
  PROVE  \E k \in Int : j - i = n * k + ((j % n) - (i % n))
<1> DEFINE p == i \div n
           q == j \div n
           r == i % n
           t == j % n
<1>1. p \in Int /\ q \in Int /\ r \in Int /\ t \in Int
  BY SMTT(20), DivMod
<1>2. i = n * p + r /\ j = n * q + t
  BY DivMod
<1>3. q - p \in Int /\ j - i = n * (q - p) + (t - r)
  <2> HIDE DEF p, q, r, t
  <2> QED
    BY <1>1, <1>2
<1> QED
  BY <1>3

\* The corrected distance of the sequence numbers of two indices is the
\* distance of the indices, if that is at most half a turn.
LEMMA DeltaIsRight ==
  ASSUME NEW i \in Nat, NEW last \in Nat, lastSequence = Sequence(last),
         i - last \in 1 - HalfSeq .. HalfSeq
  PROVE  Delta(Sequence(i)) = i - last
<1>1. HalfSeq \in Nat \ {0} /\ SeqMod \in Nat \ {0} /\ SeqMod = 2 * HalfSeq
  BY WireAssumption DEF SeqMod
<1>2. Sequence(i) \in 0 .. SeqMod - 1 /\ Sequence(last) \in 0 .. SeqMod - 1
  BY <1>1, DivMod DEF Sequence
<1>3. PICK k \in Int : i - last = SeqMod * k + (Sequence(i) - Sequence(last))
  BY <1>1, Distance DEF Sequence
<1>4. k \in {-1, 0, 1}
  BY <1>1, <1>2, <1>3, Multiple
<1>5. CASE k = 0
  BY <1>1, <1>2, <1>3, <1>5 DEF Delta
<1>6. CASE k = 1
  BY <1>1, <1>2, <1>3, <1>6 DEF Delta
<1>7. CASE k = -1
  BY <1>1, <1>2, <1>3, <1>7 DEF Delta
<1> QED
  BY <1>4, <1>5, <1>6, <1>7

\* A full turn later the sequence number is the same.
LEMMA SameSequence ==
  ASSUME NEW n \in Nat \ {0}, NEW i \in Nat
  PROVE  (i + n) % n = i % n
<1> DEFINE r == i % n
           t == (i + n) % n
<1>1. r \in 0 .. n - 1 /\ t \in 0 .. n - 1
  BY SMTT(20), DivMod
<1>2. PICK k \in Int : (i + n) - i = n * k + (t - r)
  <2>1. i + n \in Nat
    OBVIOUS
  <2> QED
    BY <2>1, Distance
<1> HIDE DEF r, t
<1>3. k - 1 \in Int /\ n * (k - 1) = r - t
  <2>1. n * (k - 1) = n * k - n /\ n * k \in Int
    OBVIOUS
  <2>2. n = n * k + (t - r)
    BY <1>2
  <2> QED
    BY <1>1, <2>1, <2>2
<1>4. k - 1 = 0
  BY <1>1, <1>3, Multiple
<1>5. r = t
  BY <1>1, <1>2, <1>4
<1> QED
  BY <1>5 DEF r, t

----------------------------------------------------------------------------
(* Payloads have their type.                                               *)

\* The constants as the provers need them.
LEMMA Constants ==
  /\ HalfSeq \in Nat \ {0} /\ SeqMod \in Nat \ {0} /\ SeqMod = 2 * HalfSeq
  /\ CacheSize \in Nat \ {0} /\ MaxSize \in Nat /\ MaxSize > 2
  /\ Starts \subseteq Nat
BY SMTT(20), WireAssumption, SenderAssumption DEF SeqMod, SeqNo

\* A unit of the source has a positive size.
LEMMA UnitType ==
  ASSUME video \in Videos, NEW u \in 1 .. Len(video)
  PROVE  video[u].size \in Nat \ {0} /\ u \in Nat
<1> DEFINE S == [kind : {"param", "slice"}, size : Nat \ {0}]
<1>1. video \in Seq(S)
  BY WireAssumption
<1>2. video[u] \in S
  <2> HIDE DEF S
  <2> QED
    BY <1>1
<1>3. u \in Nat
  BY <1>1
<1> QED
  BY <1>2, <1>3

\* A video has a length.
LEMMA VideoType == video \in Videos => Len(video) \in Nat
<1> DEFINE S == [kind : {"param", "slice"}, size : Nat \ {0}]
<1>1. video \in Videos => video \in Seq(S)
  BY WireAssumption
<1> HIDE DEF S
<1> QED
  BY <1>1

\* A fragment is a payload: its bounds are natural numbers.
LEMMA FragmentType ==
  ASSUME video \in Videos, NEW u \in 1 .. Len(video), NEW k \in Nat \ {0}
  PROVE  Fragment(u, k) \in Payload
<1> DEFINE from == FragmentFrom(k)
           tail == from + MaxSize - 2
           to == IF IsEnd(tail, video[u].size) THEN video[u].size ELSE tail
<1>1. video[u].size \in Nat /\ u \in Nat
  BY UnitType
<1>2. (k - 1) * (MaxSize - 2) \in Nat
  BY Constants
<1>3. from \in Nat /\ tail \in Nat
  BY <1>2, Constants DEF FragmentFrom
<1>4. to \in Nat
  BY <1>1, <1>3
<1>5. <<u>> \in Seq(Nat)
  BY <1>1
<1> HIDE DEF from, tail, to
<1>6. Fragment(u, k) = [kind |-> "fragment", units |-> <<u>>, from |-> from, to |-> to,
                        edges |-> (IF k = 1 THEN {"start"} ELSE {})
                                  \cup (IF IsEnd(tail, video[u].size) THEN {"end"} ELSE {})]
  BY DEF Fragment, from, tail, to
<1> QED
  BY SMTT(20), <1>3, <1>4, <1>5, <1>6 DEF Payload

----------------------------------------------------------------------------
(* The fragments of a unit.                                                *)

\* Multiplication by a positive number is monotone.
LEMMA Monotone ==
  ASSUME NEW n \in Nat \ {0}, NEW a \in Int, NEW b \in Int, a <= b
  PROVE  a * n <= b * n
OBVIOUS

\* Numbers 1 + (k - 1) * d are below size for the first q + 1 values of k.
LEMMA StepsBelow ==
  ASSUME NEW d \in Nat \ {0}, NEW size \in Nat, size >= 2
  PROVE  \E n \in Nat \ {0} :
           /\ n <= size
           /\ \A k \in Nat \ {0} : 1 + (k - 1) * d < size <=> k <= n
<1> DEFINE q == (size - 2) \div d
           r == (size - 2) % d
<1>0. size - 2 \in Nat
  OBVIOUS
<1>1. q \in Nat /\ r \in 0 .. d - 1 /\ size - 2 = d * q + r
  BY <1>0, DivMod
<1> HIDE DEF q, r
<1>2. q * d \in Nat /\ size - 2 = q * d + r
  BY <1>1
<1>3. q * 1 <= q * d
  BY <1>1
<1>4. q + 1 \in Nat \ {0} /\ q + 1 <= size
  BY <1>1, <1>2, <1>3
<1>5. ASSUME NEW k \in Nat \ {0}, k <= q + 1 PROVE 1 + (k - 1) * d < size
  <2>1. (k - 1) * d <= q * d /\ (k - 1) * d \in Int
    BY <1>1, <1>5, Monotone
  <2> QED
    BY <1>1, <1>2, <2>1
<1>6. ASSUME NEW k \in Nat \ {0}, ~(k <= q + 1) PROVE ~(1 + (k - 1) * d < size)
  <2>1. (q + 1) * d <= (k - 1) * d /\ (k - 1) * d \in Int
    BY <1>1, <1>6, Monotone
  <2>2. (q + 1) * d = q * d + d
    BY <1>1
  <2> QED
    BY <1>1, <1>2, <2>1, <2>2
<1> QED
  BY <1>4, <1>5, <1>6

\* A fragment ends where the next one begins.
LEMMA NextFragment ==
  ASSUME NEW k \in Nat \ {0}
  PROVE  /\ FragmentFrom(k) + MaxSize - 2 = FragmentFrom(k + 1)
         /\ FragmentFrom(k) \in Nat /\ FragmentFrom(k + 1) \in Nat
<1> DEFINE d == MaxSize - 2
<1>1. MaxSize \in Nat /\ d \in Nat \ {0} /\ MaxSize - 2 = d
  BY Constants
<1> HIDE DEF d
<1>2. (k - 1) * d \in Nat /\ k * d = (k - 1) * d + d /\ k + 1 - 1 = k
  BY <1>1
<1>3. FragmentFrom(k) = 1 + (k - 1) * d /\ FragmentFrom(k + 1) = 1 + k * d
  BY <1>1, <1>2 DEF FragmentFrom
<1> QED
  BY <1>1, <1>2, <1>3

\* A unit that does not fit in a payload is cut into n fragments, of which the
\* last one only has the end mark.
LEMMA FragmentCount ==
  ASSUME video \in Videos, NEW u \in 1 .. Len(video), ~(video[u].size < MaxSize)
  PROVE  \E n \in Nat \ {0} :
           /\ Fragments(u) = [k \in 1 .. n |-> Fragment(u, k)]
           /\ \A k \in 1 .. n : IsEnd(FragmentFrom(k) + MaxSize - 2, video[u].size) <=> k = n
<1> DEFINE size == video[u].size
           d == MaxSize - 2
           K == {k \in 1 .. size : FragmentFrom(k) < size}
<1>1. size \in Nat /\ size >= 2 /\ d \in Nat \ {0} /\ MaxSize \in Nat
  BY UnitType, Constants
<1> HIDE DEF size
<1>2. PICK n \in Nat \ {0} : /\ n <= size
                            /\ \A k \in Nat \ {0} : 1 + (k - 1) * d < size <=> k <= n
  BY <1>1, StepsBelow
<1>f. \A k \in Nat \ {0} : FragmentFrom(k) < size <=> k <= n
  BY <1>2 DEF FragmentFrom
<1>3. K = 1 .. n
  BY <1>1, <1>2, <1>f
<1>5. Fragments(u) = [k \in 1 .. n |-> Fragment(u, k)]
  BY <1>3 DEF Fragments, size
<1>6. ASSUME NEW k \in 1 .. n PROVE IsEnd(FragmentFrom(k) + MaxSize - 2, size) <=> k = n
  <2>1. k \in Nat \ {0} /\ k + 1 \in Nat \ {0} /\ k <= n
    BY <1>2
  <2>2. FragmentFrom(k) + MaxSize - 2 = FragmentFrom(k + 1)
    BY <2>1, NextFragment
  <2>3. FragmentFrom(k + 1) < size <=> k + 1 <= n
    BY <1>f, <2>1
  <2>4. FragmentFrom(k + 1) \in Int
    BY <2>1, NextFragment
  <2> QED
    BY <1>1, <1>2, <2>1, <2>2, <2>3, <2>4 DEF IsEnd
<1> QED
  BY <1>5, <1>6 DEF size

\* What packetize makes of a unit is a sequence of payloads.
LEMMA PictureType ==
  ASSUME video \in Videos, NEW u \in 1 .. Len(video)
  PROVE  Picture(u) \in Seq(Payload)
<1>1. video[u].size \in Nat /\ u \in Nat /\ <<u>> \in Seq(Nat)
  BY UnitType
<1>2. Whole(u) \in Payload
  BY <1>1 DEF Whole, Payload
<1>3. ASSUME ~(video[u].size < MaxSize) PROVE Fragments(u) \in Seq(Payload)
  <2>1. PICK n \in Nat \ {0} : Fragments(u) = [k \in 1 .. n |-> Fragment(u, k)]
    BY <1>3, FragmentCount
  <2>2. \A k \in 1 .. n : Fragment(u, k) \in Payload
    BY FragmentType
  <2> QED
    BY <2>1, <2>2
<1> QED
  BY <1>2, <1>3 DEF Picture

\* Overwriting a buffer changes what that buffer holds and no other.
LEMMA ReplaceInSeq ==
  ASSUME NEW S, NEW q \in Seq(S), NEW k \in DOMAIN q, NEW x \in S
  PROVE  /\ [q EXCEPT ![k] = x] \in Seq(S)
         /\ DOMAIN [q EXCEPT ![k] = x] = DOMAIN q /\ [q EXCEPT ![k] = x][k] = x
         /\ \A d \in DOMAIN q \ {k} : [q EXCEPT ![k] = x][d] = q[d]
OBVIOUS

----------------------------------------------------------------------------
(* The cache.                                                              *)

Entry(B) == [buf : B, age : Nat]

\* Ageing changes no buffer.
LEMMA AgedFacts ==
  ASSUME NEW D, NEW B, NEW c \in [D -> Entry(B)], NEW age \in Nat
  PROVE  /\ Aged(c, age) \in [D -> Entry(B)]
         /\ \A s \in D : Aged(c, age)[s].buf = c[s].buf
<1>1. \A s \in D : c[s].buf \in B /\ c[s].age \in Nat /\ c[s] \in Entry(B)
  BY DEF Entry
<1>2. DOMAIN c = D
  OBVIOUS
<1>3. \A s \in D : LET e == [c[s] EXCEPT !.age = @ + 1] IN e \in Entry(B) /\ e.buf = c[s].buf
  BY SMTT(20), <1>1 DEF Entry
<1> QED
  BY <1>1, <1>2, <1>3 DEF Aged

\* Get changes no buffer.
LEMMA TouchFacts ==
  ASSUME NEW D, NEW B, NEW c \in [D -> Entry(B)], NEW s \in D
  PROVE  /\ Touch(c, s) \in [D -> Entry(B)]
         /\ \A t \in D : Touch(c, s)[t].buf = c[t].buf
<1> DEFINE a == Aged(c, c[s].age)
<1>1. c[s].age \in Nat
  BY DEF Entry
<1>2. a \in [D -> Entry(B)] /\ \A t \in D : a[t].buf = c[t].buf
  BY SMTT(20), <1>1, AgedFacts
<1>3. Touch(c, s) = [a EXCEPT ![s] = [a[s] EXCEPT !.age = 0]]
  BY DEF Touch
<1> HIDE DEF a
<1>4. [a[s] EXCEPT !.age = 0] \in Entry(B) /\ [a[s] EXCEPT !.age = 0].buf = a[s].buf
  BY <1>2 DEF Entry
<1> QED
  BY <1>2, <1>3, <1>4

AddedRight(c, B, s, b) ==
  /\ Added(c, s, b) \in [DOMAIN c \cup {s} -> Entry(B \cup {b})]
  /\ Added(c, s, b)[s] = [buf |-> b, age |-> 0]
  /\ \A t \in DOMAIN c \ {s} : Added(c, s, b)[t].buf = c[t].buf

\* Add puts the buffer under its key, in front, and changes no other.
LEMMA AddedFacts ==
  ASSUME NEW B, NEW c, c \in [DOMAIN c -> Entry(B)], NEW s, NEW b
  PROVE  AddedRight(c, B, s, b)
<1> DEFINE D == DOMAIN c
           a == Aged(c, IF s \in DOMAIN c THEN c[s].age ELSE CacheSize)
<1>1. (IF s \in DOMAIN c THEN c[s].age ELSE CacheSize) \in Nat
  BY Constants DEF Entry
<1>2. a \in [D -> Entry(B)] /\ \A t \in D : a[t].buf = c[t].buf
  BY SMTT(20), <1>1, AgedFacts
<1>3. Added(c, s, b) = [t \in D \cup {s} |-> IF t = s THEN [buf |-> b, age |-> 0] ELSE a[t]]
  BY DEF Added
<1> HIDE DEF a
<1>4. \A t \in D : a[t] \in Entry(B \cup {b})
  BY <1>2 DEF Entry
<1>5. [buf |-> b, age |-> 0] \in Entry(B \cup {b})
  BY DEF Entry
<1> QED
  BY <1>2, <1>3, <1>4, <1>5 DEF AddedRight

----------------------------------------------------------------------------
(* What resend finds.                                                      *)

SenderType ==
  /\ video \in Videos /\ sequenceStart \in Nat /\ count \in Nat
  /\ stap \in Seq(Nat) /\ todo \in Seq(Payload) /\ taken \in Nat
  /\ mem \in Seq(Packet) /\ network \subseteq Packet /\ pool \subseteq DOMAIN mem
  /\ cache \in [DOMAIN cache -> Entry(DOMAIN mem)]

\* A buffer of the cache is not in the pool.  That no two entries share one
\* follows from ResendIsCurrent: their packets have different numbers.
CacheInv ==
  /\ SenderType /\ ResendIsCurrent
  /\ \A s \in DOMAIN cache : cache[s].buf \notin pool

\* Every entry of the cache names an allocated buffer with a packet in it.
LEMMA BufferTypes ==
  ASSUME SenderType
  PROVE  /\ Index \in Nat
         /\ \A s \in DOMAIN cache : /\ cache[s].buf \in DOMAIN mem
                                   /\ mem[cache[s].buf] \in Packet
                                   /\ mem[cache[s].buf].index \in Nat
<1>1. \A s \in DOMAIN cache : cache[s].buf \in DOMAIN mem
  BY DEF SenderType, Entry
<1>2. \A b \in DOMAIN mem : mem[b] \in Packet
  BY SMTT(20) DEF SenderType
<1>3. \A q \in Packet : q.index \in Nat
  BY DEF Packet
<1> QED
  BY <1>1, <1>2, <1>3 DEF SenderType, Index

\* No two entries of the cache share a buffer.
LEMMA NoSharing ==
  ASSUME CacheInv, NEW s \in DOMAIN cache, NEW t \in DOMAIN cache, s # t
  PROVE  cache[s].buf # cache[t].buf
BY DEF CacheInv, ResendIsCurrent

\* packetize makes payloads and leaves the cache alone.
LEMMA PacketizeStep ==
  ASSUME CacheInv, Packetize
  PROVE  CacheInv'
<1>1. UNCHANGED <<writerVars, video, network>>
  BY DEF Packetize
<1>2. taken + 1 \in 1 .. Len(video) /\ taken + 1 \in Nat
  BY DEF Packetize, CacheInv, SenderType
<1>3. Picture(taken + 1) \in Seq(Payload)
  BY <1>2, PictureType DEF CacheInv, SenderType
<1>4. Stap(stap) \in Payload
  BY DEF Stap, Payload, CacheInv, SenderType
<1>5. (IF stap = <<>> THEN <<>> ELSE <<Stap(stap)>>) \in Seq(Payload)
  BY <1>4
<1>6. stap' \in Seq(Nat) /\ todo' \in Seq(Payload) /\ taken' \in Nat
  <2>1. stap \in Seq(Nat) /\ todo \in Seq(Payload) /\ taken' = taken + 1
    BY DEF Packetize, CacheInv, SenderType
  <2>2. CASE video[taken + 1].kind = "param"
    BY <1>2, <2>1, <2>2 DEF Packetize
  <2>3. CASE video[taken + 1].kind # "param"
    <3> DEFINE first == IF stap = <<>> THEN <<>> ELSE <<Stap(stap)>>
               rest == Picture(taken + 1)
    <3>1. stap' = <<>> /\ todo' = first \o rest
      BY <2>3 DEF Packetize
    <3>2. first \in Seq(Payload) /\ rest \in Seq(Payload)
      BY <1>3, <1>5
    <3> HIDE DEF first, rest
    <3> QED
      BY <1>2, <2>1, <3>1, <3>2
  <2> QED
    BY <2>2, <2>3
<1> QED
  BY <1>1, <1>6 DEF writerVars, CacheInv, SenderType, ResendIsCurrent, Index

\* resend changes the ages, not what is cached.
LEMMA ResendStep ==
  ASSUME CacheInv, Resend
  PROVE  CacheInv'
<1> DEFINE s == Head(resendPackets)
<1>1. UNCHANGED <<sequenceStart, count, pool, mem, stap, todo, taken, video>>
  BY DEF Resend, videoVars
<1>2. cache \in [DOMAIN cache -> Entry(DOMAIN mem)]
  BY DEF CacheInv, SenderType
<1>3. CASE s \in DOMAIN cache
  <2>1. cache' = Touch(cache, s) /\ network' \subseteq network \cup {mem[cache[s].buf]}
    BY <1>3 DEF Resend
  <2>2. /\ cache' \in [DOMAIN cache -> Entry(DOMAIN mem)]
        /\ \A t \in DOMAIN cache : cache'[t].buf = cache[t].buf
    BY SMTT(20), <1>2, <1>3, <2>1, TouchFacts
  <2>3. DOMAIN cache' = DOMAIN cache
    BY <2>2
  <2>4. network' \subseteq Packet
    BY <1>3, <2>1, BufferTypes DEF CacheInv, SenderType
  <2> QED
    BY <1>1, <2>2, <2>3, <2>4 DEF CacheInv, SenderType, ResendIsCurrent, Index
<1>4. CASE s \notin DOMAIN cache
  <2>1. cache' = cache /\ network' = network
    BY <1>4 DEF Resend
  <2> QED
    BY <1>1, <2>1 DEF CacheInv, SenderType, ResendIsCurrent, Index
<1> QED
  BY <1>3, <1>4

\* The packet is put in a buffer that no entry uses.  An entry that would be a
\* full turn old after it has its number, and is replaced by it.
LEMMA WriteStep ==
  ASSUME CacheInv, NEW b \in Obtainable, WritePacket(b)
  PROVE  CacheInv'
<1> DEFINE p == Head(todo)
           used == HeaderSize + PayloadSize(p)
           packet == [index |-> Index, payload |-> p,
                      tag |-> IF used + TagSize > Capacity THEN "cut" ELSE "whole"]
           key == Sequence(Index)
           added == Added(cache, key, b)
<1> USE DEF CacheInv, SenderType
<1>1. UNCHANGED <<sequenceStart, stap, taken, video>>
  BY DEF WritePacket
<1>2. todo # <<>> /\ p \in Payload /\ Tail(todo) \in Seq(Payload) /\ <<>> \in Seq(Payload)
  BY SMTT(20) DEF WritePacket
<1>3. b \in pool \/ b = Len(mem) + 1
  BY DEF Obtainable
<1>4. \A s \in DOMAIN cache : cache[s].buf # b
  BY <1>3, BufferTypes
<1>5. packet \in Packet /\ packet.index = Index /\ Index \in Nat
  BY <1>2, BufferTypes DEF Packet
<1> DEFINE Refused == /\ todo' = <<>> /\ pool' = pool \ {b}
                      /\ UNCHANGED <<count, cache, mem, network>>
           Crashed == UNCHANGED <<count, cache, mem, network, pool, todo>>
           Sent == /\ count' = count + 1
                   /\ mem' = IF b \in DOMAIN mem THEN [mem EXCEPT ![b] = packet]
                                                  ELSE Append(mem, packet)
                   /\ cache' = Kept(added) /\ pool' = PoolAfter(b, added)
                   /\ todo' \in {<<>>, Tail(todo)} /\ network' \subseteq network \cup {packet}
<1>6. Refused \/ Crashed \/ Sent
  BY DEF WritePacket, Fail
<1>7. CASE Refused
  BY <1>1, <1>2, <1>7 DEF ResendIsCurrent, Index
<1>8. CASE Crashed
  BY <1>1, <1>8 DEF ResendIsCurrent, Index
<1>9. CASE Sent
  <2> HIDE DEF packet, added, key
  <2>1. /\ mem' \in Seq(Packet) /\ b \in DOMAIN mem'
        /\ DOMAIN mem' = DOMAIN mem \cup {b}
        /\ mem'[b] = packet /\ \A d \in DOMAIN mem \ {b} : mem'[d] = mem[d]
    <3>1. CASE b \in DOMAIN mem
      <4>1. mem \in Seq(Packet) /\ mem' = [mem EXCEPT ![b] = packet]
        BY <1>9, <3>1
      <4> HIDE DEF CacheInv, SenderType
      <4> QED
        BY SMTT(20), <1>5, <3>1, <4>1, ReplaceInSeq
    <3>2. CASE b \notin DOMAIN mem
      <4>1. mem \in Seq(Packet) /\ b = Len(mem) + 1 /\ mem' = Append(mem, packet)
        BY <1>3, <1>9, <3>2
      <4> HIDE DEF CacheInv, SenderType
      <4> QED
        BY <1>5, <4>1
    <3> QED
      BY <3>1, <3>2
  <2>2. /\ added \in [DOMAIN cache \cup {key} -> Entry(DOMAIN mem \cup {b})]
        /\ added[key] = [buf |-> b, age |-> 0]
        /\ \A t \in DOMAIN cache \ {key} : added[t].buf = cache[t].buf
    <3>1. cache \in [DOMAIN cache -> Entry(DOMAIN mem)]
      OBVIOUS
    <3> HIDE DEF CacheInv, SenderType
    <3>2. AddedRight(cache, DOMAIN mem, key, b)
      BY <3>1, AddedFacts
    <3> QED
      BY <3>2 DEF AddedRight, added
  <2>3. /\ DOMAIN cache' \subseteq DOMAIN added
        /\ \A s \in DOMAIN cache' : cache'[s] = added[s] /\ s \notin Evicted(added)
        /\ cache' \in [DOMAIN cache' -> Entry(DOMAIN mem')]
    <3>1. cache' = [s \in DOMAIN added \ Evicted(added) |-> added[s]]
      BY <1>9 DEF Kept
    <3> HIDE DEF CacheInv, SenderType
    <3> QED
      BY <2>1, <2>2, <3>1
  <2>4. key \notin Evicted(added)
    BY SMTT(20), <2>2, Constants DEF Evicted
  <2>5. pool' = (pool \ {b}) \cup {added[s].buf : s \in Evicted(added)}
    BY <1>9 DEF PoolAfter
  <2>6. Evicted(added) \subseteq DOMAIN cache \ {key}
    BY <2>2, <2>4 DEF Evicted
  <2>7. pool' \subseteq DOMAIN mem'
    BY <2>1, <2>2, <2>5, <2>6, BufferTypes
  <2>8. SenderType'
    <3>1. network' \subseteq Packet /\ count' \in Nat
      BY SMTT(20), <1>5, <1>9
    <3>2. todo' \in Seq(Payload)
      BY <1>2, <1>9
    <3> QED
      BY <1>1, <2>1, <2>3, <2>7, <3>1, <3>2
  <2>9. ASSUME NEW s \in DOMAIN cache' PROVE cache'[s].buf \notin pool'
    <3>1. CASE s = key
      <4>1. cache'[s].buf = b
        BY SMTT(20), <2>2, <2>3, <3>1
      <4>2. \A t \in Evicted(added) : added[t].buf # b
        BY <1>4, <2>2, <2>6
      <4> HIDE DEF CacheInv, SenderType
      <4> QED
        BY <2>5, <4>1, <4>2
    <3>2. CASE s # key
      <4>1. s \in DOMAIN cache /\ cache'[s].buf = cache[s].buf /\ s \notin Evicted(added)
        BY <2>2, <2>3, <3>2
      <4>2. \A t \in Evicted(added) : added[t].buf = cache[t].buf /\ cache[t].buf # cache[s].buf
        BY <2>2, <2>6, <4>1, NoSharing
      <4> QED
        BY <2>5, <4>1, <4>2
    <3> QED
      BY <3>1, <3>2
  <2>10. Index' = Index + 1
    BY SMTT(20), <1>1, <1>9 DEF Index
  <2>11. ASSUME NEW s \in DOMAIN cache'
         PROVE  /\ Sequence(mem'[cache'[s].buf].index) = s
                /\ mem'[cache'[s].buf].index < Index'
                /\ Index' - mem'[cache'[s].buf].index <= SeqMod
    <3>1. CASE s = key
      <4>1. mem'[cache'[s].buf] = packet
        BY SMTT(20), <2>1, <2>2, <2>3, <3>1
      <4> QED
        BY SMTT(20), <1>5, <2>10, <3>1, <4>1, Constants DEF key
    <3>2. CASE s # key
      <4> DEFINE i == mem[cache[s].buf].index
      <4>1. s \in DOMAIN cache /\ cache'[s].buf = cache[s].buf
        BY <2>2, <2>3, <3>2
      <4>2. mem'[cache'[s].buf] = mem[cache[s].buf]
        BY <1>4, <2>1, <4>1, BufferTypes
      <4>3. i \in Nat /\ Sequence(i) = s /\ i < Index /\ Index - i <= SeqMod
        BY <4>1, BufferTypes DEF ResendIsCurrent
      <4>4. Index # i + SeqMod
        BY <3>2, <4>3, SameSequence, Constants DEF key, Sequence
      <4> HIDE DEF i, CacheInv, SenderType
      <4>5. i < Index + 1 /\ Index + 1 - i <= SeqMod
        <5>1. Index \in Int /\ SeqMod \in Int /\ i \in Int
          BY <1>5, <4>3, Constants
        <5>2. Index - i # SeqMod
          BY <4>4, <5>1
        <5> QED
          BY <4>3, <5>1, <5>2
      <4>6. mem'[cache'[s].buf].index = i
        BY <4>2 DEF i
      <4>7. i < Index' /\ Index' - i <= SeqMod
        BY <1>5, <2>10, <4>3, <4>5
      <4> QED
        BY <4>3, <4>6, <4>7
    <3> QED
      BY <3>1, <3>2
  <2> QED
    BY <2>8, <2>9, <2>11 DEF ResendIsCurrent
<1> QED
  BY <1>6, <1>7, <1>8, <1>9

\* A step that leaves the writer alone keeps the invariant; packets may get lost.
LEMMA OtherStep ==
  ASSUME CacheInv, network' \subseteq network,
         UNCHANGED <<writerVars, video, stap, todo, taken>>
  PROVE  CacheInv'
BY DEF CacheInv, SenderType, ResendIsCurrent, Index, writerVars

\* Every step keeps the invariant of the cache.
LEMMA CacheStep ==
  ASSUME CacheInv, [Next]_vars
  PROVE  CacheInv'
<1> DEFINE Quiet == /\ network' \subseteq network
                    /\ UNCHANGED <<writerVars, video, stap, todo, taken>>
<1>1. CASE UNCHANGED vars
  <2>1. Quiet
    BY <1>1 DEF vars, senderVars, videoVars
  <2> QED
    BY <2>1, OtherStep
<1>2. CASE SenderStep
  <2>1. CASE Packetize
    BY <2>1, PacketizeStep
  <2>2. ASSUME NEW b \in Obtainable, WritePacket(b) PROVE CacheInv'
    BY <2>2, WriteStep
  <2>3. CASE Resend
    BY <2>3, ResendStep
  <2>4. CASE AddStream \/ StreamAdded \/ StartSendVideo \/ QueueLost \/ ReadFails
    <3>1. Quiet
      BY <2>4 DEF AddStream, StreamAdded, StartSendVideo, QueueLost, ReadFails, videoVars
    <3> QED
      BY <3>1, OtherStep
  <2>5. CASE SessionStep
    <3>1. Quiet
      BY <2>5 DEF SessionStep, RecvNack, EndSendVideo, CloseConn, RecvShortPacket, videoVars
    <3> QED
      BY <3>1, OtherStep
  <2> QED
    BY <1>2, <2>1, <2>2, <2>3, <2>4, <2>5 DEF SenderStep
<1>3. CASE UNCHANGED <<senderVars, network, video>>
  <2>1. Quiet
    BY <1>3 DEF senderVars, videoVars
  <2> QED
    BY <2>1, OtherStep
<1>4. ASSUME NEW packet \in network, Receive(packet) \/ Lose(packet)
      PROVE  CacheInv'
  <2>1. Quiet
    BY <1>4 DEF Receive, Lose, senderVars, videoVars
  <2> QED
    BY <2>1, OtherStep
<1> QED
  BY <1>1, <1>2, <1>3, <1>4 DEF Next

\* The cache is empty at first.
LEMMA CacheInit ==
  ASSUME Init
  PROVE  CacheInv
<1>1. video \in Videos /\ sequenceStart \in Nat
  BY SMTT(20), ScenarioAssumption, SenderAssumption DEF Init, SeqNo
<1>2. cache = [s \in {} |-> 0] /\ pool = {} /\ mem = <<>> /\ network = {}
  BY DEF Init
<1>3. stap = <<>> /\ todo = <<>> /\ taken = 0 /\ count = 0
  BY DEF Init
<1> QED
  BY <1>1, <1>2, <1>3 DEF CacheInv, SenderType, ResendIsCurrent

\* What resend finds under a sequence number is the last packet that was sent
\* with it, for every cache size, sequence space and order of NACKs, although
\* the pool recycles buffers.
THEOREM ResendStaysCurrent == Spec => []ResendIsCurrent
<1>1. Init => CacheInv
  BY CacheInit
<1>2. CacheInv /\ [Next]_vars => CacheInv'
  BY CacheStep
<1>3. CacheInv => ResendIsCurrent
  BY DEF CacheInv
<1> QED
  BY <1>1, <1>2, <1>3, PTL DEF Spec

----------------------------------------------------------------------------
(* The receiver's estimate of the index.                                   *)

\* Before the first packet lastIndex is 0, which updateIndex takes to mean that
\* there was none; it is 0 as well after a first packet of index 0.
IndexInv ==
  /\ highest \in Nat \cup {-1} /\ window \in {"kept", "left"}
  /\ window = "kept" =>
       /\ IF highest = -1 THEN lastIndex = 0
          ELSE lastIndex = highest /\ lastSequence = Sequence(highest)
       /\ rejected = {}

\* From the sequence number of a near packet updateIndex computes its index.
LEMMA EstimateIsRight ==
  ASSUME IndexInv, window = "kept", NEW i \in Nat, Near(i)
  PROVE  Estimate(Sequence(i)) = i
<1>1. SeqMod \in Nat \ {0} /\ SeqMod = 2 * HalfSeq /\ HalfSeq \in Nat \ {0}
  BY WireAssumption DEF SeqMod
<1>2. i < SeqMod => Sequence(i) = i
  BY <1>1 DEF Sequence
<1>3. CASE lastIndex = 0
  BY <1>1, <1>2, <1>3 DEF Estimate, Near, IndexInv
<1>4. CASE lastIndex # 0
  <2>1. highest \in Nat /\ lastIndex = highest /\ lastSequence = Sequence(highest)
    BY <1>4 DEF IndexInv
  <2>2. i - highest \in 1 - HalfSeq .. HalfSeq /\ i < IndexMod
    BY <2>1 DEF Near
  <2>3. Delta(Sequence(i)) = i - highest
    BY <2>1, <2>2, DeltaIsRight
  <2>4. lastIndex + Delta(Sequence(i)) = i
    BY <2>1, <2>3
  <2>5. i % IndexMod = i
    BY <2>2, ReceiverAssumption
  <2> QED
    BY <1>4, <2>4, <2>5 DEF Estimate
<1> QED
  BY <1>3, <1>4

\* readPacket keeps lastIndex at the highest index and rejects no near packet.
LEMMA ReadStep ==
  ASSUME IndexInv, NEW packet \in Packet, ReadPacket(packet)
  PROVE  IndexInv'
<1> DEFINE i == packet.index
           s == Sequence(i)
<1>1. i \in Nat /\ packet.tag \in {"whole", "cut"}
  BY DEF Packet
<1>2. UpdateIndex(s) /\ History(packet, Verified(packet, Estimate(s)))
  BY DEF ReadPacket
<1>3. highest' \in Nat /\ window' \in {"kept", "left"}
  BY SMTT(20), <1>1, <1>2 DEF History, IndexInv
<1>4. SUFFICES ASSUME window' = "kept"
               PROVE  lastIndex' = highest' /\ lastSequence' = Sequence(highest') /\ rejected' = {}
  BY <1>3 DEF IndexInv
<1>5. window = "kept" /\ Near(i)
  BY <1>2, <1>4 DEF History, IndexInv
<1>6. Estimate(s) = i
  BY <1>1, <1>5, EstimateIsRight
<1>7. rejected' = {}
  BY <1>1, <1>2, <1>5, <1>6 DEF History, Verified, IndexInv
<1>8. highest' = IF i > highest THEN i ELSE highest
  BY <1>2 DEF History
<1>9. IF lastIndex = 0 \/ i > lastIndex THEN lastIndex' = i /\ lastSequence' = s
      ELSE lastIndex' = lastIndex /\ lastSequence' = lastSequence
  BY <1>2, <1>6 DEF UpdateIndex, indexVars
<1> HIDE DEF i
<1>10. lastIndex' = highest' /\ lastSequence' = Sequence(highest')
  <2>1. CASE highest = -1
    BY <1>1, <1>5, <1>8, <1>9, <2>1 DEF IndexInv
  <2>2. CASE highest # -1
    <3>1. highest \in Nat /\ lastIndex = highest /\ lastSequence = Sequence(highest)
      BY <1>5, <2>2 DEF IndexInv
    <3> QED
      BY <1>1, <1>8, <1>9, <3>1
  <2> QED
    BY <2>1, <2>2
<1> QED
  BY <1>7, <1>10

\* Every step keeps the invariant of the index.
LEMMA IndexStep ==
  ASSUME IndexInv, CacheInv, [Next]_vars
  PROVE  IndexInv'
<1>1. CASE UNCHANGED <<indexVars, historyVars>>
  BY <1>1 DEF IndexInv, indexVars, historyVars
<1>2. ASSUME NEW packet \in network, Receive(packet) PROVE IndexInv'
  <2>1. packet \in Packet
    BY DEF CacheInv, SenderType
  <2> QED
    BY <1>2, <2>1, ReadStep DEF Receive
<1>3. ASSUME ReceiverStep PROVE UNCHANGED <<indexVars, historyVars>>
  BY <1>3 DEF ReceiverStep, PutUnit, Consume, StartReceiveVideo, EndReceiveVideo, CloseStream
<1>4. ASSUME UNCHANGED receiverVars PROVE UNCHANGED <<indexVars, historyVars>>
  BY <1>4 DEF receiverVars
<1>5. ASSUME NEW packet \in network, Lose(packet) PROVE UNCHANGED receiverVars
  BY <1>5 DEF Lose
<1>6. UNCHANGED vars => UNCHANGED receiverVars
  BY DEF vars
<1> QED
  BY <1>1, <1>2, <1>3, <1>4, <1>5, <1>6 DEF Next

\* updateIndex estimates the sender's index, for every size of the sequence
\* space and across any number of rollovers.
THEOREM IndexStaysRight == Spec => []IndexIsRight
<1>1. Init => IndexInv /\ CacheInv
  BY CacheInit DEF Init, IndexInv
<1>2. IndexInv /\ CacheInv /\ [Next]_vars => IndexInv' /\ CacheInv'
  BY IndexStep, CacheStep
<1>3. IndexInv => IndexIsRight
  BY DEF IndexInv, IndexIsRight
<1> QED
  BY <1>1, <1>2, <1>3, PTL DEF Spec

----------------------------------------------------------------------------
(* The order of what packetize writes.                                     *)

Last(s) == s[Len(s)]

\* A fragment that is not the last one, or not the first one.
Open(p) == p.kind = "fragment" /\ "end" \notin p.edges
Continues(p) == p.kind = "fragment" /\ "start" \notin p.edges

\* A payload other than parameter units stays within MaxSize.
Bounded(p) ==
  /\ p.kind = "single" => p.to <= MaxSize
  /\ p.kind = "fragment" => 2 + p.to - p.from <= MaxSize

\* A payload holds successive units, or a fragment, whose end is the unit's.
Formed(p) ==
  /\ p.units # <<>> /\ Bounded(p)
  /\ \A k \in 1 .. Len(p.units) :
       p.units[k] = p.units[1] + k - 1 /\ p.units[k] \in 1 .. Len(video)
  /\ p.kind = "fragment" =>
       Len(p.units) = 1 /\ ("end" \in p.edges => p.to = video[p.units[1]].size)

\* The payload q goes on where p has ended.
Follows(p, q) ==
  /\ Continues(q) <=> Open(p)
  /\ Open(p) => q.from = p.to
  /\ q.units[1] = IF Open(p) THEN p.units[1] ELSE Last(p.units) + 1

Chained(s) == \A k \in 1 .. Len(s) - 1 : Follows(s[k], s[k + 1])

\* s carries the units first .. last.
Carries(s, first, last) ==
  /\ s \in Seq(Payload) /\ s # <<>> /\ Chained(s) /\ \A k \in 1 .. Len(s) : Formed(s[k])
  /\ ~Continues(s[1]) /\ s[1].units[1] = first
  /\ ~Open(Last(s)) /\ Last(Last(s).units) = last

\* The fields of a fragment: it ends where the next one begins, or with the unit.
LEMMA FragmentFacts ==
  ASSUME video \in Videos, NEW u \in 1 .. Len(video), NEW k \in Nat \ {0}
  PROVE  LET f == Fragment(u, k)
             end == IsEnd(FragmentFrom(k) + MaxSize - 2, video[u].size) IN
         /\ f.kind = "fragment" /\ f.units = <<u>> /\ f.from = FragmentFrom(k)
         /\ "start" \in f.edges <=> k = 1
         /\ "end" \in f.edges <=> end
         /\ f.to = IF end THEN video[u].size ELSE FragmentFrom(k + 1)
         /\ Bounded(f)
<1> DEFINE f == Fragment(u, k)
           tail == FragmentFrom(k) + MaxSize - 2
<1>1. FragmentFrom(k) + MaxSize - 2 = FragmentFrom(k + 1)
  BY NextFragment
<1>2. Bounded(f)
  <2>1. f.kind = "fragment" /\ f.from = FragmentFrom(k)
        /\ f.to = IF IsEnd(tail, video[u].size) THEN video[u].size ELSE tail
    BY DEF Fragment
  <2>2. FragmentFrom(k) \in Nat /\ MaxSize \in Nat /\ video[u].size \in Nat
    <3>1. (k - 1) * (MaxSize - 2) \in Nat
      BY Constants
    <3> QED
      BY <3>1, Constants, UnitType DEF FragmentFrom
  <2> HIDE DEF f
  <2>3. 2 + f.to - f.from <= MaxSize
    BY <2>1, <2>2 DEF IsEnd
  <2> QED
    BY <2>1, <2>3 DEF Bounded
<1> QED
  BY <1>1, <1>2 DEF Fragment

\* packetize carries one unit with one payload, or with all of its fragments.
LEMMA PictureCarries ==
  ASSUME video \in Videos, NEW u \in 1 .. Len(video)
  PROVE  Carries(Picture(u), u, u)
<1> DEFINE P == Picture(u)
<1>1. P \in Seq(Payload)
  BY PictureType
<1>2. CASE video[u].size < MaxSize
  <2>1. P = <<Whole(u)>>
    BY <1>2 DEF Picture
  <2>2. Whole(u).units = <<u>> /\ Whole(u).kind = "single"
    BY DEF Whole
  <2> HIDE DEF P
  <2>3. Len(P) = 1 /\ P[1] = Whole(u) /\ Last(P) = Whole(u) /\ P # <<>>
    BY <2>1 DEF Last
  <2>4. u \in Nat
    BY UnitType
  <2>b. Bounded(Whole(u))
    BY <1>2, UnitType, Constants DEF Whole, Bounded
  <2>5. Formed(Whole(u)) /\ ~Continues(Whole(u)) /\ ~Open(Whole(u))
    BY <2>2, <2>4, <2>b DEF Formed, Continues, Open
  <2>6. Last(Whole(u).units) = u /\ Whole(u).units[1] = u
    BY <2>2 DEF Last
  <2> QED
    BY <1>1, <2>3, <2>5, <2>6 DEF Carries, Chained, P
<1>3. CASE ~(video[u].size < MaxSize)
  <2>1. PICK n \in Nat \ {0} :
          /\ Fragments(u) = [k \in 1 .. n |-> Fragment(u, k)]
          /\ \A k \in 1 .. n : IsEnd(FragmentFrom(k) + MaxSize - 2, video[u].size) <=> k = n
    BY <1>3, FragmentCount
  <2>2. P = [k \in 1 .. n |-> Fragment(u, k)]
    BY <1>3, <2>1 DEF Picture
  <2> HIDE DEF P
  <2>3. Len(P) = n /\ P # <<>> /\ \A k \in 1 .. n : P[k] = Fragment(u, k)
    BY <1>1, <2>2
  <2>4. \A k \in 1 .. n :
          /\ P[k].kind = "fragment" /\ P[k].units = <<u>> /\ P[k].from = FragmentFrom(k)
          /\ "start" \in P[k].edges <=> k = 1
          /\ "end" \in P[k].edges <=> k = n
          /\ P[k].to = IF k = n THEN video[u].size ELSE FragmentFrom(k + 1)
          /\ Bounded(P[k])
    <3> SUFFICES ASSUME NEW k \in 1 .. n
                 PROVE  /\ P[k].kind = "fragment" /\ P[k].units = <<u>> /\ P[k].from = FragmentFrom(k)
                        /\ "start" \in P[k].edges <=> k = 1
                        /\ "end" \in P[k].edges <=> k = n
                        /\ P[k].to = IF k = n THEN video[u].size ELSE FragmentFrom(k + 1)
                        /\ Bounded(P[k])
      OBVIOUS
    <3>1. k \in Nat \ {0}
      BY <2>1
    <3> QED
      BY SMTT(20), <2>1, <2>3, <3>1, FragmentFacts
  <2>5. u \in Nat /\ <<u>>[1] = u /\ Len(<<u>>) = 1 /\ <<u>> # <<>> /\ Last(<<u>>) = u
    BY UnitType DEF Last
  <2>6. ASSUME NEW k \in 1 .. n PROVE Formed(P[k])
    <3>1. \A j \in 1 .. Len(<<u>>) : <<u>>[j] = <<u>>[1] + j - 1 /\ <<u>>[j] \in 1 .. Len(video)
      BY <2>5
    <3>2. "end" \in P[k].edges => P[k].to = video[u].size
      BY <2>4
    <3>3. P[k].units = <<u>> /\ Bounded(P[k])
      BY <2>4
    <3> QED
      BY <2>5, <3>1, <3>2, <3>3 DEF Formed
  <2>7. ASSUME NEW k \in 1 .. n - 1 PROVE Follows(P[k], P[k + 1])
    <3>1. k \in 1 .. n /\ k + 1 \in 1 .. n /\ k # n /\ k + 1 # 1
      BY <2>1
    <3> QED
      BY <2>4, <2>5, <3>1 DEF Follows, Continues, Open
  <2>8. 1 \in 1 .. n /\ n \in 1 .. n /\ Last(P) = P[n]
    BY SMTT(20), <2>1, <2>3 DEF Last
  <2>9. ~Continues(P[1]) /\ P[1].units[1] = u /\ ~Open(Last(P)) /\ Last(Last(P).units) = u
    BY <2>4, <2>5, <2>8 DEF Continues, Open
  <2> QED
    BY <1>1, <2>3, <2>6, <2>7, <2>9 DEF Carries, Chained, P
<1> QED
  BY <1>2, <1>3

\* Parameter units in front of a picture.
LEMMA StapCarries ==
  ASSUME NEW first \in Nat \ {0}, NEW last \in 1 .. Len(video), NEW us \in Seq(Nat), us # <<>>,
         Len(video) \in Nat,
         \A k \in 1 .. Len(us) : us[k] = first + k - 1, last = first + Len(us),
         NEW P, Carries(P, last, last)
  PROVE  Carries(<<Stap(us)>> \o P, first, last)
<1> DEFINE S == Stap(us)
           t == <<Stap(us)>> \o P
<1>1. S.kind = "stap" /\ S.units = us /\ S \in Payload
  BY DEF Stap, Payload
<1> HIDE DEF S
<1>2. P \in Seq(Payload) /\ Len(P) \in Nat /\ Len(P) >= 1 /\ P # <<>>
  BY SMTT(20) DEF Carries
<1>3. t = <<S>> \o P
  BY DEF S
<1> HIDE DEF t
<1>4. t \in Seq(Payload) /\ Len(t) = Len(P) + 1 /\ t[1] = S /\ t # <<>>
  BY <1>1, <1>2, <1>3
<1>5. \A k \in 1 .. Len(P) : t[k + 1] = P[k]
  BY <1>1, <1>2, <1>3
<1>6. Len(us) \in Nat /\ Len(us) >= 1 /\ us[1] = first /\ Last(us) = last - 1
  BY DEF Last
<1>7. Formed(S) /\ ~Open(S) /\ ~Continues(S)
  BY SMTT(20), <1>1, <1>6 DEF Formed, Bounded, Open, Continues
<1>8. Follows(S, P[1])
  BY SMTT(20), <1>1, <1>6, <1>7 DEF Follows, Carries
<1>9. ASSUME NEW k \in 1 .. Len(t) PROVE Formed(t[k])
  <2>1. k = 1 \/ (k - 1 \in 1 .. Len(P) /\ t[k] = P[k - 1])
    <3>1. k # 1 => k - 1 \in 1 .. Len(P) /\ k - 1 + 1 = k
      BY <1>2, <1>4
    <3> QED
      BY <1>5, <3>1
  <2> QED
    BY <1>4, <1>7, <2>1 DEF Carries
<1>10. ASSUME NEW k \in 1 .. Len(t) - 1 PROVE Follows(t[k], t[k + 1])
  <2>1. k \in 1 .. Len(P) /\ t[k + 1] = P[k]
    BY <1>2, <1>4, <1>5
  <2>2. k = 1 \/ (k - 1 \in 1 .. Len(P) - 1 /\ t[k] = P[k - 1] /\ k - 1 + 1 = k)
    <3>1. k # 1 => k - 1 \in 1 .. Len(P) - 1 /\ k - 1 \in 1 .. Len(P) /\ k - 1 + 1 = k
      BY <1>2, <1>4
    <3> QED
      BY <1>5, <3>1
  <2>3. CASE k = 1
    BY <1>4, <1>8, <2>1, <2>3
  <2>4. CASE k - 1 \in 1 .. Len(P) - 1 /\ t[k] = P[k - 1] /\ k - 1 + 1 = k
    <3>1. Follows(P[k - 1], P[k - 1 + 1])
      BY <2>4 DEF Carries, Chained
    <3> QED
      BY <2>1, <2>4, <3>1
  <2> QED
    BY <2>2, <2>3, <2>4
<1>11. Last(t) = Last(P)
  BY <1>2, <1>4, <1>5 DEF Last
<1> QED
  BY <1>1, <1>4, <1>6, <1>7, <1>9, <1>10, <1>11 DEF Carries, Chained, t

\* The packets that can still reach the receiver.
Written == network \cup {mem[b] : b \in DOMAIN mem}

\* p is the last payload before the units that packetize holds back.
Finished(p) == ~Open(p) /\ Last(p.units) = taken - Len(stap)

StapRight ==
  /\ Len(stap) <= taken /\ taken <= Len(video)
  /\ \A k \in 1 .. Len(stap) : stap[k] = taken - Len(stap) + k

TodoRight ==
  /\ Chained(todo) /\ \A k \in 1 .. Len(todo) : Formed(todo[k])
  /\ todo # <<>> => Finished(Last(todo))
  /\ sending = "ended" => todo = <<>>

WrittenRight ==
  \A p \in Written :
    /\ Formed(p.payload) /\ p.index < Index
    /\ \A q \in Written : q.index = p.index + 1 => Follows(p.payload, q.payload)

\* What is written next goes on after the packet that was written last.
TodoGoesOn ==
  \A p \in Written : p.index = Index - 1 =>
    /\ todo # <<>> => Follows(p.payload, Head(todo))
    /\ todo = <<>> /\ sending # "ended" => Finished(p.payload)

StreamInv == StapRight /\ TodoRight /\ WrittenRight /\ TodoGoesOn

\* The packets that can still reach the receiver are packets.
LEMMA WrittenType ==
  ASSUME SenderType
  PROVE  /\ Index \in Nat
         /\ \A p \in Written : /\ p \in Packet /\ p.index \in Nat /\ p.payload \in Payload
                               /\ p.payload.units \in Seq(Nat)
<1>1. \A p \in Written : p \in Packet
  BY SMTT(20) DEF Written, SenderType
<1>2. \A p \in Packet : p.index \in Nat /\ p.payload \in Payload
  BY DEF Packet
<1>3. \A p \in Payload : p.units \in Seq(Nat)
  BY DEF Payload
<1> QED
  BY <1>1, <1>2, <1>3 DEF SenderType, Index

\* Steps that leave packetize alone: packets may get lost or be sent again.
LEMMA StreamKept ==
  ASSUME SenderType, StreamInv, Written' \subseteq Written, UNCHANGED <<sequenceStart, count, video>>,
         UNCHANGED <<stap, todo, taken>>,
         sending = "ended" => sending' = "ended",
         sending' = "ended" => sending = "ended" \/ todo = <<>>
  PROVE  StreamInv'
<1>1. Index' = Index
  BY DEF Index
<1>2. StapRight' /\ TodoRight'
  BY DEF StreamInv, StapRight, TodoRight, Chained, Finished, Formed
<1>3. WrittenRight'
  BY <1>1 DEF StreamInv, WrittenRight, Formed
<1>4. TodoGoesOn'
  BY <1>1 DEF StreamInv, TodoGoesOn, Finished
<1> QED
  BY <1>2, <1>3, <1>4 DEF StreamInv

\* What packetize makes of the next unit and of the units it held back.
LEMMA PacketizeCarries ==
  ASSUME SenderType, StreamInv, Packetize, video[taken + 1].kind # "param"
  PROVE  /\ stap' = <<>> /\ taken' = taken + 1
         /\ Carries(todo', taken - Len(stap) + 1, taken')
<1> DEFINE u == taken + 1
<1>1. u \in 1 .. Len(video) /\ taken' = u /\ stap' = <<>>
      /\ todo' = (IF stap = <<>> THEN <<>> ELSE <<Stap(stap)>>) \o Picture(u)
  BY DEF Packetize
<1>2. taken \in Nat /\ u \in Nat /\ stap \in Seq(Nat) /\ video \in Videos
  BY DEF SenderType
<1>3. Carries(Picture(u), u, u)
  BY <1>1, <1>2, PictureCarries
<1>4. CASE stap = <<>>
  <2>1. Picture(u) \in Seq(Payload)
    BY <1>3 DEF Carries
  <2>2. todo' = Picture(u) /\ taken - Len(stap) + 1 = u
    BY <1>1, <1>2, <1>4, <2>1
  <2> QED
    BY <1>1, <1>3, <2>2
<1>5. CASE stap # <<>>
  <2> DEFINE first == taken - Len(stap) + 1
  <2>1. todo' = <<Stap(stap)>> \o Picture(u)
    BY <1>1, <1>5
  <2>2. first \in Nat \ {0} /\ u = first + Len(stap) /\ \A k \in 1 .. Len(stap) : stap[k] = first + k - 1
    BY <1>2 DEF StreamInv, StapRight
  <2> HIDE DEF first, u
  <2>3. Carries(<<Stap(stap)>> \o Picture(u), first, u)
    BY <1>1, <1>2, <1>3, <1>5, <2>2, VideoType, StapCarries DEF u
  <2> QED
    BY <1>1, <2>1, <2>3 DEF first, u
<1> QED
  BY <1>4, <1>5

\* packetize continues the stream of payloads.
LEMMA PacketizeStream ==
  ASSUME SenderType, StreamInv, Packetize
  PROVE  StreamInv'
<1>1. UNCHANGED <<sequenceStart, count, video, sending, mem, network>> /\ todo = <<>>
      /\ sending = "serving" /\ taken' = taken + 1
  BY DEF Packetize, writerVars
<1>2. Written' = Written /\ Index' = Index /\ \A p : Formed(p)' <=> Formed(p)
  BY <1>1 DEF Written, Index, Formed
<1>3. WrittenRight'
  BY <1>2 DEF StreamInv, WrittenRight, Formed
<1>4. stap \in Seq(Nat) /\ taken \in Nat
  BY DEF SenderType
<1>5. CASE video[taken + 1].kind = "param"
  <2>1. stap' = Append(stap, taken + 1) /\ todo' = <<>>
    BY <1>1, <1>5 DEF Packetize
  <2>2. Len(stap') = Len(stap) + 1 /\ taken' - Len(stap') = taken - Len(stap)
    BY <1>1, <1>4, <2>1
  <2>3. StapRight'
    <3>1. ASSUME NEW k \in 1 .. Len(stap') PROVE stap'[k] = taken' - Len(stap') + k
      <4>1. CASE k = Len(stap) + 1
        BY <1>1, <1>4, <2>1, <2>2, <4>1
      <4>2. CASE k # Len(stap) + 1
        <5>1. k \in 1 .. Len(stap) /\ stap'[k] = stap[k]
          BY <1>4, <2>1, <2>2, <4>2
        <5> QED
          BY <2>2, <5>1 DEF StreamInv, StapRight
      <4> QED
        BY <4>1, <4>2
    <3>2. Len(stap') <= taken' /\ taken' <= Len(video')
      BY SMTT(20), <1>1, <1>4, <2>2 DEF StreamInv, StapRight, Packetize
    <3> QED
      BY <3>1, <3>2 DEF StapRight
  <2>4. TodoRight'
    BY <2>1 DEF TodoRight, Chained
  <2>5. TodoGoesOn'
    BY <1>1, <1>2, <2>1, <2>2 DEF StreamInv, TodoGoesOn, Finished
  <2> QED
    BY <1>3, <2>3, <2>4, <2>5 DEF StreamInv
<1>6. CASE video[taken + 1].kind # "param"
  <2>1. stap' = <<>> /\ Carries(todo', taken - Len(stap) + 1, taken')
    BY <1>6, PacketizeCarries
  <2>2. StapRight'
    BY <1>1, <1>4, <2>1 DEF StapRight, Packetize
  <2>3. TodoRight'
    <3>1. Chained(todo)' /\ (\A k \in 1 .. Len(todo) : Formed(todo[k]))'
      BY <1>1, <2>1 DEF Carries, Chained, Formed
    <3>2. Finished(Last(todo))'
      BY <1>1, <1>4, <2>1 DEF Carries, Finished, Last
    <3> QED
      BY <1>1, <3>1, <3>2 DEF TodoRight
  <2>4. TodoGoesOn'
    <3> SUFFICES ASSUME NEW p \in Written, p.index = Index - 1
                 PROVE  Follows(p.payload, Head(todo'))
      BY <1>1, <1>2, <2>1 DEF TodoGoesOn, Carries
    <3>1. ~Open(p.payload) /\ Last(p.payload.units) = taken - Len(stap)
      BY <1>1 DEF StreamInv, TodoGoesOn, Finished
    <3>2. Head(todo') = todo'[1]
      BY <2>1 DEF Carries
    <3> QED
      BY <2>1, <3>1, <3>2 DEF Carries, Follows
  <2> QED
    BY <1>3, <2>2, <2>3, <2>4 DEF StreamInv
<1> QED
  BY <1>5, <1>6

\* The ways writePacket can go.
Refuses == UNCHANGED <<count, mem, network>> /\ todo' = <<>> /\ sending' = "ended"
Crashes == UNCHANGED <<count, mem, network, todo, sending>>
Writes(packet) ==
  /\ packet \in Packet /\ packet.index = Index /\ packet.payload = Head(todo)
  /\ packet.tag = "cut" => HeaderSize + PayloadSize(Head(todo)) + TagSize > Capacity
  /\ count' = count + 1 /\ Written' \subseteq Written \cup {packet}
  /\ \/ conn = "closed" /\ todo' = <<>> /\ sending' = "ended"
     \/ network' = network \cup {packet} /\ todo' = Tail(todo) /\ UNCHANGED sending

\* writePacket refuses the payload, crashes, or writes one packet.
LEMMA WriteCases ==
  ASSUME SenderType, NEW b \in Obtainable, WritePacket(b)
  PROVE  /\ todo # <<>> /\ UNCHANGED <<sequenceStart, stap, taken, video, conn>>
         /\ Refuses \/ Crashes \/ \E packet : Writes(packet)
<1> DEFINE p == Head(todo)
           used == HeaderSize + PayloadSize(p)
           packet == [index |-> Index, payload |-> p,
                      tag |-> IF used + TagSize > Capacity THEN "cut" ELSE "whole"]
<1>1. todo # <<>> /\ UNCHANGED <<sequenceStart, stap, taken, video, conn>>
  BY DEF WritePacket
<1>2. /\ packet \in Packet /\ packet.index = Index /\ packet.payload = p
      /\ packet.tag = "cut" => used + TagSize > Capacity
  <2>1. p \in Payload /\ Index \in Nat
    BY <1>1 DEF SenderType, Index
  <2> QED
    BY <2>1 DEF Packet
<1> DEFINE Goes == /\ count' = count + 1
                   /\ mem' = IF b \in DOMAIN mem THEN [mem EXCEPT ![b] = packet]
                                                  ELSE Append(mem, packet)
                   /\ \/ conn = "closed" /\ todo' = <<>> /\ sending' = "ended" /\ UNCHANGED network
                      \/ network' = network \cup {packet} /\ todo' = Tail(todo) /\ UNCHANGED sending
<1>3. Refuses \/ Crashes \/ Goes
  BY DEF WritePacket, Fail, Refuses, Crashes
<1> HIDE DEF packet
<1>4. ASSUME Goes PROVE Writes(packet)
  <2>1. mem \in Seq(Packet)
    BY DEF SenderType
  <2>2. \A d \in DOMAIN mem' : mem'[d] = packet \/ (d \in DOMAIN mem /\ mem'[d] = mem[d])
    <3>1. CASE b \in DOMAIN mem
      <4>1. mem' = [mem EXCEPT ![b] = packet]
        BY <1>4, <3>1
      <4> QED
        BY <1>2, <2>1, <3>1, <4>1, ReplaceInSeq
    <3>2. CASE b \notin DOMAIN mem
      <4>1. mem' = Append(mem, packet)
        BY <1>4, <3>2
      <4> QED
        BY <2>1, <4>1
    <3> QED
      BY <3>1, <3>2
  <2>3. Written' \subseteq Written \cup {packet}
    BY <1>4, <2>2 DEF Written
  <2> QED
    BY <1>2, <1>4, <2>3 DEF Writes
<1> QED
  BY <1>1, <1>3, <1>4

\* writePacket continues the stream of packets.
LEMMA WriteStream ==
  ASSUME SenderType, StreamInv, NEW b \in Obtainable, WritePacket(b)
  PROVE  StreamInv'
<1>1. todo # <<>> /\ UNCHANGED <<sequenceStart, stap, taken, video>>
  BY WriteCases
<1>t. todo \in Seq(Payload)
  BY DEF SenderType
<1>2. CASE Refuses
  <2>1. Written' = Written /\ Index' = Index
    BY <1>1, <1>2 DEF Refuses, Written, Index
  <2>2. StapRight' /\ TodoRight' /\ TodoGoesOn'
    BY <1>1, <1>2 DEF Refuses, StreamInv, StapRight, TodoRight, TodoGoesOn, Chained
  <2>3. WrittenRight'
    BY <1>1, <2>1 DEF StreamInv, WrittenRight, Formed
  <2> QED
    BY <2>2, <2>3 DEF StreamInv
<1>3. CASE Crashes
  <2>1. Written' = Written
    BY <1>3 DEF Crashes, Written
  <2> QED
    BY <1>1, <1>3, <2>1, StreamKept DEF Crashes
<1>4. ASSUME NEW packet, Writes(packet) PROVE StreamInv'
  <2>1. Index' = Index + 1 /\ Index \in Nat
    BY SMTT(20), <1>1, <1>4 DEF Writes, Index, SenderType
  <2>2. packet.index = Index /\ packet.payload = todo[1] /\ Written' \subseteq Written \cup {packet}
    BY <1>1, <1>t, <1>4 DEF Writes
  <2>3. /\ todo' = <<>> \/ todo' = Tail(todo)
        /\ Tail(todo) \in Seq(Payload) /\ Len(Tail(todo)) = Len(todo) - 1 /\ Len(todo) \in Nat \ {0}
        /\ \A k \in 1 .. Len(todo) - 1 : Tail(todo)[k] = todo[k + 1]
    BY <1>1, <1>t, <1>4 DEF Writes
  <2>4. StapRight'
    BY <1>1 DEF StreamInv, StapRight
  <2>5. TodoRight'
    <3>1. CASE todo' = <<>>
      <4>1. Chained(<<>>) /\ Len(<<>>) = 0
        BY DEF Chained
      <4> QED
        BY <3>1, <4>1 DEF TodoRight
    <3>2. CASE todo' = Tail(todo) /\ todo' # <<>>
      <4>1. (\A k \in 1 .. Len(todo) : Formed(todo[k]))'
        <5>1. ASSUME NEW k \in 1 .. Len(todo') PROVE Formed(todo'[k])
          <6>1. k \in 1 .. Len(todo) - 1 /\ k + 1 \in 1 .. Len(todo)
            BY <2>3, <3>2
          <6> QED
            BY <2>3, <3>2, <6>1 DEF StreamInv, TodoRight
        <5> QED
          BY <1>1, <5>1 DEF Formed
      <4>2. Chained(todo')
        <5> SUFFICES ASSUME NEW k \in 1 .. Len(todo') - 1 PROVE Follows(todo'[k], todo'[k + 1])
          BY DEF Chained
        <5>1. k + 1 \in 1 .. Len(todo) - 1 /\ k \in 1 .. Len(todo) - 1
          BY <2>3, <3>2
        <5>2. todo'[k] = todo[k + 1] /\ todo'[k + 1] = todo[k + 1 + 1]
          BY <2>3, <3>2, <5>1
        <5>3. Follows(todo[k + 1], todo[k + 1 + 1])
          BY <5>1 DEF StreamInv, TodoRight, Chained
        <5> QED
          BY <5>2, <5>3
      <4>3. Last(todo') = Last(todo)
        BY <2>3, <3>2 DEF Last
      <4>4. Finished(Last(todo))'
        BY <1>1, <4>3 DEF StreamInv, TodoRight, Finished
      <4>5. sending' # "ended"
        BY <1>1, <1>4, <3>2 DEF Writes, StreamInv, TodoRight
      <4> QED
        BY <4>1, <4>2, <4>4, <4>5 DEF TodoRight, Chained
    <3> QED
      BY <2>3, <3>1, <3>2
  <2>6. WrittenRight'
    <3>1. Formed(packet.payload)
      BY SMTT(20), <2>2, <2>3 DEF StreamInv, TodoRight
    <3>2. ASSUME NEW p \in Written, p.index + 1 = Index PROVE Follows(p.payload, packet.payload)
      <4>1. p.index = Index - 1
        BY <2>1, <3>2, WrittenType
      <4> QED
        BY <1>1, <1>t, <2>2, <4>1 DEF StreamInv, TodoGoesOn
    <3>3. ASSUME NEW p \in Written' PROVE Formed(p.payload)' /\ p.index < Index' /\ p.index \in Nat
      <4>1. p \in Written \/ p = packet
        BY <2>2
      <4> QED
        <5>1. Formed(p.payload)
          BY <3>1, <4>1 DEF StreamInv, WrittenRight
        <5>2. Formed(p.payload)'
          BY <1>1, <5>1 DEF Formed
        <5>3. p.index \in Nat /\ p.index <= Index
          BY <2>1, <2>2, <4>1, WrittenType DEF StreamInv, WrittenRight
        <5> QED
          BY <2>1, <5>2, <5>3
    <3>4. ASSUME NEW p \in Written', NEW q \in Written', q.index = p.index + 1
          PROVE  Follows(p.payload, q.payload)
      <4>1. p.index < Index' /\ q.index < Index' /\ p.index \in Nat /\ q.index \in Nat
        BY <3>3
      <4>2. p.index # Index
        BY <2>1, <3>4, <4>1
      <4>3. p \in Written
        BY <2>2, <4>2
      <4>4. q \in Written \/ q = packet
        BY <2>2
      <4> QED
        BY <2>2, <3>2, <3>4, <4>3, <4>4 DEF StreamInv, WrittenRight
    <3> QED
      BY <3>3, <3>4 DEF WrittenRight
  <2>7. TodoGoesOn'
    <3> SUFFICES ASSUME NEW p \in Written', p.index = Index' - 1
                 PROVE  /\ todo' # <<>> => Follows(p.payload, Head(todo'))
                        /\ todo' = <<>> /\ sending' # "ended" => Finished(p.payload)'
      BY DEF TodoGoesOn
    <3>1. p.index = Index
      BY <2>1
    <3>2. p = packet
      <4>1. p \notin Written
        BY <2>1, <3>1 DEF StreamInv, WrittenRight
      <4> QED
        BY <2>2, <4>1
    <3>3. ASSUME todo' # <<>> PROVE Follows(p.payload, Head(todo'))
      <4>1. todo' = Tail(todo) /\ Len(todo) - 1 >= 1
        BY <2>3, <3>3
      <4>2. Head(todo') = todo[2]
        BY SMTT(20), <2>3, <3>3, <4>1
      <4>3. 1 \in 1 .. Len(todo) - 1
        BY <2>3, <4>1
      <4>4. Follows(todo[1], todo[1 + 1])
        BY <4>3 DEF StreamInv, TodoRight, Chained
      <4> QED
        BY <2>2, <3>2, <4>2, <4>4
    <3>4. ASSUME todo' = <<>>, sending' # "ended" PROVE Finished(p.payload)'
      <4>1. todo' = Tail(todo)
        BY <1>4, <3>4 DEF Writes
      <4>2. Len(todo) = 1
        <5>1. Tail(todo) = <<>>
          BY <3>4, <4>1
        <5>2. Len(<<>>) = 0
          OBVIOUS
        <5>3. Len(todo) - 1 = 0
          BY <2>3, <5>1, <5>2
        <5>4. Len(todo) \in Nat
          BY <2>3
        <5> QED
          BY <5>3, <5>4
      <4>3. Finished(todo[1])
        BY <1>1, <4>2 DEF StreamInv, TodoRight, Last
      <4> QED
        BY <1>1, <2>2, <3>2, <4>3 DEF Finished
    <3> QED
      BY <3>3, <3>4
  <2> QED
    BY <2>4, <2>5, <2>6, <2>7 DEF StreamInv
<1> QED
  BY <1>2, <1>3, <1>4, WriteCases

\* Every step keeps the stream in order.
LEMMA StreamStep ==
  ASSUME CacheInv, StreamInv, [Next]_vars
  PROVE  StreamInv'
<1>s. SenderType
  BY DEF CacheInv
<1> DEFINE Quiet == /\ Written' \subseteq Written
                    /\ UNCHANGED <<sequenceStart, count, video, stap, todo, taken>>
                    /\ sending = "ended" => sending' = "ended"
                    /\ sending' = "ended" => sending = "ended" \/ todo = <<>>
<1>q. Quiet => StreamInv'
  BY <1>s, StreamKept
<1>1. CASE UNCHANGED vars
  <2>1. Quiet
    BY <1>1 DEF vars, senderVars, writerVars, videoVars, Written
  <2> QED
    BY <1>q, <2>1
<1>2. CASE SenderStep
  <2>1. CASE Packetize
    BY <1>s, <2>1, PacketizeStream
  <2>2. ASSUME NEW b \in Obtainable, WritePacket(b) PROVE StreamInv'
    BY <1>s, <2>2, WriteStream
  <2>3. CASE Resend
    <3>1. /\ UNCHANGED <<sequenceStart, count, mem, stap, todo, taken, sending, video>>
          /\ \/ network' = network
             \/ \E s \in DOMAIN cache : network' = network \cup {mem[cache[s].buf]}
      BY <2>3 DEF Resend, videoVars
    <3>2. \A s \in DOMAIN cache : cache[s].buf \in DOMAIN mem
      BY <1>s, BufferTypes
    <3>3. Written' \subseteq Written
      BY <3>1, <3>2 DEF Written
    <3> QED
      BY <1>q, <3>1, <3>3
  <2>4. CASE AddStream \/ StreamAdded \/ StartSendVideo \/ QueueLost \/ ReadFails
    <3>1. Quiet
      BY <2>4 DEF AddStream, StreamAdded, StartSendVideo, QueueLost, ReadFails,
                  writerVars, videoVars, Written
    <3> QED
      BY <1>q, <3>1
  <2>5. CASE SessionStep
    <3>1. Quiet
      BY <2>5 DEF SessionStep, RecvNack, EndSendVideo, CloseConn, RecvShortPacket,
                  writerVars, videoVars, Written
    <3> QED
      BY <1>q, <3>1
  <2> QED
    BY <1>2, <2>1, <2>2, <2>3, <2>4, <2>5 DEF SenderStep
<1>3. CASE UNCHANGED <<senderVars, network, video>>
  <2>1. Quiet
    BY <1>3 DEF senderVars, writerVars, videoVars, Written
  <2> QED
    BY <1>q, <2>1
<1>4. ASSUME NEW packet \in network, Receive(packet) \/ Lose(packet)
      PROVE  StreamInv'
  <2>1. UNCHANGED <<senderVars, video>> /\ network' \subseteq network
    BY <1>4 DEF Receive, Lose
  <2>2. Quiet
    BY <2>1 DEF senderVars, writerVars, videoVars, Written
  <2> QED
    BY <1>q, <2>2
<1> QED
  BY <1>1, <1>2, <1>3, <1>4 DEF Next

\* The stream starts empty.
LEMMA StreamInit == Init => StreamInv
<1> SUFFICES ASSUME Init PROVE StreamInv
  OBVIOUS
<1>1. stap = <<>> /\ todo = <<>> /\ taken = 0 /\ mem = <<>> /\ network = {}
  BY DEF Init
<1>2. Len(video) \in Nat
  BY CacheInit, VideoType DEF CacheInv, SenderType
<1>3. Written = {}
  BY <1>1 DEF Written
<1>4. StapRight /\ TodoRight
  BY <1>1, <1>2 DEF StapRight, TodoRight, Chained
<1> QED
  BY <1>3, <1>4 DEF StreamInv, WrittenRight, TodoGoesOn

----------------------------------------------------------------------------
(* Which packets outgrow a buffer.                                         *)

\* A buffer holds a payload of MaxSize with its header and its tag, as 12 + 1280
\* + 10 <= 1500.  Then only a payload of parameter units can be too large for
\* writePacket, or have its tag cut.
OnlyStapsOverflow ==
  HeaderSize + MaxSize + TagSize <= Capacity =>
    /\ \A k \in 1 .. Len(todo) :
         todo[k].kind # "stap" => HeaderSize + PayloadSize(todo[k]) + TagSize <= Capacity
    /\ \A p \in network : p.tag = "cut" => p.payload.kind = "stap"

CutInv ==
  HeaderSize + MaxSize + TagSize <= Capacity =>
    \A p \in Written : p.tag = "cut" => p.payload.kind = "stap"

\* The size of a payload other than parameter units.
LEMMA BoundedSize ==
  ASSUME NEW p \in Payload, Bounded(p), p.kind # "stap",
         HeaderSize + MaxSize + TagSize <= Capacity
  PROVE  /\ HeaderSize + PayloadSize(p) + TagSize \in Int
         /\ HeaderSize + PayloadSize(p) + TagSize <= Capacity
<1>1. p.kind \in {"single", "fragment"} /\ p.from \in Nat /\ p.to \in Nat
  BY DEF Payload
<1>2. PayloadSize(p) \in Int /\ PayloadSize(p) <= MaxSize
  BY <1>1 DEF PayloadSize, Bounded
<1> QED
  BY <1>2, SenderAssumption

\* writePacket adds one packet to those that can reach the receiver, no other
\* step does.
LEMMA WrittenGrows ==
  ASSUME SenderType, [Next]_vars
  PROVE  Written' \subseteq Written \/ (todo # <<>> /\ \E packet : Writes(packet))
<1>1. CASE UNCHANGED <<mem, network>>
  BY <1>1 DEF Written
<1>2. ASSUME NEW b \in Obtainable, WritePacket(b)
      PROVE  Written' \subseteq Written \/ (todo # <<>> /\ \E packet : Writes(packet))
  <2>1. (Refuses \/ Crashes) => UNCHANGED <<mem, network>>
    BY DEF Refuses, Crashes
  <2> QED
    BY <1>1, <1>2, <2>1, WriteCases
<1>3. CASE Resend
  <2>1. /\ UNCHANGED mem
        /\ \/ network' = network
           \/ \E s \in DOMAIN cache : network' = network \cup {mem[cache[s].buf]}
    BY <1>3 DEF Resend
  <2>2. \A s \in DOMAIN cache : cache[s].buf \in DOMAIN mem
    BY BufferTypes
  <2> QED
    BY <2>1, <2>2 DEF Written
<1>4. ASSUME Packetize \/ AddStream \/ StreamAdded \/ StartSendVideo \/ QueueLost \/ ReadFails
             \/ SessionStep
      PROVE  UNCHANGED <<mem, network>>
  BY <1>4 DEF Packetize, AddStream, StreamAdded, StartSendVideo, QueueLost, ReadFails,
              SessionStep, RecvNack, EndSendVideo, CloseConn, RecvShortPacket, writerVars
<1>5. ASSUME NEW packet \in network, Receive(packet) \/ Lose(packet)
      PROVE  Written' \subseteq Written
  BY <1>5 DEF Receive, Lose, senderVars, writerVars, Written
<1>6. UNCHANGED senderVars => UNCHANGED mem
  BY DEF senderVars, writerVars
<1>7. UNCHANGED vars => UNCHANGED <<mem, network>>
  BY <1>6 DEF vars
<1> QED
  BY <1>1, <1>2, <1>3, <1>4, <1>5, <1>6, <1>7 DEF Next, SenderStep

\* No tag is cut but that of a packet of parameter units.
LEMMA CutStep ==
  ASSUME SenderType, StreamInv, CutInv, [Next]_vars
  PROVE  CutInv'
<1> SUFFICES ASSUME HeaderSize + MaxSize + TagSize <= Capacity, NEW p \in Written', p.tag = "cut"
             PROVE  p.payload.kind = "stap"
  BY DEF CutInv
<1>1. CASE p \in Written
  BY <1>1 DEF CutInv
<1>2. CASE p \notin Written
  <2>1. todo # <<>> /\ Writes(p)
    BY <1>2, WrittenGrows DEF Writes
  <2>2. p.payload = Head(todo) /\ HeaderSize + PayloadSize(Head(todo)) + TagSize > Capacity
    BY <2>1 DEF Writes
  <2>3. Head(todo) = todo[1] /\ 1 \in 1 .. Len(todo) /\ todo[1] \in Payload
    BY <2>1 DEF SenderType
  <2>4. Bounded(Head(todo))
    BY <2>3 DEF StreamInv, TodoRight, Formed
  <2>5. todo[1].kind = "stap"
    <3> SUFFICES ASSUME todo[1].kind # "stap" PROVE FALSE
      OBVIOUS
    <3> DEFINE n == HeaderSize + PayloadSize(todo[1]) + TagSize
    <3>1. n \in Int /\ n <= Capacity
      BY <2>3, <2>4, BoundedSize
    <3>2. n > Capacity
      BY <2>2, <2>3
    <3> HIDE DEF n
    <3> QED
      BY <3>1, <3>2, SenderAssumption
  <2> QED
    BY <2>2, <2>3, <2>5
<1> QED
  BY <1>1, <1>2

\* packetize keeps single units and fragments within a buffer, so that only
\* parameter units can make writePacket fail or crash, or cut a tag.
THEOREM OnlyStapsAreCut == Spec => []OnlyStapsOverflow
<1> DEFINE Inv == CacheInv /\ StreamInv /\ CutInv
<1>1. Init => Inv
  <2>1. Init => CutInv
    BY SMTT(20) DEF Init, CutInv, Written
  <2> QED
    BY <2>1, CacheInit, StreamInit
<1>2. Inv /\ [Next]_vars => Inv'
  BY CacheStep, StreamStep, CutStep DEF CacheInv
<1>3. Inv => OnlyStapsOverflow
  <2> SUFFICES ASSUME Inv, HeaderSize + MaxSize + TagSize <= Capacity
               PROVE  /\ \A k \in 1 .. Len(todo) : todo[k].kind # "stap" =>
                           HeaderSize + PayloadSize(todo[k]) + TagSize <= Capacity
                      /\ \A p \in network : p.tag = "cut" => p.payload.kind = "stap"
    BY DEF OnlyStapsOverflow
  <2>1. \A p \in network : p.tag = "cut" => p.payload.kind = "stap"
    BY DEF CutInv, Written
  <2>2. ASSUME NEW k \in 1 .. Len(todo), todo[k].kind # "stap"
        PROVE  HeaderSize + PayloadSize(todo[k]) + TagSize <= Capacity
    <3>1. todo[k] \in Payload
      BY DEF CacheInv, SenderType
    <3>2. Bounded(todo[k])
      BY DEF StreamInv, TodoRight, Formed
    <3> QED
      BY <2>2, <3>1, <3>2, BoundedSize
  <2> QED
    BY <2>1, <2>2
<1> QED
  BY <1>1, <1>2, <1>3, PTL DEF Spec

----------------------------------------------------------------------------
(* What handleData puts together.                                          *)

PieceType == [unit : Nat, from : Nat, to : Nat, index : Nat]

\* Pieces of one unit, without a gap, from its first byte, if the indices have
\* no gap.
Joined(unit) ==
  /\ \A k \in 1 .. Len(unit) - 1 : unit[k + 1].from = unit[k].to
  /\ \A k \in 1 .. Len(unit) : unit[k].unit = unit[1].unit
Collects(unit) == unit[1].from = 0 /\ (IsConsecutive(unit) => Joined(unit))

\* q goes on where buf has ended, if it is a fragment that goes on at all.
GoesOn(q) == Continues(q) => q.units[1] = Last(buf).unit /\ q.from = Last(buf).to

BufGoesOn ==
  buf # <<>> =>
    /\ Collects(buf) /\ Last(buf).index < Index
    /\ \A q \in Written : q.index = Last(buf).index + 1 => GoesOn(q.payload)
    /\ Last(buf).index = Index - 1 /\ todo # <<>> => GoesOn(Head(todo))

Right(unit) == IsConsecutive(unit) => IsWhole(unit)

UnitInv ==
  /\ buf \in Seq(PieceType) /\ ch \in Seq(Seq(PieceType)) /\ pending \in Seq(Seq(PieceType))
  /\ BufGoesOn
  /\ \A k \in 1 .. Len(ch) : Right(ch[k])
  /\ \A k \in 1 .. Len(pending) : Right(pending[k])

\* A unit grows by a piece.
LEMMA AppendPiece ==
  ASSUME NEW unit \in Seq(PieceType), unit # <<>>, Collects(unit), NEW piece \in PieceType,
         piece.index = Last(unit).index + 1 =>
           piece.unit = Last(unit).unit /\ piece.from = Last(unit).to
  PROVE  /\ Append(unit, piece) \in Seq(PieceType) /\ Append(unit, piece) # <<>>
         /\ Collects(Append(unit, piece)) /\ Last(Append(unit, piece)) = piece
         /\ Append(unit, piece)[1] = unit[1]
<1> DEFINE c == Append(unit, piece)
           n == Len(unit)
<1>1. n \in Nat \ {0} /\ c \in Seq(PieceType) /\ Len(c) = n + 1 /\ c[n + 1] = piece
      /\ c # <<>> /\ \A k \in 1 .. n : c[k] = unit[k]
  OBVIOUS
<1> HIDE DEF c
<1>2. Last(c) = piece /\ c[1] = unit[1]
  BY SMTT(20), <1>1 DEF Last
<1>3. ASSUME IsConsecutive(c) PROVE Joined(c)
  <2>1. IsConsecutive(unit)
    <3> SUFFICES ASSUME NEW k \in 1 .. n - 1 PROVE unit[k + 1].index = unit[k].index + 1
      BY DEF IsConsecutive
    <3>1. k \in 1 .. n /\ k + 1 \in 1 .. n /\ k \in 1 .. Len(c) - 1
      BY <1>1
    <3> QED
      BY <1>1, <1>3, <3>1 DEF IsConsecutive
  <2>2. Joined(unit)
    BY <2>1 DEF Collects
  <2>3. n \in 1 .. Len(c) - 1 /\ n \in 1 .. n /\ 1 \in 1 .. n
    BY <1>1
  <2>4. piece.index = Last(unit).index + 1
    BY <1>1, <1>3, <2>3 DEF IsConsecutive, Last
  <2>5. piece.unit = Last(unit).unit /\ piece.from = Last(unit).to
    BY <2>4
  <2>6. Last(unit) = unit[n]
    BY DEF Last
  <2>7. ASSUME NEW k \in 1 .. Len(c) - 1 PROVE c[k + 1].from = c[k].to
    <3>1. CASE k = n
      BY <1>1, <2>3, <2>5, <2>6, <3>1
    <3>2. CASE k # n
      <4>1. k \in 1 .. n - 1 /\ k \in 1 .. n /\ k + 1 \in 1 .. n
        BY <1>1, <3>2
      <4> QED
        BY <1>1, <2>2, <4>1 DEF Joined
    <3> QED
      BY <3>1, <3>2
  <2>8. ASSUME NEW k \in 1 .. Len(c) PROVE c[k].unit = c[1].unit
    <3>1. k = n + 1 \/ k \in 1 .. n
      BY <1>1
    <3> QED
      BY <1>1, <1>2, <2>2, <2>3, <2>5, <2>6, <3>1 DEF Joined
  <2> QED
    BY <2>7, <2>8 DEF Joined
<1>4. Collects(c)
  BY <1>2, <1>3 DEF Collects
<1> QED
  BY <1>1, <1>2, <1>4 DEF c

\* A unit of one piece.
LEMMA OnePiece ==
  ASSUME NEW piece \in PieceType, piece.from = 0
  PROVE  /\ <<piece>> \in Seq(PieceType) /\ <<piece>> # <<>> /\ Collects(<<piece>>)
         /\ Last(<<piece>>) = piece /\ IsConsecutive(<<piece>>) /\ <<piece>>[1] = piece
         /\ piece.to = video[piece.unit].size => IsWhole(<<piece>>)
<1> DEFINE c == <<piece>>
<1>1. c \in Seq(PieceType) /\ Len(c) = 1 /\ c[1] = piece /\ c # <<>>
  OBVIOUS
<1> HIDE DEF c
<1>2. c \in Seq(PieceType) /\ c # <<>> /\ Collects(c) /\ Last(c) = piece /\ IsConsecutive(c)
  BY <1>1 DEF Collects, Joined, Last, IsConsecutive
<1>3. piece.to = video[piece.unit].size => IsWhole(c)
  BY <1>1 DEF IsWhole
<1> QED
  BY <1>1, <1>2, <1>3 DEF c

\* What handleData has collected after a fragment.
LEMMA CollectedFacts ==
  ASSUME SenderType, StreamInv, UnitInv, NEW packet \in Written,
         packet.payload.kind = "fragment", Collected(packet) # <<>>
  PROVE  LET c == Collected(packet)
             p == packet.payload IN
         /\ c \in Seq(PieceType) /\ Collects(c)
         /\ Last(c).index = packet.index /\ Last(c).unit = p.units[1] /\ Last(c).to = p.to
<1> DEFINE p == packet.payload
           u == p.units[1]
           c == Collected(packet)
<1>1. packet.index \in Nat /\ p \in Payload /\ p.from \in Nat /\ p.to \in Nat /\ p.units \in Seq(Nat)
  BY WrittenType DEF Payload
<1>2. Formed(p)
  BY DEF StreamInv, WrittenRight
<1>3. u \in Nat
  BY SMTT(20), <1>1, <1>2 DEF Formed
<1> HIDE DEF u, p
<1>4. CASE "start" \in p.edges
  <2> DEFINE piece == Piece(packet, u, 0, p.to)
  <2>1. c = <<piece>>
    BY <1>4 DEF Collected, p, u
  <2>2. piece \in PieceType /\ piece.from = 0 /\ piece.to = p.to /\ piece.unit = u
        /\ piece.index = packet.index
    BY <1>1, <1>3 DEF Piece, PieceType
  <2> HIDE DEF piece, c
  <2>3. c \in Seq(PieceType) /\ Collects(c) /\ Last(c) = piece
    BY <2>1, <2>2, OnePiece
  <2> QED
    BY <2>2, <2>3 DEF c, p, u
<1>5. CASE "start" \notin p.edges
  <2> DEFINE piece == Piece(packet, u, p.from, p.to)
  <2>1. buf # <<>> /\ c = Append(buf, piece)
    BY <1>5 DEF Collected, p, u
  <2>2. piece \in PieceType /\ piece.from = p.from /\ piece.to = p.to /\ piece.unit = u
        /\ piece.index = packet.index
    BY <1>1, <1>3 DEF Piece, PieceType
  <2> HIDE DEF piece, c
  <2>3. buf \in Seq(PieceType) /\ Collects(buf)
    BY <2>1 DEF UnitInv, BufGoesOn
  <2>4. ASSUME piece.index = Last(buf).index + 1
        PROVE  piece.unit = Last(buf).unit /\ piece.from = Last(buf).to
    <3>1. GoesOn(p)
      BY <2>1, <2>2, <2>4 DEF UnitInv, BufGoesOn, p
    <3>2. Continues(p)
      BY <1>5 DEF Continues, p
    <3> QED
      BY <2>2, <3>1, <3>2 DEF GoesOn, u
  <2>5. c \in Seq(PieceType) /\ Collects(c) /\ Last(c) = piece
    BY <2>1, <2>2, <2>3, <2>4, AppendPiece
  <2> QED
    BY <2>2, <2>5 DEF c, p, u
<1> QED
  BY <1>4, <1>5

\* A unit that ends with an end mark is whole.
LEMMA EndIsWhole ==
  ASSUME NEW c \in Seq(PieceType), c # <<>>, Collects(c), Last(c).to = video[Last(c).unit].size,
         IsConsecutive(c)
  PROVE  IsWhole(c)
<1>1. Joined(c) /\ c[1].from = 0
  BY DEF Collects
<1>2. Len(c) \in Nat \ {0} /\ Len(c) \in 1 .. Len(c) /\ Last(c) = c[Len(c)]
  BY DEF Last
<1>3. c[Len(c)].unit = c[1].unit
  BY <1>1, <1>2 DEF Joined
<1>4. ASSUME NEW k \in 1 .. Len(c) - 1
      PROVE  c[k + 1].from = c[k].to /\ c[k + 1].unit = c[k].unit
  <2>1. k \in 1 .. Len(c) /\ k + 1 \in 1 .. Len(c)
    BY <1>2
  <2> QED
    BY <1>1, <2>1 DEF Joined
<1> QED
  BY <1>1, <1>2, <1>3, <1>4 DEF IsWhole

\* The units of a packet that holds whole ones.
LEMMA PlainFacts ==
  ASSUME SenderType, StreamInv, NEW packet \in Written
  PROVE  LET s == PlainUnits(packet)
             us == packet.payload.units IN
         /\ s \in Seq(Seq(PieceType)) /\ Len(s) = Len(us)
         /\ \A k \in 1 .. Len(us) : s[k][1].unit = us[k] /\ IsWhole(s[k])
<1> DEFINE us == packet.payload.units
           piece(k) == Piece(packet, us[k], 0, video[us[k]].size)
           s == PlainUnits(packet)
<1>1. packet.index \in Nat /\ us \in Seq(Nat) /\ Len(us) \in Nat
  BY WrittenType
<1>2. Formed(packet.payload) /\ video \in Videos
  BY DEF StreamInv, WrittenRight, SenderType
<1>3. ASSUME NEW k \in 1 .. Len(us)
      PROVE  /\ piece(k) \in PieceType /\ piece(k).from = 0 /\ piece(k).unit = us[k]
             /\ piece(k).to = video[piece(k).unit].size
  <2>1. us[k] \in 1 .. Len(video)
    BY <1>2 DEF Formed
  <2>2. us[k] \in Nat /\ video[us[k]].size \in Nat
    BY <1>2, <2>1, UnitType
  <2> QED
    BY <1>1, <2>2 DEF Piece, PieceType
<1>4. s = [k \in 1 .. Len(us) |-> <<piece(k)>>]
  BY DEF PlainUnits
<1> HIDE DEF piece, us, s
<1>5. ASSUME NEW k \in 1 .. Len(us)
      PROVE  <<piece(k)>> \in Seq(PieceType) /\ <<piece(k)>>[1].unit = us[k] /\ IsWhole(<<piece(k)>>)
  BY <1>3, OnePiece
<1>6. s \in Seq(Seq(PieceType)) /\ Len(s) = Len(us)
  BY SMTT(20), <1>1, <1>4, <1>5
<1>7. \A k \in 1 .. Len(us) : s[k] = <<piece(k)>>
  BY <1>4
<1> QED
  BY <1>5, <1>6, <1>7 DEF s, us

\* The units stay right and the pieces go on when the receiver is left alone and
\* packets get lost or are sent again.
LEMMA UnitKept ==
  ASSUME UnitInv, Written' \subseteq Written, UNCHANGED <<sequenceStart, count, todo, video>>,
         UNCHANGED <<buf, ch, pending>>
  PROVE  UnitInv'
<1>1. Index' = Index
  BY DEF Index
<1>2. BufGoesOn'
  BY <1>1 DEF UnitInv, BufGoesOn, GoesOn
<1>3. \A unit : Right(unit)' <=> Right(unit)
  BY DEF Right, IsWhole
<1> QED
  BY <1>2, <1>3 DEF UnitInv, Right, IsWhole

\* packetize and writePacket.
LEMMA UnitSender ==
  ASSUME SenderType, StreamInv, UnitInv, UNCHANGED <<buf, ch, pending>>,
         Packetize \/ \E b \in Obtainable : WritePacket(b)
  PROVE  UnitInv'
<1>v. UNCHANGED video
  BY DEF Packetize, WritePacket
<1>0. UnitInv' <=> BufGoesOn'
  BY <1>v DEF UnitInv, Right, IsWhole
<1> SUFFICES ASSUME buf # <<>>
             PROVE  /\ Last(buf).index < Index'
                    /\ \A q \in Written' : q.index = Last(buf).index + 1 => GoesOn(q.payload)
                    /\ Last(buf).index = Index' - 1 /\ todo' # <<>> => GoesOn(Head(todo'))
  BY <1>0 DEF BufGoesOn, GoesOn, UnitInv
<1>1. /\ Last(buf).index < Index /\ Index \in Nat /\ Last(buf).index \in Nat
      /\ \A q \in Written : q.index = Last(buf).index + 1 => GoesOn(q.payload)
      /\ Last(buf).index = Index - 1 /\ todo # <<>> => GoesOn(Head(todo))
  <2>1. Last(buf) \in PieceType
    BY DEF UnitInv, Last
  <2>2. Last(buf).index \in Nat
    BY <2>1 DEF PieceType
  <2> QED
    BY <2>2, WrittenType DEF UnitInv, BufGoesOn
<1>2. CASE Packetize
  <2>1. Written' = Written /\ Index' = Index /\ todo = <<>>
    BY <1>2 DEF Packetize, writerVars, Written, Index
  <2>2. todo' # <<>> => GoesOn(Head(todo'))
    <3>1. CASE video[taken + 1].kind = "param"
      BY <1>2, <3>1 DEF Packetize
    <3>2. CASE video[taken + 1].kind # "param"
      <4>1. todo' \in Seq(Payload) /\ todo' # <<>> /\ ~Continues(todo'[1])
        BY <1>2, <3>2, PacketizeCarries DEF Carries
      <4>2. Head(todo') = todo'[1]
        BY <4>1
      <4> QED
        BY <4>1, <4>2 DEF GoesOn
    <3> QED
      BY <3>1, <3>2
  <2> QED
    BY <1>1, <2>1, <2>2
<1>3. ASSUME NEW b \in Obtainable, WritePacket(b)
      PROVE  /\ Last(buf).index < Index'
             /\ \A q \in Written' : q.index = Last(buf).index + 1 => GoesOn(q.payload)
             /\ Last(buf).index = Index' - 1 /\ todo' # <<>> => GoesOn(Head(todo'))
  <2>0. todo # <<>> /\ UNCHANGED sequenceStart
    BY <1>3, WriteCases
  <2>1. CASE Refuses \/ Crashes
    <3>1. Written' = Written /\ Index' = Index /\ (todo' = todo \/ todo' = <<>>)
      BY <2>0, <2>1 DEF Refuses, Crashes, Written, Index
    <3> QED
      BY <1>1, <3>1
  <2>2. ASSUME NEW packet, Writes(packet)
        PROVE  /\ Last(buf).index < Index'
               /\ \A q \in Written' : q.index = Last(buf).index + 1 => GoesOn(q.payload)
               /\ Last(buf).index = Index' - 1 /\ todo' # <<>> => GoesOn(Head(todo'))
    <3>1. Index' = Index + 1 /\ packet.index = Index /\ packet.payload = Head(todo)
          /\ Written' \subseteq Written \cup {packet}
      <4>1. /\ count' = count + 1 /\ packet.index = Index /\ packet.payload = Head(todo)
            /\ Written' \subseteq Written \cup {packet}
        BY <2>2 DEF Writes
      <4>2. Index' = Index + 1
        BY <2>0, <4>1 DEF Index, SenderType
      <4> QED
        BY <4>1, <4>2
    <3>2. Last(buf).index < Index' /\ Last(buf).index # Index' - 1
      BY <1>1, <3>1
    <3>3. ASSUME Index = Last(buf).index + 1 PROVE GoesOn(packet.payload)
      <4>1. Last(buf).index = Index - 1
        BY <1>1, <3>3
      <4> QED
        BY <1>1, <2>0, <3>1, <4>1
    <3>4. \A q \in Written' : q.index = Last(buf).index + 1 => GoesOn(q.payload)
      BY <1>1, <3>1, <3>3
    <3> QED
      BY <3>2, <3>4
  <2> QED
    BY <1>3, <2>1, <2>2, WriteCases
<1> QED
  BY <1>2, <1>3

\* readPacket.
LEMMA UnitReceive ==
  ASSUME SenderType, StreamInv, UnitInv, NEW packet \in network, Receive(packet)
  PROVE  UnitInv'
<1> DEFINE p == packet.payload
           c == Collected(packet)
<1>1. /\ UNCHANGED <<sequenceStart, count, todo, video, mem, ch>> /\ network' \subseteq network
      /\ pending = <<>> /\ ReadPacket(packet)
  BY DEF Receive, ReadPacket, senderVars, writerVars, videoVars
<1>2. Index' = Index /\ Written' \subseteq Written /\ packet \in Written
  BY <1>1 DEF Index, Written
<1>3. \A unit : Right(unit)' <=> Right(unit)
  BY <1>1 DEF Right, IsWhole
<1>4. ch' \in Seq(Seq(PieceType)) /\ \A k \in 1 .. Len(ch') : Right(ch'[k])
  BY <1>1 DEF UnitInv
<1>5. CASE UNCHANGED <<buf, pending>>
  BY <1>1, <1>2, <1>5, UnitKept
<1>6. CASE p.kind # "fragment" /\ HandleData(packet)
  <2>1. pending' = PlainUnits(packet) /\ buf' = buf
    BY <1>6 DEF HandleData
  <2>2. /\ pending' \in Seq(Seq(PieceType)) /\ Len(pending') = Len(p.units)
        /\ \A k \in 1 .. Len(p.units) : IsWhole(pending'[k])
    BY <1>2, <2>1, PlainFacts
  <2>3. \A k \in 1 .. Len(pending') : Right(pending'[k])
    BY <2>2 DEF Right
  <2>4. BufGoesOn'
    BY <1>1, <1>2, <2>1 DEF UnitInv, BufGoesOn, GoesOn
  <2> QED
    BY <1>1, <1>3, <1>4, <2>1, <2>2, <2>3, <2>4 DEF UnitInv, Right, IsWhole
<1>7. CASE p.kind = "fragment" /\ "end" \in p.edges /\ c # <<>> /\ HandleData(packet)
  <2>1. pending' = <<c>> /\ buf' = <<>>
    BY <1>7 DEF HandleData
  <2>2. c \in Seq(PieceType) /\ Collects(c) /\ Last(c).unit = p.units[1] /\ Last(c).to = p.to
    BY <1>2, <1>7, CollectedFacts
  <2>3. Formed(p)
    BY <1>2 DEF StreamInv, WrittenRight
  <2>4. p.to = video[p.units[1]].size
    BY <1>7, <2>3 DEF Formed
  <2> HIDE DEF c
  <2>5. Right(c)
    BY <1>7, <2>2, <2>4, EndIsWhole DEF Right
  <2>6. pending' \in Seq(Seq(PieceType)) /\ \A k \in 1 .. Len(pending') : Right(pending'[k])
    BY <2>1, <2>2, <2>5
  <2>7. buf' \in Seq(PieceType) /\ BufGoesOn'
    BY <2>1 DEF BufGoesOn
  <2> QED
    BY <1>1, <1>4, <2>6, <2>7 DEF UnitInv, Right, IsWhole
<1>8. CASE p.kind = "fragment" /\ ("end" \notin p.edges \/ c = <<>>) /\ HandleData(packet)
  <2>1. buf' = c /\ pending' = pending
    BY <1>8 DEF HandleData
  <2> HIDE DEF c
  <2>2. CASE c = <<>>
    <3>1. buf' \in Seq(PieceType) /\ BufGoesOn'
      BY <2>1, <2>2 DEF BufGoesOn
    <3> QED
      BY ZenonT(30), <1>1, <2>1, <3>1 DEF UnitInv, Right, IsWhole
  <2>3. CASE c # <<>>
    <3>1. /\ c \in Seq(PieceType) /\ Collects(c)
          /\ Last(c).index = packet.index /\ Last(c).unit = p.units[1] /\ Last(c).to = p.to
      BY <1>2, <1>8, <2>3, CollectedFacts DEF c
    <3>2. Open(p)
      BY <1>8, <2>3 DEF Open
    <3>3. packet.index < Index
      BY <1>2 DEF StreamInv, WrittenRight
    <3>4. ASSUME NEW q, Follows(p, q) PROVE q.units[1] = Last(c).unit /\ q.from = Last(c).to
      BY <3>1, <3>2, <3>4 DEF Follows
    <3>5. ASSUME NEW q \in Written', q.index = packet.index + 1 PROVE Follows(p, q.payload)
      BY <1>2, <3>5 DEF StreamInv, WrittenRight
    <3>6. ASSUME packet.index = Index - 1, todo # <<>> PROVE Follows(p, Head(todo))
      BY <1>2, <3>6 DEF StreamInv, TodoGoesOn
    <3>7. BufGoesOn'
      BY <1>1, <1>2, <2>1, <3>1, <3>3, <3>4, <3>5, <3>6 DEF BufGoesOn, GoesOn
    <3> QED
      BY ZenonT(30), <1>1, <2>1, <3>1, <3>7 DEF UnitInv, Right, IsWhole
  <2> QED
    BY <2>2, <2>3
<1>9. HandleData(packet) \/ UNCHANGED <<buf, pending>>
  BY <1>1 DEF ReadPacket
<1> QED
  BY <1>5, <1>6, <1>7, <1>8, <1>9

\* A unit goes into the channel, or out of it.
LEMMA UnitMoves ==
  ASSUME UnitInv, PutUnit \/ Consume, UNCHANGED <<senderVars, network, video>>
  PROVE  UnitInv'
<1>1. UNCHANGED <<sequenceStart, count, todo, mem, network, video>>
  BY DEF senderVars, writerVars, videoVars
<1>2. buf' = buf
  BY DEF PutUnit, Consume
<1>3. BufGoesOn'
  BY <1>1, <1>2 DEF UnitInv, BufGoesOn, GoesOn, Written, Index
<1>t. ch \in Seq(Seq(PieceType)) /\ pending \in Seq(Seq(PieceType))
  BY DEF UnitInv
<1>4. CASE PutUnit
  <2>1. pending # <<>> /\ ch' = Append(ch, Head(pending)) /\ pending' = Tail(pending)
    BY <1>4 DEF PutUnit
  <2>2. /\ Head(pending) = pending[1] /\ pending[1] \in Seq(PieceType) /\ Len(pending) \in Nat \ {0}
        /\ pending' \in Seq(Seq(PieceType)) /\ Len(pending') = Len(pending) - 1
        /\ \A k \in 1 .. Len(pending') : pending'[k] = pending[k + 1]
    BY <1>t, <2>1
  <2>3. /\ ch' \in Seq(Seq(PieceType)) /\ Len(ch') = Len(ch) + 1
        /\ ch'[Len(ch) + 1] = pending[1] /\ \A k \in 1 .. Len(ch) : ch'[k] = ch[k]
    BY SMTT(20), <1>t, <2>1, <2>2
  <2>4. ASSUME NEW k \in 1 .. Len(ch') PROVE Right(ch'[k])
    <3>1. k = Len(ch) + 1 \/ k \in 1 .. Len(ch)
      BY <1>t, <2>3
    <3>2. 1 \in 1 .. Len(pending)
      BY <2>2
    <3> QED
      BY <2>3, <3>1, <3>2 DEF UnitInv
  <2>5. ASSUME NEW k \in 1 .. Len(pending') PROVE Right(pending'[k])
    <3>1. k + 1 \in 1 .. Len(pending)
      BY <2>2
    <3> QED
      BY <2>2, <3>1 DEF UnitInv
  <2> QED
    BY ZenonT(30), <1>1, <1>2, <1>3, <2>2, <2>3, <2>4, <2>5 DEF UnitInv, Right, IsWhole
<1>5. CASE Consume
  <2>1. ch # <<>> /\ ch' = Tail(ch) /\ pending' = pending
    BY <1>5 DEF Consume
  <2>2. /\ ch' \in Seq(Seq(PieceType)) /\ Len(ch') = Len(ch) - 1 /\ Len(ch) \in Nat
        /\ \A k \in 1 .. Len(ch') : ch'[k] = ch[k + 1]
    BY <1>t, <2>1
  <2>3. ASSUME NEW k \in 1 .. Len(ch') PROVE Right(ch'[k])
    <3>1. k + 1 \in 1 .. Len(ch)
      BY <2>2
    <3> QED
      BY <2>2, <3>1 DEF UnitInv
  <2>4. (\A k \in 1 .. Len(ch) : Right(ch[k]))'
    BY <1>1, <2>3 DEF Right, IsWhole
  <2>5. (\A k \in 1 .. Len(pending) : Right(pending[k]))'
    BY <1>1, <2>1 DEF UnitInv, Right, IsWhole
  <2> QED
    BY <1>t, <1>2, <1>3, <2>1, <2>2, <2>4, <2>5 DEF UnitInv
<1> QED
  BY <1>4, <1>5

\* Every step keeps the units right.
LEMMA UnitStep ==
  ASSUME CacheInv, StreamInv, UnitInv, [Next]_vars
  PROVE  UnitInv'
<1>s. SenderType
  BY DEF CacheInv
<1> DEFINE Quiet == /\ Written' \subseteq Written
                    /\ UNCHANGED <<sequenceStart, count, todo, video, buf, ch, pending>>
<1>q. Quiet => UnitInv'
  BY UnitKept
<1>1. CASE UNCHANGED vars
  <2>1. Quiet
    BY <1>1 DEF vars, senderVars, writerVars, videoVars, receiverVars, unitVars, Written
  <2> QED
    BY <1>q, <2>1
<1>2. CASE SenderStep /\ UNCHANGED receiverVars
  <2>0. UNCHANGED <<buf, ch, pending>>
    BY <1>2 DEF receiverVars, unitVars
  <2>1. CASE Packetize \/ \E b \in Obtainable : WritePacket(b)
    BY <1>s, <2>0, <2>1, UnitSender
  <2>2. CASE Resend
    <3>1. /\ UNCHANGED <<sequenceStart, count, mem, todo, video>>
          /\ \/ network' = network
             \/ \E s \in DOMAIN cache : network' = network \cup {mem[cache[s].buf]}
      BY <2>2 DEF Resend, videoVars
    <3>2. \A s \in DOMAIN cache : cache[s].buf \in DOMAIN mem
      BY <1>s, BufferTypes
    <3>3. Written' \subseteq Written
      BY <3>1, <3>2 DEF Written
    <3> QED
      BY <1>q, <2>0, <3>1, <3>3
  <2>3. CASE AddStream \/ StreamAdded \/ StartSendVideo \/ QueueLost \/ ReadFails
    <3>1. Quiet
      BY <2>0, <2>3 DEF AddStream, StreamAdded, StartSendVideo, QueueLost, ReadFails,
                        writerVars, videoVars, Written
    <3> QED
      BY <1>q, <3>1
  <2>4. CASE SessionStep
    <3>1. Quiet
      BY <2>0, <2>4 DEF SessionStep, RecvNack, EndSendVideo, CloseConn, RecvShortPacket,
                        writerVars, videoVars, Written
    <3> QED
      BY <1>q, <3>1
  <2> QED
    BY <1>2, <2>1, <2>2, <2>3, <2>4 DEF SenderStep
<1>3. CASE ReceiverStep /\ UNCHANGED <<senderVars, network, video>>
  <2>1. CASE PutUnit \/ Consume
    BY <1>3, <2>1, UnitMoves
  <2>2. CASE StartReceiveVideo \/ EndReceiveVideo \/ CloseStream
    <3>1. Quiet
      BY <1>3, <2>2 DEF StartReceiveVideo, EndReceiveVideo, CloseStream,
                        senderVars, writerVars, videoVars, Written
    <3> QED
      BY <1>q, <3>1
  <2> QED
    BY <1>3, <2>1, <2>2 DEF ReceiverStep
<1>4. ASSUME NEW packet \in network, Receive(packet) PROVE UnitInv'
  BY <1>s, <1>4, UnitReceive
<1>5. ASSUME NEW packet \in network, Lose(packet) PROVE UnitInv'
  <2>1. Quiet
    BY <1>5 DEF Lose, senderVars, writerVars, videoVars, receiverVars, unitVars, Written
  <2> QED
    BY <1>q, <2>1
<1> QED
  BY <1>1, <1>2, <1>3, <1>4, <1>5 DEF Next

\* No unit has arrived at first.
LEMMA UnitInit == Init => UnitInv
<1> SUFFICES ASSUME Init PROVE UnitInv
  OBVIOUS
<1>1. buf = <<>> /\ ch = <<>> /\ pending = <<>>
  BY DEF Init
<1> QED
  BY <1>1 DEF UnitInv, BufGoesOn

\* The units that wait, one by one.
LEMMA WaitingUnits ==
  ASSUME NEW S, ch \in Seq(S), pending \in Seq(S)
  PROVE  /\ Len(waiting) = Len(ch) + Len(pending)
         /\ \A k \in 1 .. Len(ch) : waiting[k] = ch[k]
         /\ \A k \in 1 .. Len(waiting) :
              k \in 1 .. Len(ch)
              \/ (k - Len(ch) \in 1 .. Len(pending) /\ waiting[k] = pending[k - Len(ch)])
BY DEF waiting

\* handleData puts no mixture of units together (UnitsAreWhole), whatever is lost,
\* reordered, repeated or sent again from the retransmission cache: fragments
\* with consecutive indices are those of one unit, and complete.
THEOREM UnitsStayWhole == Spec => []UnitsAreWhole
<1> DEFINE Inv == CacheInv /\ StreamInv /\ UnitInv
<1>1. Init => Inv
  BY CacheInit, StreamInit, UnitInit
<1>2. Inv /\ [Next]_vars => Inv'
  BY CacheStep, StreamStep, UnitStep
<1>3. Inv => UnitsAreWhole
  <2> SUFFICES ASSUME UnitInv, NEW k \in 1 .. Len(waiting) PROVE Right(waiting[k])
    BY DEF UnitsAreWhole, Right
  <2>1. ch \in Seq(Seq(PieceType)) /\ pending \in Seq(Seq(PieceType))
    BY DEF UnitInv
  <2>2. (k \in 1 .. Len(ch) /\ waiting[k] = ch[k])
        \/ (k - Len(ch) \in 1 .. Len(pending) /\ waiting[k] = pending[k - Len(ch)])
    BY <2>1, WaitingUnits
  <2> QED
    BY <2>2 DEF UnitInv
<1> QED
  BY <1>1, <1>2, <1>3, PTL DEF Spec

----------------------------------------------------------------------------
(* Delivery over a network that keeps the order.                           *)

\* Every packet has its whole tag, and the 64 bits of the receiver's index are
\* enough for it.
TagsFit == \A packet \in network : packet.tag = "whole" /\ packet.index < IndexMod

\* The index of the packet that comes next, and the units that have arrived.
expected == IF highest = -1 THEN sequenceStart ELSE highest + 1
arrived == consumed + Len(ch) + Len(pending)

\* units are the whole units n + 1, n + 2, ...
InOrder(units, n) ==
  \A k \in 1 .. Len(units) : units[k][1].unit = n + k /\ IsWhole(units[k])

\* q is the payload that comes next: it goes on with the unit under reassembly,
\* if there is one.
ComesNext(q) == (Continues(q) <=> buf # <<>>) /\ q.units[1] = arrived + 1

\* An orderly network has every packet from the expected one on, each once.
NetworkOrderly ==
  /\ expected <= Index
  /\ \A p \in network : p.index >= expected
  /\ \A i \in expected .. Index - 1 : \E p \in network : p.index = i
  /\ \A p, q \in network : p.index = q.index => p = q

\* The units have arrived up to the expected packet.
ArrivedOrderly ==
  /\ consumed \in Nat
  /\ InOrder(ch, consumed) /\ InOrder(pending, consumed + Len(ch))
  /\ \A p \in network : p.index = expected => ComesNext(p.payload)
  /\ expected = Index /\ todo # <<>> => ComesNext(Head(todo))
  /\ expected = Index /\ todo = <<>> /\ sending # "ended" =>
       buf = <<>> /\ arrived = taken - Len(stap)
  /\ buf # <<>> =>
       IsConsecutive(buf) /\ Last(buf).index = expected - 1 /\ buf[1].unit = arrived + 1

OrderlySession ==
  /\ sequenceStart \in Starts /\ window = "kept" /\ receiving = "serving"
  /\ conn = "open" /\ lost = <<>> /\ resendPackets = <<>>

OrderlyInv ==
  conditions = "orderly" => OrderlySession /\ NetworkOrderly /\ ArrivedOrderly

\* The expected index is a natural number.
LEMMA ExpectedType ==
  ASSUME SenderType, IndexInv
  PROVE  expected \in Nat /\ Index \in Nat
BY SMTT(20), WrittenType DEF expected, SenderType, IndexInv

\* Steps of the sender: what is written is what comes next after all that was.
LEMMA OrderlyWrite ==
  ASSUME SenderType, IndexInv, StreamInv, conditions = "orderly",
         OrderlySession, NetworkOrderly, ArrivedOrderly,
         NEW b \in Obtainable, WritePacket(b), UNCHANGED receiverVars
  PROVE  (OrderlySession /\ NetworkOrderly /\ ArrivedOrderly)'
<1>1. todo # <<>> /\ UNCHANGED <<sequenceStart, stap, taken, video, conn, lost, resendPackets>>
  BY WriteCases DEF WritePacket
<1>2. /\ UNCHANGED <<highest, window, receiving, consumed, ch, pending, buf>>
      /\ expected' = expected /\ arrived' = arrived
  BY <1>1 DEF receiverVars, unitVars, historyVars, expected, arrived
<1>3. OrderlySession'
  BY <1>1, <1>2 DEF OrderlySession
<1>t. expected \in Nat /\ Index \in Nat /\ \A q \in network : q.index \in Nat /\ q.index < Index
  BY ExpectedType, WrittenType DEF StreamInv, WrittenRight, Written
<1>u. InOrder(ch, consumed)' /\ InOrder(pending, consumed + Len(ch))' /\ consumed' \in Nat
  BY <1>1, <1>2 DEF ArrivedOrderly, InOrder, IsWhole
<1>b. buf' # <<>> => IsConsecutive(buf)' /\ Last(buf)'.index = expected' - 1
                     /\ buf'[1].unit = arrived' + 1
  BY <1>2 DEF ArrivedOrderly, IsConsecutive, Last
<1>4. CASE Refuses \/ Crashes
  <2>1. Index' = Index /\ network' = network
        /\ ((todo' = <<>> /\ sending' = "ended") \/ UNCHANGED <<todo, sending>>)
    BY <1>1, <1>4 DEF Refuses, Crashes, Index
  <2>2. NetworkOrderly'
    BY <1>2, <2>1 DEF NetworkOrderly
  <2>3. ArrivedOrderly'
    BY <1>1, <1>2, <1>u, <1>b, <2>1 DEF ArrivedOrderly, ComesNext
  <2> QED
    BY <1>3, <2>2, <2>3
<1>5. ASSUME NEW packet, Writes(packet) PROVE NetworkOrderly' /\ ArrivedOrderly'
  <2>1. /\ Index' = Index + 1 /\ packet.index = Index /\ packet.payload = Head(todo)
        /\ network' = network \cup {packet} /\ UNCHANGED sending
    BY <1>1, <1>5 DEF Writes, Index, SenderType, OrderlySession
  <2>2. NetworkOrderly'
    <3>1. expected' <= Index' /\ \A p \in network' : p.index >= expected'
      BY SMTT(20), <1>2, <1>t, <2>1 DEF NetworkOrderly
    <3>2. ASSUME NEW i \in expected' .. Index' - 1 PROVE \E p \in network' : p.index = i
      <4>1. i = Index \/ i \in expected .. Index - 1
        BY <1>2, <1>t, <2>1
      <4> QED
        BY <2>1, <4>1 DEF NetworkOrderly
    <3>3. \A p, q \in network' : p.index = q.index => p = q
      <4>1. \A q \in network : q.index # packet.index
        BY <1>t, <2>1
      <4> QED
        BY <2>1, <4>1 DEF NetworkOrderly
    <3> QED
      BY <3>1, <3>2, <3>3 DEF NetworkOrderly
  <2>3. ArrivedOrderly'
    <3>1. expected' # Index'
      BY SMTT(20), <1>2, <1>t, <2>1 DEF NetworkOrderly
    <3>2. ASSUME NEW p \in network', p.index = expected' PROVE ComesNext(p.payload)
      <4>1. p \in network \/ (p = packet /\ expected = Index)
        BY <1>2, <2>1, <3>2
      <4> QED
        BY <1>1, <1>2, <2>1, <3>2, <4>1 DEF ArrivedOrderly
    <3>3. \A p \in network' : p.index = expected' => ComesNext(p.payload)'
      BY <1>2, <3>2 DEF ComesNext
    <3> QED
      BY <1>u, <1>b, <3>1, <3>3 DEF ArrivedOrderly
  <2> QED
    BY <2>2, <2>3
<1> QED
  BY <1>3, <1>4, <1>5, WriteCases

\* packetize goes on after the units that have arrived.
LEMMA OrderlyPacketize ==
  ASSUME SenderType, IndexInv, StreamInv, conditions = "orderly",
         OrderlySession, NetworkOrderly, ArrivedOrderly, Packetize, UNCHANGED receiverVars
  PROVE  (OrderlySession /\ NetworkOrderly /\ ArrivedOrderly)'
<1>1. /\ UNCHANGED <<sequenceStart, count, network, video, conn, lost, resendPackets, sending>>
      /\ todo = <<>> /\ sending = "serving" /\ taken' = taken + 1
  BY DEF Packetize, writerVars, sessionVars
<1>2. /\ UNCHANGED <<highest, window, receiving, consumed, ch, pending, buf>>
      /\ expected' = expected /\ arrived' = arrived /\ Index' = Index
  BY <1>1 DEF receiverVars, unitVars, historyVars, expected, arrived, Index
<1>3. OrderlySession' /\ NetworkOrderly'
  BY <1>1, <1>2 DEF OrderlySession, NetworkOrderly
<1>u. InOrder(ch, consumed)' /\ InOrder(pending, consumed + Len(ch))' /\ consumed' \in Nat
  BY <1>1, <1>2 DEF ArrivedOrderly, InOrder, IsWhole
<1>b. buf' # <<>> => IsConsecutive(buf)' /\ Last(buf)'.index = expected' - 1
                     /\ buf'[1].unit = arrived' + 1
  BY <1>2 DEF ArrivedOrderly, IsConsecutive, Last
<1>4. \A p \in network' : p.index = expected' => ComesNext(p.payload)'
  BY <1>1, <1>2 DEF ArrivedOrderly, ComesNext
<1>t. stap \in Seq(Nat) /\ taken \in Nat
  BY DEF SenderType
<1>5. ASSUME expected = Index PROVE buf = <<>> /\ arrived = taken - Len(stap)
  BY <1>1, <1>5 DEF ArrivedOrderly
<1>6. CASE video[taken + 1].kind = "param"
  <2>1. stap' = Append(stap, taken + 1) /\ todo' = <<>>
    BY <1>1, <1>6 DEF Packetize
  <2>2. taken' - Len(stap') = taken - Len(stap)
    BY <1>1, <1>t, <2>1
  <2> QED
    BY <1>2, <1>3, <1>4, <1>5, <1>u, <1>b, <2>1, <2>2 DEF ArrivedOrderly
<1>7. CASE video[taken + 1].kind # "param"
  <2>1. Carries(todo', taken - Len(stap) + 1, taken')
    BY <1>7, PacketizeCarries
  <2>2. todo' # <<>> /\ Head(todo') = todo'[1] /\ ~Continues(todo'[1])
        /\ todo'[1].units[1] = taken - Len(stap) + 1
    BY <2>1 DEF Carries
  <2>3. expected' = Index' => ComesNext(Head(todo))'
    BY <1>2, <1>5, <2>2 DEF ComesNext
  <2> QED
    BY <1>3, <1>4, <1>u, <1>b, <2>2, <2>3 DEF ArrivedOrderly
<1> QED
  BY <1>6, <1>7

\* A unit whose packets have come one after the other grows by the next one.
LEMMA AppendConsecutive ==
  ASSUME NEW unit \in Seq(PieceType), unit # <<>>, IsConsecutive(unit), NEW piece,
         piece.index = Last(unit).index + 1
  PROVE  IsConsecutive(Append(unit, piece)) /\ Append(unit, piece)[1] = unit[1]
<1> DEFINE c == Append(unit, piece)
           n == Len(unit)
<1>1. n \in Nat \ {0} /\ Len(c) = n + 1 /\ c[n + 1] = piece /\ \A k \in 1 .. n : c[k] = unit[k]
  OBVIOUS
<1>2. Last(unit) = unit[n]
  BY DEF Last
<1> HIDE DEF c, n
<1>3. ASSUME NEW k \in 1 .. Len(c) - 1 PROVE c[k + 1].index = c[k].index + 1
  <2>1. CASE k = n
    <3>1. n \in 1 .. n
      BY <1>1
    <3> QED
      BY <1>1, <1>2, <2>1, <3>1
  <2>2. CASE k # n
    <3>1. k \in 1 .. n - 1 /\ k \in 1 .. n /\ k + 1 \in 1 .. n
      BY <1>1, <2>2
    <3>2. unit[k + 1].index = unit[k].index + 1
      BY <3>1 DEF IsConsecutive, n
    <3> QED
      BY <1>1, <3>1, <3>2
  <2> QED
    BY <2>1, <2>2
<1>4. IsConsecutive(c)
  BY <1>3 DEF IsConsecutive
<1>5. 1 \in 1 .. n
  BY <1>1
<1> QED
  BY <1>1, <1>4, <1>5 DEF c

\* What handleData has collected after the fragment that comes next.
LEMMA CollectsNext ==
  ASSUME SenderType, IndexInv, StreamInv, UnitInv, ArrivedOrderly, NEW packet \in Written,
         packet.payload.kind = "fragment", ComesNext(packet.payload), packet.index = expected
  PROVE  LET c == Collected(packet) IN
         c # <<>> /\ IsConsecutive(c) /\ c[1].unit = arrived + 1
<1> DEFINE p == packet.payload
           u == p.units[1]
           c == Collected(packet)
<1>1. packet.index \in Nat /\ p \in Payload /\ p.from \in Nat /\ p.to \in Nat /\ p.units \in Seq(Nat)
  BY WrittenType DEF Payload
<1>2. Formed(p)
  BY DEF StreamInv, WrittenRight
<1>3. u \in Nat /\ u = arrived + 1
  BY SMTT(20), <1>1, <1>2 DEF Formed, ComesNext
<1> HIDE DEF u, p
<1>4. CASE "start" \in p.edges
  <2> DEFINE piece == Piece(packet, u, 0, p.to)
  <2>1. c = <<piece>>
    BY <1>4 DEF Collected, p, u
  <2>2. piece \in PieceType /\ piece.from = 0 /\ piece.unit = u
    BY <1>1, <1>3 DEF Piece, PieceType
  <2> HIDE DEF piece, c
  <2>3. c # <<>> /\ IsConsecutive(c) /\ c[1] = piece
    BY <2>1, <2>2, OnePiece
  <2> QED
    BY <1>3, <2>2, <2>3 DEF c
<1>5. CASE "start" \notin p.edges
  <2> DEFINE piece == Piece(packet, u, p.from, p.to)
  <2>1. buf # <<>>
    BY <1>5 DEF ComesNext, Continues, p
  <2>2. c = Append(buf, piece)
    BY <1>5, <2>1 DEF Collected, p, u
  <2>3. piece.index = packet.index
    BY DEF Piece
  <2> HIDE DEF piece, c
  <2>4. buf \in Seq(PieceType)
    BY DEF UnitInv
  <2>5. IsConsecutive(buf) /\ Last(buf).index = expected - 1 /\ buf[1].unit = arrived + 1
    BY <2>1 DEF ArrivedOrderly
  <2>6. piece.index = Last(buf).index + 1
    BY <1>1, <2>3, <2>5
  <2>7. IsConsecutive(c) /\ c[1] = buf[1]
    BY <2>1, <2>2, <2>4, <2>5, <2>6, AppendConsecutive
  <2>8. c # <<>>
    BY <2>2, <2>4
  <2> QED
    BY <2>5, <2>7, <2>8 DEF c
<1> QED
  BY <1>4, <1>5

\* handleData with the payload that comes next: its units have arrived after it,
\* or the unit it is a fragment of is under reassembly.
LEMMA HandlesNext ==
  ASSUME SenderType, IndexInv, StreamInv, UnitInv, ArrivedOrderly, NEW packet \in Written,
         ComesNext(packet.payload), packet.index = expected, pending = <<>>,
         HandleData(packet), UNCHANGED <<ch, consumed, video>>
  PROVE  /\ InOrder(pending, consumed + Len(ch))'
         /\ Open(packet.payload) =>
              /\ arrived' = arrived /\ packet.payload.units[1] = arrived + 1
              /\ buf' # <<>> /\ IsConsecutive(buf') /\ Last(buf').index = packet.index
              /\ buf'[1].unit = arrived + 1
         /\ ~Open(packet.payload) => buf' = <<>> /\ arrived' = Last(packet.payload.units)
<1> DEFINE p == packet.payload
           us == p.units
           c == Collected(packet)
           n == consumed + Len(ch)
<1>1. Formed(p) /\ us \in Seq(Nat) /\ Len(us) \in Nat \ {0}
  <2>1. Formed(p)
    BY DEF StreamInv, WrittenRight
  <2>2. us \in Seq(Nat)
    BY WrittenType
  <2> QED
    BY SMTT(20), <2>1, <2>2 DEF Formed
<1>2. n \in Nat /\ n' = n /\ arrived = n /\ us[1] = n + 1 /\ us[1] \in Nat
  <2>1. consumed \in Nat /\ Len(ch) \in Nat
    BY DEF ArrivedOrderly, UnitInv
  <2>2. Len(pending) = 0
    OBVIOUS
  <2>3. us[1] \in Nat
    BY <1>1
  <2> QED
    BY <2>1, <2>2, <2>3 DEF arrived, ComesNext
<1>3. Last(us) = us[Len(us)] /\ us[Len(us)] = us[1] + Len(us) - 1
  <2>1. Len(us) \in 1 .. Len(us)
    BY <1>1
  <2>2. us[Len(us)] = us[1] + Len(us) - 1
    BY <1>1, <2>1 DEF Formed
  <2> QED
    BY <2>2 DEF Last
<1>4. \A unit : IsWhole(unit)' <=> IsWhole(unit)
  BY DEF IsWhole
<1>5. arrived' = n + Len(pending')
  BY <1>2 DEF arrived
<1>6. CASE p.kind # "fragment"
  <2>1. pending' = PlainUnits(packet) /\ buf' = buf
    BY <1>6 DEF HandleData
  <2>2. ~Continues(p) /\ ~Open(p)
    BY <1>6 DEF Continues, Open
  <2>3. buf' = <<>>
    BY <2>1, <2>2 DEF ComesNext
  <2>4. /\ Len(pending') = Len(us)
        /\ \A k \in 1 .. Len(us) : pending'[k][1].unit = us[k] /\ IsWhole(pending'[k])
    BY <2>1, PlainFacts
  <2>5. ASSUME NEW k \in 1 .. Len(pending')
        PROVE  pending'[k][1].unit = n + k /\ IsWhole(pending'[k])
    <3>1. us[k] = us[1] + k - 1
      BY <1>1, <2>4 DEF Formed
    <3> QED
      BY SMTT(20), <1>2, <2>4, <3>1
  <2>6. InOrder(pending, consumed + Len(ch))'
    BY <1>2, <2>5 DEF InOrder, IsWhole
  <2>7. arrived' = Last(us)
    <3> HIDE DEF n, us
    <3>1. Last(us) = n + Len(us)
      BY <1>1, <1>2, <1>3
    <3> QED
      BY <1>5, <2>4, <3>1
  <2> QED
    BY <2>2, <2>3, <2>6, <2>7
<1>7. CASE p.kind = "fragment"
  <2>1. c # <<>> /\ IsConsecutive(c) /\ c[1].unit = n + 1
    BY <1>2, <1>7, CollectsNext
  <2>2. /\ c \in Seq(PieceType) /\ Collects(c) /\ Last(c).index = packet.index
        /\ Last(c).unit = us[1] /\ Last(c).to = p.to
    BY <1>7, <2>1, CollectedFacts
  <2>3. Len(us) = 1
    BY <1>1, <1>7 DEF Formed
  <2>4. CASE "end" \in p.edges
    <3>1. pending' = <<c>> /\ buf' = <<>> /\ ~Open(p)
      BY <1>7, <2>1, <2>4 DEF HandleData, Open
    <3>2. p.to = video[us[1]].size
      BY <1>1, <1>7, <2>4 DEF Formed
    <3> HIDE DEF c
    <3>3. IsWhole(c)
      BY <2>1, <2>2, <3>2, EndIsWhole
    <3>4. Len(pending') = 1 /\ pending'[1] = c
      BY <3>1
    <3>5. InOrder(pending, consumed + Len(ch))'
      BY SMTT(20), <1>2, <2>1, <3>3, <3>4 DEF InOrder, IsWhole
    <3>6. arrived' = Last(us)
      BY <1>2, <1>3, <1>5, <2>3, <3>4
    <3> QED
      BY <3>1, <3>5, <3>6
  <2>5. CASE "end" \notin p.edges
    <3>1. buf' = c /\ pending' = <<>> /\ Open(p)
      BY <1>7, <2>5 DEF HandleData, Open
    <3> HIDE DEF c
    <3>2. Len(pending') = 0
      BY <3>1
    <3>3. arrived' = arrived
      BY <1>2, <1>5, <3>2
    <3>4. InOrder(pending, consumed + Len(ch))'
      BY <3>2 DEF InOrder
    <3> QED
      BY <1>2, <2>1, <2>2, <3>1, <3>3, <3>4
  <2> QED
    BY <2>4, <2>5
<1> QED
  BY <1>6, <1>7

\* readPacket takes the packet that comes next, and verifies it.
LEMMA ReceivesNext ==
  ASSUME SenderType, IndexInv, StreamInv, conditions = "orderly", TagsFit,
         OrderlySession, NetworkOrderly, NEW packet \in network, Receive(packet)
  PROVE  /\ packet.index = expected /\ expected' = expected + 1 /\ window' = "kept"
         /\ Index' = Index /\ network' = network \ {packet} /\ HandleData(packet)
<1> DEFINE i == packet.index
<1>t. expected \in Nat /\ Index \in Nat /\ \A q \in network : q.index \in Nat /\ q.index < Index
  BY ExpectedType, WrittenType DEF StreamInv, WrittenRight, Written
<1>1. /\ \A q \in network : i <= q.index
      /\ network' = network \ {packet} /\ ReadPacket(packet)
      /\ UNCHANGED <<sequenceStart, count>>
  BY DEF Receive, senderVars, writerVars
<1>2. i = expected
  <2>1. i >= expected /\ i < Index /\ i \in Nat
    BY <1>t DEF NetworkOrderly
  <2>2. expected \in expected .. Index - 1
    BY <1>t, <2>1
  <2>3. PICK q \in network : q.index = expected
    BY <2>2 DEF NetworkOrderly
  <2> QED
    BY <1>t, <1>1, <2>1, <2>3
<1>3. Near(i)
  <2>1. i < IndexMod /\ HalfSeq \in Nat \ {0} /\ SeqMod \in Nat
    BY WireAssumption DEF TagsFit, SeqMod
  <2>2. CASE highest = -1
    <3>1. sequenceStart \in SeqNo
      BY SenderAssumption DEF OrderlySession
    <3>2. i < SeqMod
      BY <1>2, <2>1, <2>2, <3>1 DEF expected, SeqNo
    <3> QED
      BY <2>1, <2>2, <3>2 DEF Near
  <2>3. CASE highest # -1
    <3>1. highest \in Nat /\ i = highest + 1
      BY <1>2, <2>3 DEF IndexInv, expected
    <3>2. i - highest = 1 /\ 1 \in 1 - HalfSeq .. HalfSeq
      BY <2>1, <3>1
    <3> QED
      BY <2>1, <2>3, <3>2 DEF Near
  <2> QED
    BY <2>2, <2>3
<1>4. Estimate(Sequence(i)) = i
  BY <1>t, <1>3, EstimateIsRight DEF OrderlySession
<1>5. Verified(packet, Estimate(Sequence(i)))
  BY <1>4 DEF Verified, TagsFit
<1>6. HandleData(packet)
  BY <1>1, <1>5 DEF ReadPacket, OrderlySession
<1>7. History(packet, Verified(packet, Estimate(Sequence(i))))
  BY <1>1 DEF ReadPacket
<1>8. window' = "kept"
  BY <1>3, <1>7 DEF History, OrderlySession
<1>9. expected' = expected + 1
  <2>1. i > highest
    BY <1>t, <1>2 DEF expected, IndexInv
  <2>2. highest' = i
    BY <1>7, <2>1 DEF History
  <2> QED
    BY <1>t, <1>2, <2>2 DEF expected
<1> QED
  BY <1>1, <1>2, <1>6, <1>8, <1>9 DEF Index

\* After it, the packet that follows it comes next.
LEMMA OrderlyReceive ==
  ASSUME SenderType, IndexInv, StreamInv, UnitInv, conditions = "orderly", TagsFit,
         OrderlySession, NetworkOrderly, ArrivedOrderly, NEW packet \in network, Receive(packet)
  PROVE  (OrderlySession /\ NetworkOrderly /\ ArrivedOrderly)'
<1> DEFINE p == packet.payload
<1>1. /\ packet.index = expected /\ expected' = expected + 1 /\ window' = "kept"
      /\ Index' = Index /\ network' = network \ {packet} /\ HandleData(packet)
  BY ReceivesNext
<1>2. /\ pending = <<>> /\ packet \in Written
      /\ UNCHANGED <<sequenceStart, todo, stap, taken, sending, video, conn, lost,
                     resendPackets, ch, receiving, consumed>>
  BY DEF Receive, ReadPacket, senderVars, writerVars, videoVars, sessionVars, Written
<1>3. OrderlySession'
  BY <1>1, <1>2 DEF OrderlySession
<1>t. expected \in Nat /\ Index \in Nat /\ \A q \in network : q.index \in Nat /\ q.index < Index
  BY ExpectedType, WrittenType DEF StreamInv, WrittenRight, Written
<1>4. NetworkOrderly'
  <2>1. expected' <= Index'
    BY <1>t, <1>1
  <2>2. ASSUME NEW q \in network' PROVE q.index >= expected'
    <3>1. q \in network /\ q # packet
      BY <1>1
    <3>2. q.index # packet.index /\ q.index >= expected
      BY <3>1 DEF NetworkOrderly
    <3> QED
      BY <1>t, <1>1, <3>1, <3>2
  <2>3. ASSUME NEW i \in expected' .. Index' - 1 PROVE \E q \in network' : q.index = i
    <3>1. i \in expected .. Index - 1 /\ i # packet.index
      BY <1>t, <1>1
    <3> QED
      BY <1>1, <3>1 DEF NetworkOrderly
  <2> QED
    BY <1>1, <2>1, <2>2, <2>3 DEF NetworkOrderly
<1>5. ComesNext(p)
  BY <1>1 DEF ArrivedOrderly
<1>6. /\ InOrder(pending, consumed + Len(ch))'
      /\ Open(p) => /\ arrived' = arrived /\ p.units[1] = arrived + 1
                    /\ buf' # <<>> /\ IsConsecutive(buf') /\ Last(buf').index = packet.index
                    /\ buf'[1].unit = arrived + 1
      /\ ~Open(p) => buf' = <<>> /\ arrived' = Last(p.units)
  BY <1>1, <1>2, <1>5, HandlesNext
<1>7. ASSUME NEW q, Follows(p, q) PROVE (Continues(q) <=> buf' # <<>>) /\ q.units[1] = arrived' + 1
  BY <1>6, <1>7 DEF Follows
<1>8. (\A q \in network : q.index = expected => ComesNext(q.payload))'
  <2>1. ASSUME NEW q \in network', q.index = expected' PROVE Follows(p, q.payload)
    <3>1. q \in Written /\ q.index = packet.index + 1
      BY <1>1, <2>1 DEF Written
    <3> QED
      BY <1>2, <3>1 DEF StreamInv, WrittenRight
  <2> QED
    BY <1>7, <2>1 DEF ComesNext
<1>9. ASSUME expected' = Index' PROVE packet.index = Index - 1
  BY <1>t, <1>1, <1>9
<1>10. ASSUME expected' = Index', todo # <<>> PROVE ComesNext(Head(todo))'
  <2>1. Follows(p, Head(todo))
    BY <1>2, <1>9, <1>10 DEF StreamInv, TodoGoesOn
  <2> QED
    BY <1>2, <1>7, <2>1 DEF ComesNext
<1>11. ASSUME expected' = Index', todo = <<>>, sending # "ended"
       PROVE  buf' = <<>> /\ arrived' = taken - Len(stap)
  <2>1. Finished(p)
    BY <1>2, <1>9, <1>11 DEF StreamInv, TodoGoesOn
  <2> QED
    BY <1>6, <2>1 DEF Finished
<1>12. buf' # <<>> => /\ IsConsecutive(buf') /\ Last(buf').index = expected' - 1
                      /\ buf'[1].unit = arrived' + 1
  BY <1>t, <1>1, <1>6
<1>13. InOrder(ch, consumed)' /\ consumed' \in Nat
  BY <1>2 DEF ArrivedOrderly, InOrder, IsWhole
<1>14. ArrivedOrderly'
  BY <1>2, <1>6, <1>8, <1>10, <1>11, <1>12, <1>13 DEF ArrivedOrderly
<1> QED
  BY <1>3, <1>4, <1>14

\* Units move through the channel in their order.
LEMMA OrderlyMoves ==
  ASSUME IndexInv, UnitInv, OrderlySession, NetworkOrderly, ArrivedOrderly,
         PutUnit \/ Consume, UNCHANGED <<senderVars, network, video>>
  PROVE  (OrderlySession /\ NetworkOrderly /\ ArrivedOrderly)'
<1>1. /\ UNCHANGED <<sequenceStart, count, todo, stap, taken, sending, video, network, conn, lost,
                     resendPackets, buf, highest, window, receiving>>
  BY DEF senderVars, writerVars, videoVars, sessionVars, PutUnit, Consume, historyVars
<1>2. expected' = expected /\ Index' = Index
  BY <1>1 DEF expected, Index
<1>3. OrderlySession' /\ NetworkOrderly'
  BY <1>1, <1>2 DEF OrderlySession, NetworkOrderly
<1>t. /\ ch \in Seq(Seq(PieceType)) /\ pending \in Seq(Seq(PieceType)) /\ consumed \in Nat
      /\ Len(ch) \in Nat /\ Len(pending) \in Nat
  BY DEF UnitInv, ArrivedOrderly
<1>4. consumed' \in Nat /\ arrived' = arrived
      /\ InOrder(ch, consumed)' /\ InOrder(pending, consumed + Len(ch))'
  <2>1. CASE PutUnit
    <3>1. pending # <<>> /\ ch' = Append(ch, Head(pending)) /\ pending' = Tail(pending)
          /\ consumed' = consumed
      BY <2>1 DEF PutUnit
    <3>2. /\ Head(pending) = pending[1] /\ pending[1] \in Seq(PieceType) /\ Len(pending) \in Nat \ {0}
          /\ Len(pending') = Len(pending) - 1
          /\ \A k \in 1 .. Len(pending') : pending'[k] = pending[k + 1]
      BY <1>t, <3>1
    <3>3. /\ Len(ch') = Len(ch) + 1
          /\ ch'[Len(ch) + 1] = pending[1] /\ \A k \in 1 .. Len(ch) : ch'[k] = ch[k]
      BY SMTT(20), <1>t, <3>1, <3>2
    <3>4. ASSUME NEW k \in 1 .. Len(ch') PROVE ch'[k][1].unit = consumed + k /\ IsWhole(ch'[k])
      <4>1. CASE k = Len(ch) + 1
        <5>1. 1 \in 1 .. Len(pending)
          BY <3>2
        <5>2. pending[1][1].unit = consumed + Len(ch) + 1 /\ IsWhole(pending[1])
          BY <5>1 DEF ArrivedOrderly, InOrder
        <5> QED
          BY SMTT(20), <1>t, <3>3, <4>1, <5>2
      <4>2. CASE k # Len(ch) + 1
        <5>1. k \in 1 .. Len(ch)
          BY <1>t, <3>3, <4>2
        <5> QED
          BY <3>3, <5>1 DEF ArrivedOrderly, InOrder
      <4> QED
        BY <4>1, <4>2
    <3>5. ASSUME NEW k \in 1 .. Len(pending')
          PROVE  pending'[k][1].unit = consumed + Len(ch') + k /\ IsWhole(pending'[k])
      <4>1. k + 1 \in 1 .. Len(pending) /\ pending'[k] = pending[k + 1]
        BY <3>2
      <4>2. pending[k + 1][1].unit = consumed + Len(ch) + (k + 1) /\ IsWhole(pending[k + 1])
        BY <4>1 DEF ArrivedOrderly, InOrder
      <4>3. consumed + Len(ch) + (k + 1) = consumed + Len(ch') + k
        BY SMTT(20), <1>t, <3>3
      <4> QED
        BY <4>1, <4>2, <4>3
    <3>6. arrived' = arrived
      BY SMTT(20), <1>t, <3>1, <3>2, <3>3 DEF arrived
    <3>7. video' = video /\ consumed' = consumed
      BY <1>1, <3>1
    <3>8. InOrder(ch, consumed)'
      BY <3>4, <3>7 DEF InOrder, IsWhole
    <3>9. InOrder(pending, consumed + Len(ch))'
      BY <3>5, <3>7 DEF InOrder, IsWhole
    <3> QED
      BY <1>t, <3>1, <3>6, <3>8, <3>9
  <2>2. CASE Consume
    <3>1. ch # <<>> /\ ch' = Tail(ch) /\ pending' = pending /\ consumed' = consumed + 1
      BY <2>2 DEF Consume
    <3>2. /\ Len(ch') = Len(ch) - 1
          /\ \A k \in 1 .. Len(ch') : ch'[k] = ch[k + 1]
      BY <1>t, <3>1
    <3>3. ASSUME NEW k \in 1 .. Len(ch') PROVE ch'[k][1].unit = consumed' + k /\ IsWhole(ch'[k])
      <4>1. k + 1 \in 1 .. Len(ch) /\ ch'[k] = ch[k + 1]
        BY <1>t, <3>2
      <4>2. ch[k + 1][1].unit = consumed + (k + 1) /\ IsWhole(ch[k + 1])
        BY <4>1 DEF ArrivedOrderly, InOrder
      <4>3. consumed + (k + 1) = consumed' + k
        BY <1>t, <3>1
      <4> QED
        BY <4>1, <4>2, <4>3
    <3>4. consumed' + Len(ch') = consumed + Len(ch)
      BY <1>t, <3>1, <3>2
    <3>5. arrived' = arrived
      BY <1>t, <3>1, <3>4 DEF arrived
    <3>6. InOrder(ch, consumed)'
      BY <1>1, <3>3 DEF InOrder, IsWhole
    <3>7. InOrder(pending, consumed + Len(ch))'
      BY ZenonT(30), <1>1, <3>1, <3>4 DEF ArrivedOrderly, InOrder, IsWhole
    <3> QED
      BY <1>t, <3>1, <3>5, <3>6, <3>7
  <2> QED
    BY <2>1, <2>2
<1>5. ArrivedOrderly'
  BY <1>1, <1>2, <1>4 DEF ArrivedOrderly, ComesNext, IsConsecutive, Last
<1> QED
  BY <1>3, <1>5

\* Steps that leave the packets, packetize and the units alone.
LEMMA OrderlyKept ==
  ASSUME OrderlySession, NetworkOrderly, ArrivedOrderly,
         UNCHANGED <<sequenceStart, count, network, video, todo, stap, taken, conn, lost,
                     resendPackets, receiverVars>>,
         sending = "ended" => sending' = "ended"
  PROVE  (OrderlySession /\ NetworkOrderly /\ ArrivedOrderly)'
<1>1. UNCHANGED <<highest, window, receiving, consumed, ch, pending, buf>>
  BY DEF receiverVars, unitVars, historyVars
<1>2. expected' = expected /\ arrived' = arrived /\ Index' = Index
  BY <1>1 DEF expected, arrived, Index
<1>3. OrderlySession' /\ NetworkOrderly'
  BY <1>1, <1>2 DEF OrderlySession, NetworkOrderly
<1>4. InOrder(ch, consumed)' /\ InOrder(pending, consumed + Len(ch))' /\ consumed' \in Nat
  BY <1>1 DEF ArrivedOrderly, InOrder, IsWhole
<1>5. buf' # <<>> => IsConsecutive(buf)' /\ Last(buf)'.index = expected' - 1
                     /\ buf'[1].unit = arrived' + 1
  BY <1>1, <1>2 DEF ArrivedOrderly, IsConsecutive, Last
<1>6. (\A p \in network : p.index = expected => ComesNext(p.payload))'
  BY <1>1, <1>2 DEF ArrivedOrderly, ComesNext
<1>7. (expected = Index /\ todo # <<>> => ComesNext(Head(todo)))'
  BY <1>1, <1>2 DEF ArrivedOrderly, ComesNext
<1>8. (expected = Index /\ todo = <<>> /\ sending # "ended" =>
        buf = <<>> /\ arrived = taken - Len(stap))'
  BY <1>1, <1>2 DEF ArrivedOrderly
<1>9. ArrivedOrderly'
  BY <1>4, <1>5, <1>6, <1>7, <1>8 DEF ArrivedOrderly
<1> QED
  BY <1>3, <1>9

\* Every step keeps the order, as long as no tag is cut.
LEMMA OrderlyStep ==
  ASSUME CacheInv, IndexInv, StreamInv, UnitInv, OrderlyInv, TagsFit, [Next]_vars
  PROVE  OrderlyInv'
<1>s. SenderType
  BY DEF CacheInv
<1>0. conditions' = conditions
  BY DEF Next, Receive, Lose, vars
<1> SUFFICES ASSUME conditions = "orderly"
             PROVE  (OrderlySession /\ NetworkOrderly /\ ArrivedOrderly)'
  BY <1>0 DEF OrderlyInv
<1>i. OrderlySession /\ NetworkOrderly /\ ArrivedOrderly
  BY DEF OrderlyInv
<1>1. CASE UNCHANGED vars
  <2>1. UNCHANGED <<sequenceStart, count, network, video, todo, stap, taken, conn, lost,
                    resendPackets, receiverVars, sending>>
    BY <1>1 DEF vars, senderVars, writerVars, videoVars, sessionVars
  <2> QED
    BY <1>i, <2>1, OrderlyKept
<1>2. CASE SenderStep /\ UNCHANGED receiverVars
  <2>1. CASE Packetize
    BY <1>s, <1>i, <1>2, <2>1, OrderlyPacketize
  <2>2. ASSUME NEW b \in Obtainable, WritePacket(b)
        PROVE  (OrderlySession /\ NetworkOrderly /\ ArrivedOrderly)'
    BY <1>s, <1>i, <1>2, <2>2, OrderlyWrite
  <2>3. ~Resend /\ ~QueueLost /\ ~ReadFails
    BY <1>i DEF OrderlySession, Resend, QueueLost, ReadFails
  <2>4. CASE AddStream \/ StreamAdded \/ StartSendVideo
    <3>1. /\ UNCHANGED <<sequenceStart, count, network, video, todo, stap, taken, conn, lost,
                         resendPackets>>
          /\ sending = "ended" => sending' = "ended"
      BY <2>4 DEF AddStream, StreamAdded, StartSendVideo, writerVars, videoVars, sessionVars
    <3> QED
      BY <1>i, <1>2, <3>1, OrderlyKept
  <2> QED
    BY <1>2, <2>1, <2>2, <2>3, <2>4 DEF SenderStep
<1>3. CASE ReceiverStep /\ UNCHANGED <<senderVars, network, video>>
  BY <1>i, <1>3, OrderlyMoves DEF ReceiverStep
<1>4. ASSUME NEW packet \in network, Receive(packet)
      PROVE  (OrderlySession /\ NetworkOrderly /\ ArrivedOrderly)'
  BY <1>s, <1>i, <1>4, OrderlyReceive
<1>5. ASSUME NEW packet \in network, Lose(packet) PROVE FALSE
  BY <1>5 DEF Lose
<1> QED
  BY <1>1, <1>2, <1>3, <1>4, <1>5 DEF Next

\* The first packet is expected at first.
LEMMA OrderlyInit == Init => OrderlyInv
<1> SUFFICES ASSUME Init, conditions = "orderly"
             PROVE  OrderlySession /\ NetworkOrderly /\ ArrivedOrderly
  BY DEF OrderlyInv
<1>1. /\ sequenceStart \in Starts /\ count = 0 /\ network = {} /\ stap = <<>> /\ todo = <<>>
      /\ taken = 0 /\ highest = -1 /\ consumed = 0 /\ ch = <<>> /\ pending = <<>> /\ buf = <<>>
  BY DEF Init
<1>2. sequenceStart \in Nat
  BY SMTT(20), <1>1, SenderAssumption, WireAssumption DEF SeqNo, SeqMod
<1>3. expected = sequenceStart /\ Index = sequenceStart
  BY <1>1, <1>2 DEF expected, Index
<1>4. Len(ch) = 0 /\ Len(pending) = 0 /\ Len(stap) = 0
  BY <1>1
<1>5. OrderlySession
  BY DEF Init, OrderlySession
<1>6. NetworkOrderly
  BY <1>1, <1>2, <1>3 DEF NetworkOrderly
<1>7. arrived = 0
  BY <1>1, <1>4 DEF arrived
<1>8. InOrder(ch, consumed) /\ InOrder(pending, consumed + Len(ch))
  BY <1>4 DEF InOrder
<1>9. consumed \in Nat /\ arrived = taken - Len(stap)
  <2>1. taken = 0 /\ consumed = 0
    BY <1>1
  <2> QED
    BY <1>4, <1>7, <2>1
<1>10. \A p \in network : p.index = expected => ComesNext(p.payload)
  BY <1>1
<1>11. ~(todo # <<>>) /\ ~(buf # <<>>) /\ buf = <<>>
  BY <1>1
<1>12. ArrivedOrderly
  BY <1>8, <1>9, <1>10, <1>11 DEF ArrivedOrderly
<1> QED
  BY <1>5, <1>6, <1>12

\* packetize and handleData are inverse (OrderlyDelivery) over a network that
\* keeps the order, as long as every tag is whole and the index fits its 64
\* bits: writePacket cuts the tag of a packet that almost fills its buffer, and
\* the receiver then drops the packet.
THEOREM OrderIsKept == Spec /\ []TagsFit => []OrderlyDelivery
<1> DEFINE Inv == CacheInv /\ IndexInv /\ StreamInv /\ UnitInv /\ OrderlyInv
<1>1. Init => Inv
  BY CacheInit, StreamInit, UnitInit, OrderlyInit DEF Init, IndexInv
<1>2. Inv /\ TagsFit /\ [Next]_vars => Inv'
  BY CacheStep, IndexStep, StreamStep, UnitStep, OrderlyStep
<1>3. Inv => OrderlyDelivery
  <2> SUFFICES ASSUME Inv, conditions = "orderly"
               PROVE  /\ \A k \in 1 .. Len(waiting) :
                           waiting[k][1].unit = consumed + k /\ IsWhole(waiting[k])
                      /\ todo = <<>> /\ network = {} /\ sending = "serving" =>
                           consumed + Len(waiting) = taken - Len(stap)
    BY DEF OrderlyDelivery
  <2>1. NetworkOrderly /\ ArrivedOrderly
    BY DEF OrderlyInv
  <2>2. /\ ch \in Seq(Seq(PieceType)) /\ pending \in Seq(Seq(PieceType)) /\ consumed \in Nat
        /\ Len(ch) \in Nat /\ Len(pending) \in Nat
    BY <2>1 DEF UnitInv, ArrivedOrderly
  <2>3. /\ Len(waiting) = Len(ch) + Len(pending)
        /\ \A k \in 1 .. Len(ch) : waiting[k] = ch[k]
        /\ \A k \in 1 .. Len(waiting) :
             k \in 1 .. Len(ch)
             \/ (k - Len(ch) \in 1 .. Len(pending) /\ waiting[k] = pending[k - Len(ch)])
    BY <2>2, WaitingUnits
  <2>4. ASSUME NEW k \in 1 .. Len(waiting)
        PROVE  waiting[k][1].unit = consumed + k /\ IsWhole(waiting[k])
    <3>1. CASE k \in 1 .. Len(ch)
      BY <2>1, <2>3, <3>1 DEF ArrivedOrderly, InOrder
    <3>2. CASE k - Len(ch) \in 1 .. Len(pending) /\ waiting[k] = pending[k - Len(ch)]
      <4>1. waiting[k][1].unit = consumed + Len(ch) + (k - Len(ch)) /\ IsWhole(waiting[k])
        BY <2>1, <3>2 DEF ArrivedOrderly, InOrder
      <4>2. consumed + Len(ch) + (k - Len(ch)) = consumed + k
        BY <2>2, <2>3
      <4> QED
        BY <4>1, <4>2
    <3> QED
      BY <2>3, <3>1, <3>2
  <2>5. ASSUME todo = <<>>, network = {}, sending = "serving"
        PROVE  consumed + Len(waiting) = taken - Len(stap)
    <3>1. expected \in Nat /\ Index \in Nat
      BY ExpectedType DEF CacheInv
    <3>2. expected = Index
      <4>1. \A i \in expected .. Index - 1 : FALSE
        BY <2>1, <2>5 DEF NetworkOrderly
      <4>2. expected \notin expected .. Index - 1 /\ expected <= Index
        BY <2>1, <4>1 DEF NetworkOrderly
      <4> QED
        BY <3>1, <4>2
    <3>3. arrived = taken - Len(stap)
      BY <2>1, <2>5, <3>2 DEF ArrivedOrderly
    <3>4. arrived = consumed + Len(waiting)
      BY <2>2, <2>3 DEF arrived
    <3> QED
      BY <3>3, <3>4
  <2> QED
    BY <2>4, <2>5
<1> QED
  BY <1>1, <1>2, <1>3, PTL DEF Spec
============================================================================
