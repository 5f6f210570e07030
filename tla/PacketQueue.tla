---------------------------- MODULE PacketQueue ----------------------------
(***************************************************************************)
(* What a mux endpoint promises its readers (internal/mux/endpoint.go): a  *)
(* FIFO queue of packets per endpoint that holds at most Capacity of them  *)
(* and makes room for a new packet by dropping the oldest one.  Nothing is *)
(* said about buffers, tokens or locks: Mux is shown to implement this.    *)
(***************************************************************************)
EXTENDS Naturals, Sequences

CONSTANTS
  Endpoint,   \* the endpoints of the mux
  Packet,     \* what is queued
  NoPacket,   \* "nothing received yet"
  Capacity    \* the number of packets an endpoint can hold

VARIABLES
  queue,      \* queue[e]: the packets waiting in e, oldest first
  received    \* received[e]: the packet the last Read of e returned

vars == <<queue, received>>

Init ==
  /\ queue = [e \in Endpoint |-> <<>>]
  /\ received = [e \in Endpoint |-> NoPacket]

\* q with its oldest packet dropped when there is no room for another one.
MakeRoom(q) == IF Len(q) = Capacity THEN Tail(q) ELSE q

Enqueue(e) ==
  /\ \E p \in Packet : queue' = [queue EXCEPT ![e] = Append(MakeRoom(@), p)]
  /\ UNCHANGED received

Dequeue(e) ==
  /\ queue[e] # <<>>
  /\ received' = [received EXCEPT ![e] = Head(queue[e])]
  /\ queue' = [queue EXCEPT ![e] = Tail(@)]

Next == \E e \in Endpoint : Enqueue(e) \/ Dequeue(e)

Spec == Init /\ [][Next]_vars
============================================================================
