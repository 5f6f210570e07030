-------------------------------- MODULE Flow --------------------------------
(***************************************************************************)
(* media.Flow, the source side of a media stream, the reference counts of  *)
(* packet.SharedBuffer, and the consumers, which all look like SendVideo:  *)
(* AddReceiver, read buffers and release them, RemoveReceiver.             *)
(*                                                                         *)
(* Flow's mutex is held across Flow.Start, which may block, and while Put  *)
(* hands a buffer to one receiver after the other: consumers receive and   *)
(* release without the mutex meanwhile.  RemoveReceiver and Shutdown do    *)
(* not block; draining a channel against its reader hands each buffer to   *)
(* one of the two, so it is one step.                                      *)
(***************************************************************************)
EXTENDS Integers, Sequences, FiniteSets

CONSTANTS
  User,       \* goroutines that consume the stream
  Frame,      \* bound: SharedBuffers that can be in use at once
  Capacity,   \* capacity of a receiver's channel
  None

ASSUME UserAssumption == IsFiniteSet(User) /\ User \cap {"free", "source"} = {}
ASSUME FrameAssumption == None \notin Frame /\ None \notin User
ASSUME CapacityAssumption == Capacity \in Nat \ {0}

VARIABLES
  lock,       \* Flow's mutex: "free", "source" in Put, or the user in Start
  receivers,  \* Flow.receivers
  ch,         \* ch[u]: the buffers in the channel of u's receiver
  closed,     \* users whose receiver's channel is closed
  user,       \* where each consumer is
  held,       \* held[u]: the buffer u is working on, or None
  count,      \* SharedBuffer.count
  putting,    \* the buffer Put is handing out, or None
  left,       \* the receivers Put has yet to come to
  stops       \* pending go f.Stop()

flowVars == <<lock, receivers, ch, closed, user, held, count, putting, left, stops>>

FlowInit ==
  /\ lock = "free" /\ receivers = {} /\ closed = {} /\ stops = 0
  /\ ch = [u \in User |-> <<>>]
  /\ user = [u \in User |-> "idle"] /\ held = [u \in User |-> None]
  /\ count = [f \in Frame |-> 0] /\ putting = None /\ left = {}

----------------------------------------------------------------------------
(* Consumers.                                                              *)

\* Start is called for the first receiver, with the mutex held.
AddReceiver(u) ==
  /\ user[u] = "idle" /\ lock = "free"
  /\ receivers' = receivers \cup {u}
  /\ ch' = [ch EXCEPT ![u] = <<>>] /\ closed' = closed \ {u}
  /\ IF receivers = {}
     THEN lock' = u /\ user' = [user EXCEPT ![u] = "starting"]
     ELSE user' = [user EXCEPT ![u] = "reading"] /\ UNCHANGED lock
  /\ UNCHANGED <<held, count, putting, left, stops>>

\* Start returns, and with it AddReceiver.
Started(u) ==
  /\ user[u] = "starting"
  /\ lock' = "free" /\ user' = [user EXCEPT ![u] = "reading"]
  /\ UNCHANGED <<receivers, ch, closed, held, count, putting, left, stops>>

Receive(u) ==
  /\ user[u] = "reading" /\ ch[u] # <<>>
  /\ held' = [held EXCEPT ![u] = Head(ch[u])]
  /\ ch' = [ch EXCEPT ![u] = Tail(@)]
  /\ user' = [user EXCEPT ![u] = "busy"]
  /\ UNCHANGED <<lock, receivers, closed, count, putting, left, stops>>

\* buf.Release(), after which a write error may end the loop.
ReleaseFrame(u) ==
  /\ user[u] = "busy"
  /\ count' = [count EXCEPT ![held[u]] = @ - 1]
  /\ held' = [held EXCEPT ![u] = None]
  /\ \E where \in {"reading", "leaving"} : user' = [user EXCEPT ![u] = where]
  /\ UNCHANGED <<lock, receivers, ch, closed, putting, left, stops>>

\* quit is closed, or the channel is: Shutdown left nothing in it.
Leave(u) ==
  /\ user[u] = "reading"
  /\ user' = [user EXCEPT ![u] = "leaving"]
  /\ UNCHANGED <<lock, receivers, ch, closed, held, count, putting, left, stops>>

----------------------------------------------------------------------------
(* The end of receivers.                                                   *)

InChannel(u, f) == \E i \in 1 .. Len(ch[u]) : ch[u][i] = f

\* closeAndDrain for the receivers of U releases what their channels hold.
Drain(U) ==
  [f \in Frame |-> count[f] - Cardinality({u \in U : InChannel(u, f)})]

LastRemovedAny(R) == TRUE                         \* mutant: always stops
LastRemovedNever(R) == FALSE                      \* mutant: never stops
LastRemoved(R) == R = {}

RemovesAnyTime == TRUE                            \* mutant: without the mutex
RemovesLocked == lock = "free"

\* Stop is called when no receiver is left, even if r was not there any more.
RemoveReceiver(u) ==
  /\ user[u] = "leaving" /\ RemovesLocked
  /\ count' = Drain({u} \cap receivers)
  /\ ch' = [ch EXCEPT ![u] = <<>>]
  /\ closed' = closed \cup {u}
  /\ receivers' = receivers \ {u}
  /\ stops' = IF LastRemoved(receivers \ {u}) THEN stops + 1 ELSE stops
  /\ user' = [user EXCEPT ![u] = "idle"]
  /\ UNCHANGED <<lock, held, putting, left>>

Shutdown ==
  /\ lock = "free"
  /\ count' = Drain(receivers)
  /\ ch' = [u \in User |-> IF u \in receivers THEN <<>> ELSE ch[u]]
  /\ closed' = closed \cup receivers
  /\ receivers' = {}
  /\ UNCHANGED <<lock, user, held, putting, left, stops>>

----------------------------------------------------------------------------
(* Put.                                                                    *)

Held(f) == putting = f \/ \E u \in User : held[u] = f \/ InChannel(u, f)

\* PutBuffer makes a new SharedBuffer with one reference, Put's own.
PutBegin(f) ==
  /\ lock = "free" /\ ~Held(f)
  /\ lock' = "source" /\ putting' = f /\ left' = receivers
  /\ count' = [count EXCEPT ![f] = 1]
  /\ UNCHANGED <<receivers, ch, closed, user, held, stops>>

FullAlwaysHeld(u) == count[putting] + 1           \* mutant: no Release when full
\* The count after the offer to u: Hold, and Release if the channel is full.
CountAfter(u) ==
  IF Len(ch[u]) < Capacity THEN count[putting] + 1 ELSE count[putting]

PutTo(u) ==
  /\ lock = "source" /\ u \in left
  /\ count' = [count EXCEPT ![putting] = CountAfter(u)]
  /\ ch' = IF Len(ch[u]) < Capacity THEN [ch EXCEPT ![u] = Append(@, putting)] ELSE ch
  /\ left' = left \ {u}
  /\ UNCHANGED <<lock, receivers, closed, user, held, putting, stops>>

PutEnd ==
  /\ lock = "source" /\ left = {}
  /\ count' = [count EXCEPT ![putting] = @ - 1]
  /\ putting' = None /\ lock' = "free"
  /\ UNCHANGED <<receivers, ch, closed, user, held, left, stops>>

----------------------------------------------------------------------------
\* A goroutine that was started for Stop gets to run.
StopRuns ==
  /\ stops > 0
  /\ stops' = stops - 1
  /\ UNCHANGED <<lock, receivers, ch, closed, user, held, count, putting, left>>

\* The steps of the Flow, whatever its source does and whenever it does it.
FlowNext ==
  \/ \E u \in User : \/ AddReceiver(u) \/ Started(u) \/ Receive(u)
                     \/ ReleaseFrame(u) \/ Leave(u) \/ RemoveReceiver(u) \/ PutTo(u)
  \/ \E f \in Frame : PutBegin(f)
  \/ PutEnd \/ Shutdown \/ StopRuns

FlowSpec == FlowInit /\ [][FlowNext]_flowVars

----------------------------------------------------------------------------
(* Properties.                                                             *)

FlowType ==
  /\ lock \in {"free", "source"} \cup User
  /\ receivers \in SUBSET User /\ closed \in SUBSET User /\ left \in SUBSET User
  /\ ch \in [User -> Seq(Frame)]
  /\ user \in [User -> {"idle", "starting", "reading", "busy", "leaving"}]
  /\ held \in [User -> Frame \cup {None}]
  /\ count \in [Frame -> Nat]
  /\ putting \in Frame \cup {None}
  /\ stops \in Nat

Owners(f) ==
  {u \in User : held[u] = f \/ InChannel(u, f)}
    \cup (IF putting = f THEN {"source"} ELSE {})

\* A SharedBuffer's count is the number of those that still have it: the data is
\* freed neither while a consumer works on it nor later than the last Release,
\* although consumers release while Put is still handing the buffer out.
CountsAreExact == \A f \in Frame : count[f] = Cardinality(Owners(f))

\* source.go: after RemoveReceiver "it is guaranteed r will not receive any more
\* data".  A closed channel stays empty and Put never comes to it: sending on it
\* would panic.
ClosedIsSilent == \A u \in closed : ch[u] = <<>> /\ u \notin left
============================================================================
