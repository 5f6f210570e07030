-------------------------------- MODULE Stun --------------------------------
(***************************************************************************)
(* STUN messages (internal/ice/stun.go): a message is put together one     *)
(* attribute after the other, with its length kept in step because         *)
(* MESSAGE-INTEGRITY and FINGERPRINT are computed over the bytes written   *)
(* so far; the datagram is then parsed one attribute after the other.      *)
(*                                                                         *)
(* Bytes are numbers.  A digest is 20 bytes, and a checksum 4, that are    *)
(* never looked at; what they were computed over is kept in stunCovered.   *)
(***************************************************************************)
EXTENDS Naturals, Sequences, SequencesExt, Bitwise

CONSTANTS StunOrders     \* the messages that are sent: class, method, transaction
                         \* id, and what is added to them in turn

VARIABLES stunOrder,     \* the message that is sent
          stunStage,     \* "adding", "sent", "parsing", "done", "rejected"
          stunTodo,      \* what remains to be added
          stunMsg,       \* the message put together
          stunCovered,   \* history: attribute type -> bytes it was computed over
          stunData,      \* the datagram
          stunGot,       \* the message parsed from it
          stunLeft,      \* the bytes that remain to be parsed
          stunRead       \* what its handler reads of it

stunVars == <<stunStage, stunTodo, stunMsg, stunCovered, stunData, stunGot, stunLeft, stunRead, stunOrder>>

stunHeaderLength == 20
NoAddress == [port |-> 0, ip |-> <<>>]
stunMagicCookie == <<33, 18, 164, 66>>
stunRequest == 0
stunIndication == 1
stunSuccessResponse == 2
stunErrorResponse == 3
stunBindingMethod == 1
stunAttrMappedAddress == 1
stunAttrUsername == 6
stunAttrMessageIntegrity == 8
stunAttrXorMappedAddress == 32
stunAttrPriority == 36
stunAttrUseCandidate == 37
stunAttrFingerprint == 32808
stunAttrIceControlled == 32809

Zeros(n) == [i \in 1..n |-> 0]
PutUint16(n) == <<(n \div 256) % 256, n % 256>>
Uint16At(b, i) == 256 * b[i] + b[i + 1]
Drop(b, n) == SubSeq(b, n + 1, Len(b))

----------------------------------------------------------------------------
(* Writing.                                                                *)

pad4None(n) == 0                                   \* mutant: nothing is padded
pad4(n) == (4 - (n % 4)) % 4

numBytes(attr) == 4 + attr.Length + pad4(attr.Length)

\* The class is interleaved with the method: bits 4 and 8 of the type.
composeMessageType(class, method) ==
  (class \div 2) * 256 + (class % 2) * 16
    + (method \div 128) * 512 + ((method \div 16) % 8) * 32 + (method % 16)

writeStunHeader(msg) ==
  PutUint16(composeMessageType(msg.class, msg.method)) \o PutUint16(msg.length)
    \o stunMagicCookie \o msg.transactionID

writeStunAttribute(attr) ==
  PutUint16(attr.Type) \o PutUint16(attr.Length) \o attr.Value \o Zeros(pad4(attr.Length))

\* The buffer has the size that the length announces.
Bytes(msg) ==
  LET written == FoldLeft(LAMBDA b, attr : b \o writeStunAttribute(attr),
                          writeStunHeader(msg), msg.attributes)
  IN [i \in 1..(stunHeaderLength + msg.length) |->
        IF i <= Len(written) THEN written[i] ELSE 0]

newStunMessage(class, method, tid) ==
  [length |-> 0, class |-> class, method |-> method, transactionID |-> tid,
   attributes |-> <<>>]

addAttribute(msg, t, v) ==
  LET attr == [Type |-> t, Length |-> Len(v) % 65536, Value |-> v]
  IN [msg EXCEPT !.attributes = Append(@, attr), !.length = (@ + numBytes(attr)) % 65536]

XorBytes(b, with) == [i \in 1..Len(b) |-> b[i] ^^ with[i]]

To4(ip) ==
  IF Len(ip) = 16 /\ SubSeq(ip, 1, 12) = Zeros(10) \o <<255, 255>> THEN Drop(ip, 12) ELSE ip

xorMappedAddress(addr, tid) ==
  LET ip == To4(addr.ip)
  IN <<0, IF Len(ip) = 4 THEN 1 ELSE 2>>
       \o XorBytes(PutUint16(addr.port), stunMagicCookie)
       \o XorBytes(ip, stunMagicCookie \o tid)

PutPriority(p) == PutUint16(p \div 65536) \o PutUint16(p)

\* An attribute whose value is computed over the message before it.  It is added
\* first, so that the length covers it.
CoverEarly(msg, t, size) ==                        \* mutant: computed, then added
  [msg |-> addAttribute(msg, t, Zeros(size)), over |-> Bytes(msg)]
Cover(msg, t, size) ==
  LET added == addAttribute(msg, t, Zeros(size))
      b == Bytes(added)
  IN [msg |-> added, over |-> SubSeq(b, 1, Len(b) - numBytes(Last(added.attributes)))]

\* One element of a plan: an attribute, or one of the two that cover the rest.
Value(msg, item) ==
  CASE item.type = stunAttrXorMappedAddress -> xorMappedAddress(item.value, msg.transactionID)
    [] item.type = stunAttrPriority -> PutPriority(item.value)
    [] OTHER -> item.value

StunInit ==
  \E o \in StunOrders :
    /\ stunOrder = o
    /\ stunMsg = newStunMessage(o.class, o.method, o.tid)
    /\ stunTodo = o.items
    /\ stunStage = "adding" /\ stunCovered = <<>> /\ stunData = <<>>
    /\ stunGot = newStunMessage(0, 0, <<>>) /\ stunLeft = <<>>
    /\ stunRead = [mapped |-> NoAddress, priority |-> 0, useCandidate |-> FALSE]

AddAttribute ==
  LET item == Head(stunTodo) IN
  /\ stunStage = "adding" /\ stunTodo # <<>>
  /\ item.type \notin {stunAttrMessageIntegrity, stunAttrFingerprint}
  /\ stunMsg' = addAttribute(stunMsg, item.type, Value(stunMsg, item))
  /\ stunTodo' = Tail(stunTodo)
  /\ UNCHANGED <<stunStage, stunCovered, stunData, stunGot, stunLeft, stunRead, stunOrder>>

AddCovering(t, size) ==
  LET c == Cover(stunMsg, t, size) IN
  /\ stunStage = "adding" /\ stunTodo # <<>> /\ Head(stunTodo).type = t
  /\ stunMsg' = c.msg
  /\ stunCovered' = Append(stunCovered, [type |-> t, over |-> c.over])
  /\ stunTodo' = Tail(stunTodo)
  /\ UNCHANGED <<stunStage, stunData, stunGot, stunLeft, stunRead, stunOrder>>

AddMessageIntegrity == AddCovering(stunAttrMessageIntegrity, 20)
AddFingerprint == AddCovering(stunAttrFingerprint, 4)

SendStun ==
  /\ stunStage = "adding" /\ stunTodo = <<>>
  /\ stunData' = Bytes(stunMsg) /\ stunStage' = "sent"
  /\ UNCHANGED <<stunTodo, stunMsg, stunCovered, stunGot, stunLeft, stunRead, stunOrder>>

----------------------------------------------------------------------------
(* Parsing.                                                                *)

decomposeClass(t) == ((t \div 256) % 2) * 2 + ((t \div 16) % 2)
decomposeMethod(t) == ((t \div 512) % 32) * 128 + ((t \div 32) % 8) * 16 + (t % 16)

LooksLikeStun(data) ==
  /\ Len(data) >= stunHeaderLength
  /\ Uint16At(data, 1) < 2^14
  /\ Uint16At(data, 3) % 4 = 0
  /\ SubSeq(data, 5, 8) = stunMagicCookie

\* An error ends the process: readLoop calls log.Fatal.
ParseStunHeader ==
  /\ stunStage = "sent"
  /\ IF LooksLikeStun(stunData)
       THEN LET t == Uint16At(stunData, 1) IN
            /\ stunGot' = [newStunMessage(decomposeClass(t), decomposeMethod(t),
                                          SubSeq(stunData, 9, 20))
                            EXCEPT !.length = Uint16At(stunData, 3)]
            /\ stunLeft' = Drop(stunData, stunHeaderLength) /\ stunStage' = "parsing"
       ELSE stunStage' = "rejected" /\ UNCHANGED <<stunGot, stunLeft>>
  /\ UNCHANGED <<stunTodo, stunMsg, stunCovered, stunData, stunRead, stunOrder>>

\* The length of the header is not compared with what there is.
ParseStunAttribute ==
  LET n == Uint16At(stunLeft, 3) IN
  /\ stunStage = "parsing" /\ stunLeft # <<>>
  /\ IF Len(stunLeft) < 4 \/ n > Len(stunLeft) - 4
       THEN stunStage' = "rejected" /\ UNCHANGED <<stunGot, stunLeft>>
       ELSE /\ stunGot' = [stunGot EXCEPT !.attributes = Append(@,
                             [Type |-> Uint16At(stunLeft, 1), Length |-> n,
                              Value |-> SubSeq(stunLeft, 5, 4 + n)])]
            /\ stunLeft' = Drop(stunLeft, 4 + n + pad4(n))
            /\ UNCHANGED stunStage
  /\ UNCHANGED <<stunTodo, stunMsg, stunCovered, stunData, stunRead, stunOrder>>

extractAddr(attr, tid, doXor) ==
  LET n == IF attr.Value[2] = 1 THEN 4 ELSE 16
      port == SubSeq(attr.Value, 3, 4)
      ip == SubSeq(attr.Value, 5, 4 + n)
  IN IF doXor THEN [port |-> Uint16At(XorBytes(port, stunMagicCookie), 1),
                    ip |-> XorBytes(ip, stunMagicCookie \o tid)]
              ELSE [port |-> Uint16At(port, 1), ip |-> ip]

\* The first attribute of one of the types, if there is one.
Attributes(msg, types) == SelectSeq(msg.attributes, LAMBDA a : a.Type \in types)

getMappedAddress(msg) ==
  LET found == Attributes(msg, {stunAttrMappedAddress, stunAttrXorMappedAddress}) IN
  IF found = <<>> THEN NoAddress
  ELSE extractAddr(found[1], msg.transactionID, found[1].Type = stunAttrXorMappedAddress)

getPriority(msg) ==
  LET found == Attributes(msg, {stunAttrPriority}) IN
  IF found = <<>> THEN 0
  ELSE Uint16At(found[1].Value, 1) * 65536 + Uint16At(found[1].Value, 3)

hasUseCandidate(msg) == Attributes(msg, {stunAttrUseCandidate}) # <<>>

\* The message is handed on; its handler reads what it needs of it.
HandleStun ==
  /\ stunStage = "parsing" /\ stunLeft = <<>>
  /\ stunStage' = "done"
  /\ stunRead' = [mapped |-> getMappedAddress(stunGot), priority |-> getPriority(stunGot),
                  useCandidate |-> hasUseCandidate(stunGot)]
  /\ UNCHANGED <<stunTodo, stunMsg, stunCovered, stunData, stunGot, stunLeft, stunOrder>>

StunNext ==
  \/ AddAttribute \/ AddMessageIntegrity \/ AddFingerprint \/ SendStun
  \/ ParseStunHeader \/ ParseStunAttribute \/ HandleStun

----------------------------------------------------------------------------
(* Properties.                                                             *)

\* The items of a plan that add an attribute of this type.
Planned(t) == SelectSeq(stunOrder.items, LAMBDA item : item.type = t)

\* A message that is parsed is the one that was put together, with the length its
\* bytes have, and its handler reads the address, the priority and the nomination
\* that were put into it: for every class and method, and whatever padding the
\* attributes before them need.
StunReadsBack ==
  /\ stunStage # "rejected"
  /\ stunStage = "done" =>
       /\ stunGot = stunMsg
       /\ stunGot.class = stunOrder.class /\ stunGot.method = stunOrder.method
       /\ stunHeaderLength + stunGot.length = Len(stunData)
       /\ \A k \in DOMAIN Planned(stunAttrXorMappedAddress) :
            stunRead.mapped = [port |-> Planned(stunAttrXorMappedAddress)[k].value.port,
                               ip |-> To4(Planned(stunAttrXorMappedAddress)[k].value.ip)]
       /\ \A k \in DOMAIN Planned(stunAttrPriority) :
            stunRead.priority = Planned(stunAttrPriority)[k].value
       /\ stunRead.useCandidate = (Planned(stunAttrUseCandidate) # <<>>)

\* The offset of the k-th attribute of the datagram.
Offset(k) ==
  FoldLeft(LAMBDA n, attr : n + numBytes(attr), stunHeaderLength,
           SubSeq(stunGot.attributes, 1, k - 1))

\* MESSAGE-INTEGRITY and FINGERPRINT cover what the receiver of the datagram
\* computes them over: the bytes before them, with a length that ends with them
\* although other attributes followed (RFC 5389, sections 15.4 and 15.5).
SignaturesVerify ==
  stunStage = "done" =>
    \A k \in DOMAIN stunGot.attributes : \A j \in DOMAIN stunCovered :
      stunGot.attributes[k].Type = stunCovered[j].type =>
        stunCovered[j].over =
          [i \in 1..Offset(k) |->
             IF i \in {3, 4}
               THEN PutUint16(Offset(k + 1) - stunHeaderLength)[i - 2]
               ELSE stunData[i]]
============================================================================
