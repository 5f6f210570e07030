-------------------------------- MODULE Rtcp --------------------------------
(***************************************************************************)
(* Compound RTCP packets (internal/rtp/rtcp.go, avpf.go): writePacket puts *)
(* packets one after the other into a buffer with the packet.Writer, SRTCP *)
(* (srtp.go) encrypts what follows the first eight bytes and appends index *)
(* and tag; readPacket undoes this and reads packet after packet with the  *)
(* packet.Reader, each by its own idea of how long it is.                  *)
(*                                                                         *)
(* The buffer is a sequence of bytes, numbers.  A tag is the bytes that it *)
(* authenticates.  Fields are unsigned, of the widths that a layout lists. *)
(***************************************************************************)
EXTENDS Naturals, Sequences, SequencesExt, FiniteSetsExt, Bitwise

CONSTANTS Compounds,     \* the sequences of packets that are written
          IndexBits,     \* 31, bits of the SRTCP index
          Indices        \* values of the writer's packet count

VARIABLES rtcpStage,     \* "writing", "sent", "reading", "done", "failed", "panicked"
          compound,      \* what is written
          rtcpIndex,     \* the index of the packet
          listening,     \* a handler is registered
          written,       \* number of packets written
          rtcpBuf,       \* bytes written, or to be read
          wire,          \* the SRTCP packet
          rtcpOffset,    \* the reader's offset
          handled,       \* packets given to the handler
          starts         \* history: offset of every packet written

rtcpVars == <<rtcpStage, compound, rtcpIndex, listening, written, rtcpBuf, wire, rtcpOffset, handled,
              starts>>

rtpVersion == 2
rtcpHeaderSize == 4
rtcpReportSize == 24
rtcpSenderReportType == 200
rtcpReceiverReportType == 201
rtcpSourceDescriptionType == 202
rtcpGoodbyeType == 203
rtcpTransportLayerFeedbackType == 205
rtcpPayloadSpecificFeedbackType == 206
fmtNACK == 1
fmtPLI == 1
sdesItemEnd == 0
sdesItemCNAME == 1

----------------------------------------------------------------------------
(* packet.Writer and packet.Reader.                                        *)

Field(n, width) == [i \in 1..width |-> (n \div 256^(width - i)) % 256]

\* The values, written with the widths of the layout.
WriteFields(values, layout) ==
  FlattenSeq([k \in 1..Len(layout) |-> Field(values[k], layout[k])])

UpTo4(n) == 4 * ((n + 3) \div 4)

\* Padded with zeros up to the next multiple of four.
Align(b) == b \o [i \in 1..(UpTo4(Len(b)) - Len(b)) |-> 0]

\* Beyond the buffer a read panics, see Overrun; the value is of no account.
Byte(b, i) == IF i <= Len(b) THEN b[i] ELSE 0
Slice(b, offset, n) == [i \in 1..n |-> Byte(b, offset + i)]

\* The fields that follow an offset.
FieldAt(b, offset, width) ==
  FoldLeft(LAMBDA n, byte : 256 * n + byte, 0, Slice(b, offset, width))

ReadFields(b, offset, layout) ==
  [k \in 1..Len(layout) |->
     FieldAt(b, offset + FoldLeft(LAMBDA n, w : n + w, 0, SubSeq(layout, 1, k - 1)),
             layout[k])]

----------------------------------------------------------------------------
(* Writing.                                                                *)

\* Source, fraction and total of lost packets, last received, jitter, last
\* sender report and its delay.
reportLayout == <<4, 1, 3, 4, 4, 4, 4>>
\* Sender, NTP time in two halves, RTP time, packets, bytes.
senderLayout == <<4, 4, 4, 4, 4, 4>>
nackLayout == <<4, 4, 2, 2>>
pliLayout == <<4, 4>>

writeHeader(type, count, length) ==
  <<rtpVersion * 64 + (count % 32), type>> \o Field(length % 65536, 2)

writeReports(reports) ==
  FlattenSeq([k \in 1..Len(reports) |-> WriteFields(reports[k], reportLayout)])

writeSenderReport(b, p) ==
  b \o writeHeader(p.type, Len(p.reports), (24 + Len(p.reports) * rtcpReportSize) \div 4)
    \o WriteFields(p.fields, senderLayout) \o writeReports(p.reports)

writeReceiverReport(b, p) ==
  b \o writeHeader(p.type, Len(p.reports), (4 + Len(p.reports) * rtcpReportSize) \div 4)
    \o Field(p.ssrc, 4) \o writeReports(p.reports)

\* Sizes of the items: CNAME, and the end of the items.
sdesSizeNoEnd(cname) == 2 + Len(cname)             \* mutant: the end is not counted
sdesSize(cname) == 2 + Len(cname) + 1

writeSourceDescription(b, p) ==
  Align(b \o writeHeader(p.type, 1, 1 + ((sdesSize(p.cname) + 3) \div 4))
          \o Field(p.ssrc, 4) \o <<sdesItemCNAME, Len(p.cname) % 256>> \o p.cname
          \o <<sdesItemEnd>>)

writeGoodbye(b, p) ==
  LET head == b \o writeHeader(p.type, 1, 1 + ((Len(p.reason) + 3) \div 4)) \o Field(p.ssrc, 4)
  IN IF p.reason = <<>> THEN head
     ELSE Align(head \o <<Len(p.reason) % 256>> \o p.reason)

\* The mask of the packets lost after the first, whose numbers have 16 bits.
setLostPackets(lost) ==
  LET pid == Head(lost)
      bits == {(seq + 65536 - pid - 1) % 65536 : seq \in ToSet(Tail(lost))}
  IN [pid |-> pid, blp |-> MapThenSumSet(LAMBDA bit : 2^bit, bits)]

writeNACK(b, p) ==
  LET n == setLostPackets(p.lost)
  IN b \o writeHeader(p.type, fmtNACK, 3) \o WriteFields(<<p.ssrc, p.source, n.pid, n.blp>>, nackLayout)

writePLI(b, p) ==
  b \o writeHeader(p.type, fmtPLI, 2) \o WriteFields(<<p.ssrc, p.source>>, pliLayout)

\* The same with another item before, from another implementation.
writeItems(b, p) ==
  Align(b \o writeHeader(p.type, 1, 1 + ((2 + Len(p.tool) + sdesSize(p.cname) + 3) \div 4))
          \o Field(p.ssrc, 4) \o <<6, Len(p.tool)>> \o p.tool
          \o <<sdesItemCNAME, Len(p.cname)>> \o p.cname \o <<sdesItemEnd>>)

\* A packet of a type that readPacket does not know, from another implementation.
writeOther(b, p) == b \o writeHeader(p.type, p.count, p.words) \o [i \in 1..(4 * p.words) |-> 1]

Known(p) == "words" \notin DOMAIN p

writeTo(b, p) ==
  CASE p.type = rtcpSenderReportType -> writeSenderReport(b, p)
    [] p.type = rtcpReceiverReportType -> writeReceiverReport(b, p)
    [] p.type = rtcpSourceDescriptionType /\ "tool" \in DOMAIN p -> writeItems(b, p)
    [] p.type = rtcpSourceDescriptionType /\ "tool" \notin DOMAIN p -> writeSourceDescription(b, p)
    [] p.type = rtcpGoodbyeType -> writeGoodbye(b, p)
    [] p.type = rtcpTransportLayerFeedbackType /\ Known(p) -> writeNACK(b, p)
    [] p.type = rtcpPayloadSpecificFeedbackType /\ Known(p) -> writePLI(b, p)
    [] OTHER -> writeOther(b, p)

RtcpInit ==
  /\ compound \in Compounds /\ rtcpIndex \in Indices /\ listening \in BOOLEAN
  /\ rtcpStage = "writing" /\ written = 0 /\ rtcpBuf = <<>> /\ wire = <<>>
  /\ rtcpOffset = 0 /\ handled = <<>> /\ starts = <<>>

\* One packet of writePacket.
WriteRTCP ==
  /\ rtcpStage = "writing" /\ written < Len(compound)
  /\ rtcpBuf' = writeTo(rtcpBuf, compound[written + 1])
  /\ written' = written + 1 /\ starts' = Append(starts, Len(rtcpBuf))
  /\ UNCHANGED <<rtcpStage, compound, rtcpIndex, listening, wire, rtcpOffset, handled>>

\* What encrypts byte i of the packet with this index, a stand-in for the cipher.
Keystream(index, i) == (37 * i + 101 * index + 90) % 256

\* All but the header and the SSRC of the first packet; twice is the identity.
Crypt(b, index) == [i \in 1..Len(b) |-> IF i <= 8 THEN b[i] ELSE b[i] ^^ Keystream(index, i)]

eFlag == 2^IndexBits

encryptAndSignRTCP ==
  LET body == Crypt(rtcpBuf, rtcpIndex % 2^IndexBits)
      index == eFlag + (rtcpIndex % 2^IndexBits)
  IN /\ rtcpStage = "writing" /\ written = Len(compound)
     /\ wire' = [body |-> body, index |-> index, tag |-> <<body, index>>]
     /\ rtcpStage' = "sent" /\ rtcpBuf' = <<>>
     /\ UNCHANGED <<compound, rtcpIndex, listening, written, rtcpOffset, handled, starts>>

----------------------------------------------------------------------------
(* Reading.                                                                *)

verifyAndDecryptRTCP ==
  /\ rtcpStage = "sent" /\ wire.tag = <<wire.body, wire.index>> /\ wire.index >= eFlag
  /\ rtcpBuf' = Crypt(wire.body, wire.index - eFlag)
  /\ rtcpStage' = "reading"
  /\ UNCHANGED <<compound, rtcpIndex, listening, written, wire, rtcpOffset, handled, starts>>

\* The header at the offset of the reader.
header ==
  [version |-> rtcpBuf[rtcpOffset + 1] \div 64, count |-> rtcpBuf[rtcpOffset + 1] % 32,
   type |-> Byte(rtcpBuf, rtcpOffset + 2), length |-> FieldAt(rtcpBuf, rtcpOffset + 2, 2)]

readReports(offset, n) ==
  [k \in 1..n |-> ReadFields(rtcpBuf, offset + (k - 1) * rtcpReportSize, reportLayout)]

readSenderReport(at) ==
  [ok |-> 4 * header.length = 24 + header.count * rtcpReportSize,
   packet |-> [type |-> header.type, fields |-> ReadFields(rtcpBuf, at, senderLayout),
               reports |-> readReports(at + 24, header.count)],
   next |-> at + 24 + header.count * rtcpReportSize]

readReceiverReport(at) ==
  [ok |-> 4 * header.length = 4 + header.count * rtcpReportSize,
   packet |-> [type |-> header.type, ssrc |-> FieldAt(rtcpBuf, at, 4),
               reports |-> readReports(at + 4, header.count)],
   next |-> at + 4 + header.count * rtcpReportSize]

AlignNot(n) == n                                   \* mutant: the padding is not skipped
AlignReader(n) == UpTo4(n)

\* The items from an offset to the end item, whose padding is skipped by the offset
\* in the whole buffer: the texts that are canonical names, and where they end.
sdesItems[at \in Nat] ==
     LET n == Byte(rtcpBuf, at + 2)
     IN IF at >= Len(rtcpBuf) THEN [cnames |-> <<>>, next |-> at]
        ELSE IF rtcpBuf[at + 1] = sdesItemEnd THEN [cnames |-> <<>>, next |-> AlignReader(at + 1)]
        ELSE LET rest == sdesItems[at + 2 + n]
             IN [rest EXCEPT !.cnames = IF rtcpBuf[at + 1] = sdesItemCNAME
                                          THEN <<Slice(rtcpBuf, at + 2, n)>> \o @ ELSE @]

readSourceDescription(at) ==
  LET items == sdesItems[at + 4] IN
  [ok |-> header.count = 1 /\ header.length >= 1,
   packet |-> [type |-> header.type, ssrc |-> FieldAt(rtcpBuf, at, 4),
               cname |-> IF items.cnames = <<>> THEN <<>> ELSE Last(items.cnames)],
   next |-> items.next]

\* The reason is left unread.
readGoodbye(at) ==
  [ok |-> Len(rtcpBuf) - at >= 4,
   packet |-> [type |-> header.type, ssrc |-> FieldAt(rtcpBuf, at, 4)], next |-> at + 4]

getLostPackets(pid, blp) ==
  <<pid>> \o SelectSeq([i \in 1..16 |-> (pid + i) % 65536],
                       LAMBDA seq : (blp \div 2^((seq + 65536 - pid - 1) % 65536)) % 2 = 1)

readNACK(at) ==
  LET f == ReadFields(rtcpBuf, at, nackLayout) IN
  [ok |-> header.length = 3,
   packet |-> [type |-> header.type, ssrc |-> f[1], source |-> f[2],
               lost |-> getLostPackets(f[3], f[4])],
   next |-> at + 12]

readPLI(at) ==
  LET f == ReadFields(rtcpBuf, at, pliLayout) IN
  [ok |-> header.length = 2,
   packet |-> [type |-> header.type, ssrc |-> f[1], source |-> f[2]], next |-> at + 8]

\* A type that is known, and of feedback a format that is.
Implemented ==
  \/ header.type \in rtcpSenderReportType..rtcpGoodbyeType
  \/ header.type = rtcpTransportLayerFeedbackType /\ header.count = fmtNACK
  \/ header.type = rtcpPayloadSpecificFeedbackType /\ header.count = fmtPLI

readFrom(at) ==
  CASE header.type = rtcpSenderReportType -> readSenderReport(at)
    [] header.type = rtcpReceiverReportType -> readReceiverReport(at)
    [] header.type = rtcpSourceDescriptionType -> readSourceDescription(at)
    [] header.type = rtcpGoodbyeType -> readGoodbye(at)
    [] header.type = rtcpTransportLayerFeedbackType -> readNACK(at)
    [] header.type = rtcpPayloadSpecificFeedbackType -> readPLI(at)

\* The packet ends beyond the buffer: Read panics.
Overrun(next) == next > Len(rtcpBuf)

BadVersion ==
  /\ rtcpStage = "reading" /\ rtcpOffset < Len(rtcpBuf) /\ header.version # rtpVersion
  /\ rtcpStage' = "failed"
  /\ UNCHANGED <<compound, rtcpIndex, listening, written, rtcpBuf, wire, rtcpOffset, handled, starts>>

SkipRTCP ==
  /\ rtcpStage = "reading" /\ rtcpOffset < Len(rtcpBuf) /\ header.version = rtpVersion
  /\ ~Implemented
  /\ rtcpOffset' = rtcpOffset + rtcpHeaderSize + 4 * header.length
  /\ rtcpStage' = IF Overrun(rtcpOffset + rtcpHeaderSize) THEN "panicked" ELSE "reading"
  /\ UNCHANGED <<compound, rtcpIndex, listening, written, rtcpBuf, wire, handled, starts>>

\* Without a handler the first packet is the last.
ReadRTCP ==
  LET r == readFrom(rtcpOffset + rtcpHeaderSize) IN
  /\ rtcpStage = "reading" /\ rtcpOffset < Len(rtcpBuf) /\ header.version = rtpVersion
  /\ Implemented
  /\ rtcpStage' = IF Overrun(rtcpOffset + rtcpHeaderSize) THEN "panicked"
                  ELSE IF ~r.ok THEN "failed"
                  ELSE IF Overrun(r.next) THEN "panicked"
                  ELSE IF listening THEN "reading" ELSE "done"
  /\ IF r.ok /\ ~Overrun(r.next) /\ listening THEN rtcpOffset' = r.next /\ handled' = Append(handled, r.packet)
                          ELSE UNCHANGED <<rtcpOffset, handled>>
  /\ UNCHANGED <<compound, rtcpIndex, listening, written, rtcpBuf, wire, starts>>

ReadRTCPEnds ==
  /\ rtcpStage = "reading" /\ rtcpOffset >= Len(rtcpBuf)
  /\ rtcpStage' = "done"
  /\ UNCHANGED <<compound, rtcpIndex, listening, written, rtcpBuf, wire, rtcpOffset, handled, starts>>

RtcpNext ==
  \/ WriteRTCP \/ encryptAndSignRTCP \/ verifyAndDecryptRTCP
  \/ BadVersion \/ SkipRTCP \/ ReadRTCP \/ ReadRTCPEnds

----------------------------------------------------------------------------
(* Properties.                                                             *)

\* What the handler is given for a packet: a goodbye without its reason, a source
\* description without other items.
AsHandled(p) ==
  CASE p.type = rtcpGoodbyeType -> [type |-> p.type, ssrc |-> p.ssrc]
    [] p.type = rtcpSourceDescriptionType -> [type |-> p.type, ssrc |-> p.ssrc, cname |-> p.cname]
    [] OTHER -> p

\* What it is given for the first k packets.
Expected(k) ==
  LET known == SelectSeq(SubSeq(compound, 1, k), Known)
  IN [i \in 1..Len(known) |-> AsHandled(known[i])]

HasReason(p) == p.type = rtcpGoodbyeType /\ p.reason # <<>>

\* Reader and writer stay in step over the packets of a compound packet: the
\* handler is given the packets that were written, in their order, whatever
\* lengths, paddings and unknown packets come before, and all of them unless a
\* goodbye gave a reason.  That goodbye is still handled; its reason is then taken
\* for a header and what follows is lost.
CompoundInStep ==
  listening =>
    /\ rtcpStage # "panicked"
    /\ IsPrefix(handled, Expected(Len(compound)))
    /\ rtcpStage = "done" => handled = Expected(Len(compound))
    /\ rtcpStage = "failed" =>
         \E k \in 1..Len(compound) : HasReason(compound[k]) /\ handled = Expected(k)

\* The length in a header is that of the packet, by which a receiver that does not
\* know the packet skips it; for the only reason the code gives, "stream closed".
LengthsAreTrue ==
  rtcpStage = "writing" =>
    \A k \in 1..written :
      LET end == IF k < written THEN starts[k + 1] ELSE Len(rtcpBuf)
      IN 4 * (FieldAt(rtcpBuf, starts[k] + 2, 2) + 1) = end - starts[k]
============================================================================
