-------------------------------- MODULE Sdp --------------------------------
(***************************************************************************)
(* Session descriptions (internal/sdp/sdp.go) and the answer to an offer   *)
(* (peer_connection.go): ParseSession and parseMedia read the text of the  *)
(* offer line by line, createAnswer goes through its attributes, String    *)
(* writes the answer, and the peer reads that with the same functions.     *)
(*                                                                         *)
(* A text is a sequence of lines with a type letter (t) and a value (v);   *)
(* ok says that the value has the words and numbers its type calls for,    *)
(* and "?" is the type of a line that is not of the form x=...             *)
(* The value of an a= line is the sequence of its parts between colons: a  *)
(* key, and parts that are a number and words (pt is -1 without a number). *)
(***************************************************************************)
EXTENDS Integers, Sequences, SequencesExt, FiniteSetsExt

CONSTANTS SdpOffers,         \* texts
          H264,              \* "H264/90000"
          Mode1, Profile42,  \* words that contain the two format parameters
          Ufrags, Passwords, \* random credentials of the media sections
          NtpOffset          \* 2208988800, of NTP to Unix time

Optional == <<"i", "u", "e", "p">>

NoMedia == [type |-> "", port |-> 0, proto |-> "", format |-> <<>>, i |-> "", c |-> <<>>,
            attributes |-> <<>>]

\* The empty session: a function of the letters of its lines.
NoSession == [v |-> 0, o |-> <<>>, s |-> "", i |-> "", u |-> "", e |-> "", p |-> "",
              c |-> <<>>, t |-> <<>>, attributes |-> <<>>, media |-> <<>>]

VARIABLES sdpStage,          \* "offer", "answering", "answer", "streaming", "done", "refused", "panicked"
          sdpText,           \* lines that remain to be parsed
          sdpParsed,         \* the session parsed so far
          remoteDescription, localDescription,
          dynamicType,       \* payload type of the RTP packets
          credentials,       \* of the agent: mid, username, passwords
          sdpStream          \* payload type, and SSRC and CNAME of both ends

sdpVars == <<sdpStage, sdpText, sdpParsed, remoteDescription, localDescription, dynamicType,
             credentials, sdpStream>>

----------------------------------------------------------------------------
(* Writing.                                                                *)

Line(type, value) == [t |-> type, v |-> value, ok |-> TRUE]

\* An absent time is written as zero.
toNtp(time) == IF time = -1 THEN 0 ELSE time + NtpOffset
fromNtp(ntp) == IF ntp = 0 THEN -1 ELSE ntp - NtpOffset

\* Without a value there is no colon.
AttributeString(a) == Line("a", <<a.key>> \o a.value)

AttributeLines(attributes) ==
  [k \in 1..Len(attributes) |-> AttributeString(attributes[k])]

If(cond, line) == IF cond THEN <<line>> ELSE <<>>

MediaString(m) ==
  <<Line("m", <<m.type, m.port, m.proto>> \o m.format)>>
    \o If(m.i # "", Line("i", m.i)) \o If(m.c # <<>>, Line("c", m.c))
    \o AttributeLines(m.attributes)

SessionString(s) ==
  <<Line("v", s.v), Line("o", s.o), Line("s", s.s)>>
    \o FlattenSeq([k \in 1..Len(Optional) |-> If(s[Optional[k]] # "", Line(Optional[k], s[Optional[k]]))])
    \o If(s.c # <<>>, Line("c", s.c))
    \o [k \in 1..Len(s.t) |-> Line("t", <<toNtp(s.t[k][1]), toNtp(s.t[k][2])>>)]
    \o AttributeLines(s.attributes)
    \o FlattenSeq([k \in 1..Len(s.media) |-> MediaString(s.media[k])])

----------------------------------------------------------------------------
(* Parsing.                                                                *)

Part(pt, words) == [pt |-> pt, words |-> words]
Plain(text) == <<Part(-1, <<text>>)>>

\* Split at the first colon; what follows may have more of them, or be empty.
parseAttribute(parts) ==
  [key |-> Head(parts), value |-> IF Tail(parts) = Plain("") THEN <<>> ELSE Tail(parts)]

parseMediaLine(v) ==
  [NoMedia EXCEPT !.type = v[1], !.port = v[2], !.proto = v[3], !.format = SubSeq(v, 4, Len(v))]

\* What a line adds to the media section it is in; other lines are ignored.
IntoMedia(m, line) ==
  CASE line.t = "i" -> [m EXCEPT !.i = line.v]
    [] line.t = "c" -> [m EXCEPT !.c = line.v]
    [] line.t = "a" -> [m EXCEPT !.attributes = Append(@, parseAttribute(line.v))]
    [] OTHER -> m

IntoSession(s, line) ==
  CASE line.t \in {"v", "o", "s", "i", "u", "e", "p", "c"} -> [s EXCEPT ![line.t] = line.v]
    [] line.t = "t" -> [s EXCEPT !.t = Append(@, <<fromNtp(line.v[1]), fromNtp(line.v[2])>>)]
    [] line.t = "a" -> [s EXCEPT !.attributes = Append(@, parseAttribute(line.v))]
    [] OTHER -> s

ReadLine(s, line) ==
  IF line.t = "m" THEN [s EXCEPT !.media = Append(@, parseMediaLine(line.v))]
  ELSE IF s.media = <<>> THEN IntoSession(s, line)
  ELSE [s EXCEPT !.media[Len(s.media)] = IntoMedia(@, line)]

\* The lines that end the parsing with an error.  The error for the port of a
\* media line is overwritten by that of the line after it.
Refused(s, line, more) ==
  \/ line.t = "?"
  \/ ~line.ok /\ line.t = "c"
  \/ ~line.ok /\ line.t \in {"v", "o", "t"} /\ s.media = <<>>
  \/ line.t = "m" /\ (Len(line.v) < 3 \/ (~line.ok /\ more = <<>>))

ParseLine ==
  /\ sdpStage \in {"offer", "answer"} /\ sdpText # <<>>
  /\ sdpText' = Tail(sdpText)
  /\ IF Refused(sdpParsed, Head(sdpText), Tail(sdpText))
       THEN sdpStage' = "refused" /\ UNCHANGED sdpParsed
       ELSE sdpParsed' = ReadLine(sdpParsed, Head(sdpText)) /\ UNCHANGED sdpStage
  /\ UNCHANGED <<remoteDescription, localDescription, dynamicType, credentials, sdpStream>>

----------------------------------------------------------------------------
(* The answer.                                                             *)

GetAttrs(m, key) == SelectSeq(m.attributes, LAMBDA a : a.key = key)

GetAttr(m, key) == IF GetAttrs(m, key) = <<>> THEN <<>> ELSE GetAttrs(m, key)[1].value

Attr(key, value) == [key |-> key, value |-> value]

\* The number and the first word of a value.
PayloadType(value) == IF value = <<>> THEN -1 ELSE value[1].pt
Text(value) == IF value[1].words = <<>> THEN "" ELSE value[1].words[1]

NoPayload == [nack |-> FALSE, fmtp |-> "", codec |-> "", reject |-> FALSE]

\* One attribute, binned by its payload type.
BinAttribute(bins, a) ==
  LET pt == PayloadType(a.value)
      text == Text(a.value)
      bin == IF pt \in DOMAIN bins THEN bins[pt] ELSE NoPayload
      new == CASE a.key = "rtpmap" -> [bin EXCEPT !.codec = IF text = H264 THEN text ELSE @]
               [] a.key = "rtcp-fb" -> [bin EXCEPT !.nack = @ \/ text = "nack"]
               [] a.key = "fmtp" ->
                    [bin EXCEPT !.fmtp = text,
                                !.reject = @ \/ text \notin Mode1 \/ text \notin Profile42]
  IN IF a.key \notin {"fmtp", "rtcp-fb", "rtpmap"} THEN bins
     ELSE IF pt < 0 THEN bins
     ELSE [x \in DOMAIN bins \cup {pt} |-> IF x = pt THEN new ELSE bins[x]]

supportedPayloadTypes(m) == FoldLeft(BinAttribute, [x \in {} |-> NoPayload], m.attributes)

AcceptedAny(bin) == bin.codec = H264 /\ bin.fmtp # "" \* mutant: reject is not looked at
Accepted(bin) == bin.codec = H264 /\ bin.fmtp # "" /\ ~bin.reject

PayloadAttributes(bins, pt) ==
  <<Attr("rtpmap", <<Part(pt, <<bins[pt].codec>>)>>)>>
    \o If(bins[pt].nack, Attr("rtcp-fb", <<Part(pt, <<"nack">>)>>))
    \o <<Attr("fmtp", <<Part(pt, <<bins[pt].fmtp>>)>>)>>

ssrc == 2541   \* 2541098696
SsrcKeys == <<"cname", "msid", "mslabel", "label">>

\* The payload types in `order`, which is that of a Go map.
AnswerMedia(m, order, k) ==
  LET bins == supportedPayloadTypes(m) IN
  [type |-> "video", port |-> 9, proto |-> "UDP/TLS/RTP/SAVPF", format |-> order, i |-> "",
   c |-> <<"IN", "IP4", "0.0.0.0">>,
   attributes |->
     <<Attr("mid", GetAttr(m, "mid")), Attr("rtcp", Plain("9 IN IP4 0.0.0.0")),
       Attr("ice-ufrag", Plain(Ufrags[k])), Attr("ice-pwd", Plain(Passwords[k])),
       Attr("ice-options", Plain("trickle")), Attr("ice-options", Plain("ice2")),
       Attr("fingerprint", Plain("sha-256 05") \o Plain("67")), Attr("setup", Plain("active")),
       Attr("sendonly", <<>>), Attr("rtcp-mux", <<>>), Attr("rtcp-rsize", <<>>)>>
     \o FlattenSeq([j \in 1..Len(order) |-> PayloadAttributes(bins, order[j])])
     \o [j \in 1..4 |-> Attr("ssrc", <<Part(ssrc, <<SsrcKeys[j]>>)>> \o Plain("text"))]]

AcceptedTypes(m) ==
  LET bins == supportedPayloadTypes(m) IN {pt \in DOMAIN bins : Accepted(bins[pt])}

\* SetRemoteDescription: the answer, with some order for every media section, and
\* the credentials of the first one.
CreateAnswer ==
  LET offer == sdpParsed
      n == Len(offer.media)
  IN /\ sdpStage = "offer" /\ sdpText = <<>>
     /\ remoteDescription' = offer
     /\ \E orders \in [1..n -> UNION {SetToSeqs(AcceptedTypes(offer.media[k])) : k \in 1..n}] :
          LET answer == [NoSession EXCEPT
                           !.o = <<"lanikai", "1", "2", "IN", "IP4", "127.0.0.1">>, !.s = "-",
                           !.t = <<<<-1, -1>>>>,
                           !.attributes = <<Attr("group", GetAttr(offer, "group"))>>,
                           !.media = [k \in 1..n |-> AnswerMedia(offer.media[k], orders[k], k)]]
              last == FlattenSeq(orders)
          IN /\ \A k \in 1..n : orders[k] \in SetToSeqs(AcceptedTypes(offer.media[k]))
             /\ localDescription' = answer
             /\ dynamicType' = IF last = <<>> THEN dynamicType ELSE Last(last) % 256
             /\ IF n = 0 THEN sdpStage' = "panicked" /\ UNCHANGED credentials
                ELSE /\ sdpStage' = "answering"
                     /\ credentials' = [mid |-> GetAttr(offer.media[1], "mid"),
                          username |-> <<GetAttr(offer.media[1], "ice-ufrag"),
                                         GetAttr(answer.media[1], "ice-ufrag")>>,
                          local |-> GetAttr(answer.media[1], "ice-pwd"),
                          remote |-> GetAttr(offer.media[1], "ice-pwd")]
     /\ UNCHANGED <<sdpText, sdpParsed, sdpStream>>

WriteAnswer ==
  /\ sdpStage = "answering"
  /\ sdpStage' = "answer" /\ sdpText' = SessionString(localDescription) /\ sdpParsed' = NoSession
  /\ UNCHANGED <<remoteDescription, localDescription, dynamicType, credentials, sdpStream>>

\* The SSRC attribute of the first video section, if there is one.
VideoSSRC(s) ==
  LET videos == SelectSeq(s.media, LAMBDA m : m.type = "video")
  IN IF videos = <<>> THEN <<>> ELSE GetAttr(videos[1], "ssrc")

StartStream ==
  /\ sdpStage = "answer" /\ sdpText = <<>>
  /\ sdpStage' = "done"
  /\ sdpStream' = [payloadType |-> dynamicType, ssrc |-> VideoSSRC(localDescription),
                   remote |-> VideoSSRC(remoteDescription)]
  /\ UNCHANGED <<sdpText, sdpParsed, remoteDescription, localDescription, dynamicType, credentials>>

SdpInit ==
  /\ sdpText \in SdpOffers
  /\ sdpStage = "offer" /\ sdpParsed = NoSession
  /\ remoteDescription = NoSession /\ localDescription = NoSession /\ dynamicType = 0
  /\ credentials = <<>> /\ sdpStream = <<>>

SdpNext == ParseLine \/ CreateAnswer \/ WriteAnswer \/ StartStream

----------------------------------------------------------------------------
(* Properties.                                                             *)

\* The attributes of a section for a payload type.
For(m, key, pt) == SelectSeq(m.attributes, LAMBDA a : a.key = key /\ PayloadType(a.value) = pt)

\* H.264 with format parameters, every one of which suits SendVideo.
Suits(m, pt) ==
  /\ \E k \in DOMAIN For(m, "rtpmap", pt) : Text(For(m, "rtpmap", pt)[k].value) = H264
  /\ For(m, "fmtp", pt) # <<>>
  /\ \A k \in DOMAIN For(m, "fmtp", pt) :
       Text(For(m, "fmtp", pt)[k].value) \in Mode1 \cap Profile42

\* The peer that parses the text of the answer gets the answer: sections are not
\* run together, attributes stay in their sections and in their order, and values
\* with colons or without a value survive.  And it agrees with what the peer offered
\* and with what the connection then does: one section per section offered, with its mid, that lists
\* the payload types that suit, in whatever order the attributes came; the stream
\* is sent with a payload type and an SSRC that the answer announces, if it
\* announces any; and the agent uses the credentials of the first sections.
AnswerFitsOffer ==
  sdpStage = "done" =>
    /\ sdpParsed = localDescription
    /\ Len(sdpParsed.media) = Len(remoteDescription.media)
    /\ \A k \in DOMAIN sdpParsed.media :
         LET offered == remoteDescription.media[k] IN
         /\ GetAttr(sdpParsed.media[k], "mid") = GetAttr(offered, "mid")
         /\ \A pt \in 0..127 : pt \in ToSet(sdpParsed.media[k].format) <=> Suits(offered, pt)
         /\ IsInjective(sdpParsed.media[k].format)
    /\ LET announced == UNION {ToSet(sdpParsed.media[k].format) : k \in DOMAIN sdpParsed.media}
       IN announced # {} => sdpStream.payloadType \in announced
    /\ \E k \in DOMAIN sdpParsed.media :
         sdpStream.ssrc \in {a.value : a \in ToSet(GetAttrs(sdpParsed.media[k], "ssrc"))}
    /\ credentials.username = <<GetAttr(remoteDescription.media[1], "ice-ufrag"),
                                GetAttr(sdpParsed.media[1], "ice-ufrag")>>
    /\ credentials.local = GetAttr(sdpParsed.media[1], "ice-pwd")
============================================================================
