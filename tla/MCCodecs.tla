------------------------------ MODULE MCCodecs ------------------------------
(***************************************************************************)
(* Instances of the encodings for TLC: every kind of message that the code *)
(* sends or is sent, with the values at which a layout could go wrong.     *)
(***************************************************************************)
EXTENDS Codecs

Tids == {[i \in 1..12 |-> i], [i \in 1..12 |-> 256 - i]}

Item(t, v) == [type |-> t, value |-> v]
Integrity == Item(stunAttrMessageIntegrity, <<>>)
Fingerprint == Item(stunAttrFingerprint, <<>>)
Username(n) == Item(stunAttrUsername, [i \in 1..n |-> 96 + i])
Controlled == Item(stunAttrIceControlled, [i \in 1..8 |-> 31 * i])
Nominate == Item(stunAttrUseCandidate, <<>>)

Ips == {<<192, 168, 1, 20>>, Zeros(10) \o <<255, 255, 10, 0, 0, 255>>,
        <<254, 128>> \o Zeros(12) \o <<18, 52>>}

\* The messages of checklist.go and base.go, and a controlling peer's request.
BindingItems ==
  {<<>>, <<Fingerprint>>}
    \cup {<<Username(n), Controlled, Item(stunAttrPriority, p), Integrity, Fingerprint>> :
            n \in 0..5, p \in {0, 1862270975}}
    \cup {<<Username(n), Nominate, Item(stunAttrPriority, p), Integrity, Fingerprint>> :
            n \in {3, 9}, p \in {1, 1862270975}}
    \cup {<<Item(stunAttrXorMappedAddress, [ip |-> a, port |-> p]), Controlled, Integrity, Fingerprint>> :
            a \in Ips, p \in {0, 8466, 65535}}

MCStunOrders ==
  {[class |-> c, method |-> 1, tid |-> tid, items |-> items] :
     c \in {stunRequest, stunIndication, stunSuccessResponse}, tid \in Tids, items \in BindingItems}
    \cup {[class |-> c, method |-> m, tid |-> tid, items |-> <<>>] :
            c \in 0..3, m \in {0, 1, 15, 16, 127, 128, 2048, 4095}, tid \in Tids}

Report(n) == <<n, 7, 65536 + n, 255, 256, 65535, 1>>
Rr(n) == [type |-> 201, ssrc |-> 9, reports |-> [k \in 1..n |-> Report(k)]]
Sr(n) == [type |-> 200, fields |-> <<9, 257, 2, 65537, 4, 1234567>>,
          reports |-> [k \in 1..n |-> Report(k)]]
Sdes(n) == [type |-> 202, ssrc |-> 9, cname |-> [k \in 1..n |-> 96 + k]]
SdesTool(k, n) == [type |-> 202, ssrc |-> 9, tool |-> [i \in 1..k |-> 64 + i],
                   cname |-> [i \in 1..n |-> 96 + i]]
Bye(n) == [type |-> 203, ssrc |-> 9, reason |-> [k \in 1..n |-> 96 + k]]
Nack(lost) == [type |-> 205, ssrc |-> 9, source |-> 8, lost |-> lost]
Pli == [type |-> 206, ssrc |-> 9, source |-> 8]
Other(t, c, words) == [type |-> t, count |-> c, words |-> words]

\* The reason that Close gives, "stream closed", has 13 bytes.
Packets ==
  {Rr(0), Rr(1), Sr(0), Sr(2), Bye(0), Bye(13), Pli} \cup {Sdes(n) : n \in 0..4}
    \cup {SdesTool(k, 2) : k \in {0, 3}}
    \cup {Nack(lost) : lost \in {<<5>>, <<65535, 0, 15>>, <<65530, 65535, 10>>}}
    \cup {Other(204, 2, 2), Other(206, 15, 3), Other(205, 15, 0)}

MCCompounds ==
  {<<p>> : p \in Packets} \cup {<<p, q>> : p, q \in Packets}
    \cup {<<r, d, p>> : r \in {Rr(0), Sr(0)}, d \in {Sdes(3), Sdes(4)}, p \in Packets}

\* The count of the packets that are written, up to where the index wraps.
MCIndices == {0, 7, 8}

\* Offers: a session with one or two sections, in the lines of a browser and with
\* lines that are ignored, left out or malformed.
A(key, text) == Line("a", <<key>> \o Plain(text))

Head0 == <<Line("v", 0), Line("o", <<"-", "4", "2", "IN", "IP4", "127.0.0.1">>), Line("s", "-"),
           Line("t", <<0, 0>>), A("group", "BUNDLE 0 1")>>
HeadAll == <<Line("v", 0), Line("o", <<"-", "4", "2", "IN", "IP4", "127.0.0.1">>), Line("s", "-"),
             Line("i", "talk"), Line("u", "http"), Line("e", "me"), Line("p", "1"),
             Line("c", <<"IN", "IP4", "10.0.0.1">>), Line("b", "AS"),
             Line("t", <<12, 0>>), Line("t", <<15, 30>>)>>

Bad(line) == [line EXCEPT !.ok = FALSE]

Pt(key, pt, words) == Line("a", <<key, Part(pt, words)>>)

VideoLines ==
  {Pt("rtpmap", 96, <<"H264/90000">>), Pt("rtpmap", 97, <<"VP8/90000">>),
   Pt("rtpmap", 97, <<"H264/90000">>), Pt("fmtp", 96, <<"mode1;42">>),
   Pt("fmtp", 97, <<"mode1;42">>), Pt("fmtp", 96, <<"mode0;42">>),
   Pt("fmtp", 97, <<"mode1;64">>), Pt("rtcp-fb", 96, <<"nack">>)}

OddLines == {Pt("fmtp", 96, <<>>), Pt("rtcp-fb", -1, <<"nack">>), Pt("rtcp-fb", 97, <<"ccm", "fir">>),
             Line("a", <<"fmtp">>), A("fmtp", ""), Line("b", "AS"), Line("i", "cam"),
             Line("t", <<1, 1>>), Bad(Line("v", 0))}

MLine(type, pts) == Line("m", <<type, 9, "UDP/TLS/RTP/SAVPF">> \o pts)

Section(mid, lines) ==
  <<MLine("video", <<96, 97>>), Line("c", <<"IN", "IP4", "0.0.0.0">>), A("ice-ufrag", "ru"),
    A("ice-pwd", "rp"), A("mid", mid), Line("a", <<"sendrecv">>)>> \o lines

Audio == <<MLine("audio", <<111>>), A("mid", "a"), Pt("rtpmap", 111, <<"opus/48000">>)>>

Good == <<Pt("rtpmap", 96, <<"H264/90000">>), Pt("fmtp", 96, <<"mode1;42">>),
          Pt("rtpmap", 97, <<"H264/90000">>), Pt("fmtp", 97, <<"mode1;42">>),
          Pt("rtcp-fb", 97, <<"nack">>)>>

Lines3 == {<<a, b, c>> : a, b, c \in VideoLines}

MCSdpOffers ==
  {Head0 \o Section("0", lines) : lines \in Lines3}
    \cup {Head0 \o Section("0", SubSeq(Good, 1, k) \o <<odd>> \o SubSeq(Good, k + 1, 5)) :
            k \in 0..5, odd \in OddLines \cup VideoLines}
    \cup {HeadAll \o a \o b : a, b \in {<<>>, Audio, Section("0", Good), Section("1", SubSeq(Good, 1, 2))}}
    \cup {<<odd>> \o Head0 \o Audio :
            odd \in {Bad(Line("v", 0)), Bad(Line("o", <<>>)), Bad(Line("t", <<>>)), Bad(Line("c", <<>>))}}
    \cup {Head0 \o Audio \o <<odd>> : odd \in {Line("?", ""), Bad(Line("c", <<>>)), Line("m", <<"video">>),
                                             Bad(MLine("video", <<96>>))}}
    \cup {Head0 \o <<Bad(MLine("video", <<96>>))>> \o Good \o <<Line("a", <<"sendrecv">>)>>}

MCUfrags == <<"lu1", "lu2">>
MCPasswords == <<"lp1", "lp2">>
============================================================================
