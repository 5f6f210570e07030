------------------------------- MODULE Codecs -------------------------------
(***************************************************************************)
(* The encodings of the messages that the connection exchanges with its    *)
(* peer, each written by one side and read by the other: STUN (Stun),      *)
(* compound SRTCP packets (Rtcp), session descriptions (Sdp).  They do not *)
(* interact: a behaviour is about one of them, and the others stay empty.  *)
(***************************************************************************)
EXTENDS Stun, Rtcp, Sdp

VARIABLE subject   \* "stun", "rtcp" or "sdp"

vars == <<subject, stunVars, rtcpVars, sdpVars>>

NoStun ==
  /\ stunOrder = <<>> /\ stunStage = "idle" /\ stunTodo = <<>> /\ stunMsg = <<>>
  /\ stunCovered = <<>> /\ stunData = <<>> /\ stunGot = <<>> /\ stunLeft = <<>> /\ stunRead = <<>>

NoRtcp ==
  /\ rtcpStage = "idle" /\ compound = <<>> /\ rtcpIndex = 0 /\ listening = FALSE /\ written = 0
  /\ rtcpBuf = <<>> /\ wire = <<>> /\ rtcpOffset = 0 /\ handled = <<>> /\ starts = <<>>

NoSdp ==
  /\ sdpStage = "idle" /\ sdpText = <<>> /\ sdpParsed = <<>> /\ remoteDescription = <<>>
  /\ localDescription = <<>> /\ dynamicType = 0 /\ credentials = <<>> /\ sdpStream = <<>>

Init ==
  \/ subject = "stun" /\ StunInit /\ NoRtcp /\ NoSdp
  \/ subject = "rtcp" /\ RtcpInit /\ NoStun /\ NoSdp
  \/ subject = "sdp" /\ SdpInit /\ NoStun /\ NoRtcp

Next ==
  /\ UNCHANGED subject
  /\ \/ StunNext /\ UNCHANGED <<rtcpVars, sdpVars>>
     \/ RtcpNext /\ UNCHANGED <<stunVars, sdpVars>>
     \/ SdpNext /\ UNCHANGED <<stunVars, rtcpVars>>

Spec == Init /\ [][Next]_vars
============================================================================
