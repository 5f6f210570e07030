SPECIFICATION Spec
CONSTANTS
  e1 = e1
  dtls = dtls
  srtp = srtp
  Endpoint = {e1, e2}
  Reader = {r1}
  ReadsFrom <- MCReadsFrom
  Class = {dtls, srtp}
  Match <- MCMatch
  NBufs = 2
  LoopBuf = LoopBuf
  NoEndpoint = NoEndpoint
  NoPacket = NoPacket
  MaxPackets = 3
 
PROPERTY ImplementsQueues
