\* Every kind of message written and read back.  The codecs stop when they are done.
SPECIFICATION Spec
CONSTANTS
  StunOrders <- MCStunOrders
  Compounds <- MCCompounds
  IndexBits = 3
  Indices <- MCIndices
  SdpOffers <- MCSdpOffers
  H264 = "H264/90000"
  Mode1 = {"mode1;42", "mode1;64"}
  Profile42 = {"mode1;42", "mode0;42"}
  Ufrags <- MCUfrags
  Passwords <- MCPasswords
  NtpOffset = 10
INVARIANTS
  StunReadsBack
  SignaturesVerify
  CompoundInStep
  LengthsAreTrue
  AnswerFitsOffer
CHECK_DEADLOCK FALSE
