SPECIFICATION FairSpec
CONSTANTS
  s1 = s1
  s2 = s2
  Slaves <- MCOneSlave
  MaxReq = 2
  PduMax = 3
  PduMin = 2
  ReqLen = 2
  ReplyLens <- MCOneLen
  LateReplies = TRUE
  FrameGaps = TRUE
  Reconfigure = FALSE
INVARIANT HalfDuplex
PROPERTY EndsOrAborts
CHECK_DEADLOCK FALSE
