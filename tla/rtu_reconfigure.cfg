SPECIFICATION FairSpec
CONSTANTS
  s1 = s1
  s2 = s2
  Slaves <- MCOneSlave
  MaxReq = 2
  PduMax = 3
  PduMin = 2
  ReqLen = 2
  ReplyLens <- MCReplyLens
  LateReplies = FALSE
  FrameGaps = FALSE
  Reconfigure = TRUE
INVARIANTS CleanStart SuccessIsTheAnswer
PROPERTY EndsOrAborts
CHECK_DEADLOCK FALSE
