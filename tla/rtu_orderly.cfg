SPECIFICATION FairSpec
CONSTANTS
  s1 = s1
  s2 = s2
  Slaves <- MCSlaves
  MaxReq = 3
  PduMax = 3
  PduMin = 2
  ReqLen = 2
  ReplyLens <- MCReplyLens
  LateReplies = FALSE
  FrameGaps = FALSE
  Reconfigure = FALSE
INVARIANTS TypeOK AssertsHold CleanStart SuccessIsTheAnswer FailureIsTheSlaves ReceiverIsTimed
PROPERTY TransactionEnds
