SPECIFICATION Spec
CONSTANTS
  Modes = {"ascii", "powerone"}
  MaxReq = 2
  Noise = {"silent", "cut", "pause", "damage", "restart", "foreign"}
  PduMax = 5
  PduMin = 3
  ReqLen = 1
  ReplyLen = 3
  AsciiLens = {3, 4, 6}
  Starts = {3, 4}
  Counts = {3, 4}
INVARIANTS TypeOK SuccessIsTheAnswer
PROPERTY TransactionEnds
