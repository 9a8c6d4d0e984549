SPECIFICATION FairSpec
CONSTANTS
  Inis <- MCInis
  MAX_NUM_POLL_TASKS = 2
  MaxCmds = 3
  MaxConfigs = 2
  MaxDrops = 1
  MaxRestarts = 1
  ForeignFrames = FALSE
INVARIANT TypeOK
PROPERTIES IsPipeline EveryCommandEnds SendMsgEnds
