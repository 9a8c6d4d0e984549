SPECIFICATION FairSpec
CONSTANTS
  Asked <- Gateway
  Messages <- Few
  FaultKinds = {"message", "cut", "error", "late", "unparsed", "deaf", "reset"}
  MaxRequests = 2
  MaxFaults = 2
  MaxBlocks = 1
INVARIANTS TypeOK CallbackIsAlone SuccessIsOwn
PROPERTIES ImplementsRemoteCall RequestEnds
CHECK_DEADLOCK FALSE
