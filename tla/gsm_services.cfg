SPECIFICATION Spec
CONSTANTS
  Asked <- All
  Messages <- Unsolicited
  FaultKinds = {"message", "crumb", "error", "deaf"}
  MaxRequests = 2
  MaxFaults = 1
  MaxBlocks = 1
INVARIANTS SuccessIsComplete
PROPERTIES ImplementsRemoteCall
CHECK_DEADLOCK FALSE
