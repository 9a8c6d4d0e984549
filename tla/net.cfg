SPECIFICATION FairSpec
CONSTANTS
  TCP_MAX_BUF_SIZE = 6
  MaxSessions = 1
  Segment = 6
  ResetAfter = 0
  FaultKinds = {"linkdown", "error", "leak", "break", "refuse", "slow"}
  MaxFaults = 1
  Base = 8
  MQTT_MAX_PACKET_SIZE = 11
  MQTT_MAX_TOPIC_LEN = 1
  MQTT_KEEPALIVE = 0
  ReadTimeout = 0
  Topics = 1
  OutLengths = {8}
  Messages <- MCMessages
  MaxMessages = 1
  Eager = FALSE
INVARIANTS TypeOK PingIsPending
PROPERTIES ImplementsSession SilenceIsNoticed ConnectRecovers
