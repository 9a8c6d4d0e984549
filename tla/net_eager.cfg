SPECIFICATION Spec
CONSTANTS
  TCP_MAX_BUF_SIZE = 4
  MaxSessions = 1
  Segment = 5
  ResetAfter = 0
  FaultKinds = {}
  MaxFaults = 0
  Base = 8
  MQTT_MAX_PACKET_SIZE = 11
  MQTT_MAX_TOPIC_LEN = 1
  MQTT_KEEPALIVE = 0
  ReadTimeout = 0
  Topics = 1
  OutLengths = {8}
  Messages <- MCMessages
  MaxMessages = 1
  Eager = TRUE
INVARIANTS CallbackIsMessage
