----------------------------- MODULE MqttSession -----------------------------
(***************************************************************************)
(* What the MQTT client promises its user: on each connection the callback *)
(* gets messages the server published on that connection, whole, in their  *)
(* order and each at most once (some may be lost), and every packet the    *)
(* client sends can be parsed by the server.                               *)
(***************************************************************************)
EXTENDS Naturals, Sequences

CONSTANTS Messages, NoMsg

VARIABLES
  log,      \* sent on this connection; NoMsg where nothing was published
  handed,   \* the message the callback is at work on
  garbled   \* the server got something it could not parse

svars == <<log, handed, garbled>>

Init == log = <<>> /\ handed = NoMsg /\ garbled = FALSE

Open == log' = <<>> /\ UNCHANGED <<handed, garbled>>

Send(m) == log' = Append(log, m) /\ UNCHANGED <<handed, garbled>>

Past(n) == log' = SubSeq(log, n + 1, Len(log)) /\ UNCHANGED garbled

Hand(n) ==
  /\ handed = NoMsg /\ log[n] # NoMsg
  /\ handed' = log[n] /\ Past(n)

HandedBack == handed' = NoMsg /\ UNCHANGED <<log, garbled>>

Skip(n) == Past(n) /\ UNCHANGED handed

Next ==
  \/ Open \/ HandedBack
  \/ \E m \in Messages \cup {NoMsg} : Send(m)
  \/ \E n \in DOMAIN log : Hand(n) \/ Skip(n)

Spec == Init /\ [][Next]_svars
=============================================================================
