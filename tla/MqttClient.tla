------------------------------ MODULE MqttClient ------------------------------
(***************************************************************************)
(* The MQTT client (mqtt/MQTTClient.c) over the TCP client, run by the     *)
(* loop of FlyportTask (project/gmgw/taskFlyport.c): connect, subscribe,   *)
(* then publish, keep the connection alive and hand the server's messages  *)
(* to the callback.                                                        *)
(*                                                                         *)
(* Bytes are numbers below 2 * Base: Base is 128 in the code, a smaller    *)
(* power of two gives the same arithmetic with smaller numbers.  The type  *)
(* of a packet is the high half of its first byte, and the number of that  *)
(* half stands for it.  Time is kept as ages.  What the client writes is   *)
(* its length; client id, topics and payloads are left out.                *)
(***************************************************************************)
EXTENDS TcpClient

CONSTANTS
  Base,
  MQTT_MAX_PACKET_SIZE, MQTT_MAX_TOPIC_LEN,
  MQTT_KEEPALIVE,
  ReadTimeout,  \* the second MQTTClient_readByte waits
  Topics,       \* how many topics are subscribed to
  OutLengths,   \* lengths of what the gateway publishes
  Messages,     \* what the server publishes
  MaxMessages,  \* bound on it, for each connection
  Eager         \* the server sends on behind a SUBACK

ASSUME MqttAssumption ==
  /\ Base \in Nat \ {0} /\ Eager \in BOOLEAN
  /\ {MQTT_MAX_PACKET_SIZE, MQTT_MAX_TOPIC_LEN, MQTT_KEEPALIVE, ReadTimeout,
      Topics, MaxMessages} \subseteq Nat
  /\ OutLengths \subseteq Nat
  /\ \A m \in Messages : m.topic \in Seq(Nat) /\ m.payload \in Seq(Nat)

VARIABLES
  connected,          \* of FlyportTask
  topics,             \* how many are subscribed to
  pingOutstanding,
  sinceIn, sinceOut, sinceT, waited,  \* ages: lastIn-, lastOutActivity, t
  packet, rd,         \* the packet being read; the locals of readPacket
  due, granted,       \* what the server owes; it has a subscription
  log, handed, garbled                \* see MqttSession

timers   == <<sinceIn, sinceOut, sinceT, waited>>
reader   == <<packet, rd>>
flags    == <<connected, topics, pingOutstanding>>
server   == <<due, granted, garbled>>
mqttVars == <<timers, reader, flags, server, log, handed>>
vars     == <<tcpVars, mqttVars>>

CONNACK  == 2
PUBLISH  == 3
SUBACK   == 9
PINGREQ  == 12
PINGRESP == 13

NoMsg    == [topic |-> <<>>, payload |-> <<>>]
NoPacket == [part |-> "header", length |-> 0, multiplier |-> 1, i |-> 0,
             err |-> FALSE]

Init ==
  /\ TcpInit
  /\ connected = FALSE /\ topics = 0 /\ pingOutstanding = FALSE
  /\ sinceIn = 0 /\ sinceOut = 0 /\ sinceT = 0 /\ waited = 0
  /\ packet = <<>> /\ rd = NoPacket
  /\ due = <<>> /\ granted = FALSE
  /\ log = <<>> /\ handed = NoMsg /\ garbled = FALSE

----------------------------------------------------------------------------
(***************************************************************************)
(* The length of a packet.  MQTTClient_write encodes an 8-bit copy of it,  *)
(* readPacket decodes with a multiplier of 8 bits.                         *)
(***************************************************************************)
lenBuf(n) ==
  LET l == n % (2 * Base)
  IN  IF l < Base THEN <<l>> ELSE <<(l % Base) + Base, l \div Base>>

Digit(d)  == d % Base
Marked(d) == d >= Base

(* How the server reads the one or two digits.                             *)
Decoded(s) == Digit(s[1]) + (IF Marked(s[1]) THEN Base * s[2] ELSE 0)

Header(t, n) ==
  <<t>> \o (IF n < Base THEN <<n>> ELSE <<(n % Base) + Base, n \div Base>>)

Encoded(m) ==
  Header(PUBLISH, 2 + Len(m.topic) + Len(m.payload))
    \o <<Len(m.topic) \div (2 * Base), Len(m.topic) % (2 * Base)>>
    \o m.topic \o m.payload

----------------------------------------------------------------------------
Still  == Local /\ UNCHANGED <<socket, block, tick>>
Other  == UNCHANGED <<server, log, handed>>
Others == UNCHANGED <<reader, server, log, handed>>

Then(p)    == at' = p /\ result' = 0 /\ UNCHANGED <<stack, request>>
Call(f, p) == Enter(f, p) /\ UNCHANGED request
Write(n, p) ==
  Enter("TCPClient_write", p) /\ len' = n /\ UNCHANGED <<call, verdict>>

(* MQTTClient_readByte and MQTTClient_readPacket.                          *)
MQTTClient_readPacket ==
  /\ at = "MQTTClient_readPacket" /\ Then("MQTTClient_readByte")
  /\ packet' = <<>> /\ rd' = NoPacket
  /\ Still /\ Other /\ UNCHANGED <<timers, flags>>

HeaderByte(b, err) ==
  /\ packet' = <<b>>
  /\ rd' = [rd EXCEPT !.part = "digit", !.err = err]
  /\ Goto("MQTTClient_readByte")

LengthByte(b, err) ==
  IF err THEN Return(0) /\ packet' = <<>> /\ rd' = NoPacket
  ELSE LET n == (rd.length + Digit(b) * rd.multiplier) % (4 * Base * Base)
       IN  /\ packet' = Append(packet, b)
           /\ IF ~Marked(b) /\ n = 0
              THEN Return(Len(packet) + 1) /\ rd' = NoPacket
              ELSE /\ Goto("MQTTClient_readByte")
                   /\ rd' = [rd EXCEPT !.length = n,
                                       !.multiplier = (@ * Base) % (2 * Base),
                                       !.part = IF Marked(b) THEN "digit" ELSE "body"]

(* A packet longer than the buffer starts again at its first byte.         *)
(* Mutant: a packet that fills the buffer is taken to be longer.           *)
RoomOffByOne == Len(packet) < MQTT_MAX_PACKET_SIZE - 1

Room == Len(packet) < MQTT_MAX_PACKET_SIZE

BodyByte(b, err) ==
  LET p == IF Room THEN Append(packet, b) ELSE <<>>
  IN  IF err THEN Return(0) /\ packet' = <<>> /\ rd' = NoPacket
      ELSE /\ packet' = p
           /\ IF rd.i + 1 = rd.length THEN Return(Len(p)) /\ rd' = NoPacket
              ELSE rd' = [rd EXCEPT !.i = @ + 1] /\ Goto("MQTTClient_readByte")

Store(b, err) ==
  /\ UNCHANGED request
  /\ \/ rd.part = "header" /\ HeaderByte(b, err)
     \/ rd.part = "digit" /\ LengthByte(b, err \/ rd.err)
     \/ rd.part = "body" /\ BodyByte(b, err)

MQTTClient_readByte ==
  /\ at = "MQTTClient_readByte" /\ waited' = 0
  /\ IF size > 0 THEN Take /\ Store(buff[idx], FALSE)
     ELSE Call("TCPCheckStatus", "available") /\ UNCHANGED <<block, reader>>
  /\ Local /\ Other /\ UNCHANGED <<socket, tick, sinceIn, sinceOut, sinceT, flags>>

(* The rest of a packet takes longer than that only if it is lost.         *)
Late == "stall" \in FaultKinds \/ ~number \/ (wire = <<>> /\ rcv = <<>>)

Available ==
  /\ at = "available"
  /\ IF result > 0 THEN Then("MQTTClient_readByte") /\ UNCHANGED <<reader, waited>>
     ELSE IF waited > ReadTimeout /\ Late THEN Store(0, TRUE) /\ waited' = 0
     ELSE Call("TCPCheckStatus", "available") /\ UNCHANGED <<reader, waited>>
  /\ Still /\ Other /\ UNCHANGED <<sinceIn, sinceOut, sinceT, flags>>

----------------------------------------------------------------------------
(* MQTTClient_connect.                                                     *)
Down ==
  /\ at = "down" /\ Call("TCPClient_connected", "MQTTClient_connect")
  /\ Still /\ Others /\ UNCHANGED <<timers, flags>>

MQTTClient_connect ==
  /\ at = "MQTTClient_connect"
  /\ IF result = -1 THEN Call("TCPClient_connect", "hello") /\ TCPClient_init
     ELSE Then("down") /\ UNCHANGED <<socket, block, tick>>
  /\ Local /\ Others /\ UNCHANGED <<timers, flags>>

Hello ==
  /\ at = "hello" /\ Write(0, "greeted")
  /\ Still /\ Others /\ UNCHANGED <<timers, flags>>

Greeted ==
  /\ at = "greeted" /\ Call("TCPCheckStatus", "awaited")
  /\ sinceIn' = 0 /\ sinceOut' = 0
  /\ Still /\ Others /\ UNCHANGED <<sinceT, waited, flags>>

Awaited ==
  /\ at = "awaited"
  /\ IF result > 0 THEN Call("MQTTClient_readPacket", "welcomed")
     ELSE IF sinceIn > MQTT_KEEPALIVE THEN Call("TCPClient_stop", "down")
     ELSE Call("TCPCheckStatus", "awaited")
  /\ Still /\ Others /\ UNCHANGED <<timers, flags>>

Through  == log' = SubSeq(log, 2, Len(log)) /\ packet' = <<>> /\ rd' = NoPacket
Accepted == result = 4 /\ packet[4] = 0

(* Mutant: a ping of an earlier connection stays outstanding.              *)
WelcomedKeepsPing ==
  /\ at = "welcomed" /\ Through
  /\ IF Accepted
     THEN /\ Then("subscribe") /\ sinceIn' = 0
          /\ connected' = TRUE /\ topics' = 0 /\ UNCHANGED pingOutstanding
     ELSE Call("TCPClient_stop", "down") /\ UNCHANGED <<sinceIn, flags>>
  /\ Still /\ UNCHANGED <<server, handed, sinceOut, sinceT, waited>>

Welcomed ==
  /\ at = "welcomed" /\ Through
  /\ IF Accepted
     THEN /\ Then("subscribe") /\ sinceIn' = 0
          /\ connected' = TRUE /\ topics' = 0 /\ pingOutstanding' = FALSE
     ELSE Call("TCPClient_stop", "down") /\ UNCHANGED <<sinceIn, flags>>
  /\ Still /\ UNCHANGED <<server, handed, sinceOut, sinceT, waited>>

(* FlyportTask subscribes to its topics whatever became of the ones before.*)
Subscribe ==
  /\ at = "subscribe"
  /\ IF topics = Topics THEN Then("top") /\ UNCHANGED topics
     ELSE /\ Call("TCPClient_connected", "MQTTClient_subscribe")
          /\ topics' = topics + 1
  /\ Still /\ Others /\ UNCHANGED <<timers, connected, pingOutstanding>>

MQTTClient_subscribe ==
  /\ at = "MQTTClient_subscribe"
  /\ IF result = -1 THEN Then("subscribe") ELSE Write(0, "subscribed")
  /\ Still /\ Others /\ UNCHANGED <<timers, flags>>

(* The end of MQTTClient_write; both callers ignore its result.            *)
Wrote ==
  /\ \/ at = "subscribed" /\ Then("subscribe")
     \/ at = "published" /\ Return(0) /\ UNCHANGED request
  /\ sinceOut' = 0
  /\ Still /\ Others /\ UNCHANGED <<sinceIn, sinceT, waited, flags>>

----------------------------------------------------------------------------
(* FlyportTask publishes its advertisement or a message of xQueueMqtt, one *)
(* of the two in a round, and goes on with the loop.                       *)
Publish(p) ==
  /\ at' = "TCPClient_connected" /\ result' = 0
  /\ stack' = <<"MQTTClient_publish", p>> \o stack /\ UNCHANGED request

Top ==
  /\ at = "top" /\ (Publish("loop") \/ Then("loop"))
  /\ Still /\ Others /\ UNCHANGED <<timers, flags>>

MQTTClient_publish ==
  /\ at = "MQTTClient_publish"
  /\ \/ result = -1 /\ Return(0) /\ UNCHANGED request
     \/ result # -1 /\ \E n \in OutLengths : Write(n, "published")
  /\ Still /\ Others /\ UNCHANGED <<timers, flags>>

Loop ==
  /\ at = "loop" /\ Call("TCPClient_connected", "MQTTClient_loop")
  /\ Still /\ Others /\ UNCHANGED <<timers, flags>>

Idle == sinceIn > MQTT_KEEPALIVE \/ sinceOut > MQTT_KEEPALIVE

MQTTClient_loop ==
  /\ at = "MQTTClient_loop" /\ sinceT' = 0
  /\ IF result = -1 THEN Then("disconnect")
     ELSE IF ~Idle THEN Call("TCPCheckStatus", "polled")
     ELSE IF pingOutstanding THEN Call("TCPClient_stop", "disconnect")
     ELSE Write(0, "pinged")
  /\ Still /\ Others /\ UNCHANGED <<sinceIn, sinceOut, waited, flags>>

(* Mutant: the ping is sent and not remembered.                            *)
PingForgotten ==
  /\ at = "pinged"
  /\ IF result = 0 THEN Then("disconnect") /\ UNCHANGED <<sinceIn, sinceOut>>
     ELSE /\ Call("TCPCheckStatus", "polled")
          /\ sinceIn' = sinceT /\ sinceOut' = sinceT
  /\ Still /\ Others /\ UNCHANGED <<sinceT, waited, flags>>

Pinged ==
  /\ at = "pinged"
  /\ IF result = 0
     THEN Then("disconnect") /\ UNCHANGED <<sinceIn, sinceOut, pingOutstanding>>
     ELSE /\ Call("TCPCheckStatus", "polled")
          /\ sinceIn' = sinceT /\ sinceOut' = sinceT /\ pingOutstanding' = TRUE
  /\ Still /\ Others /\ UNCHANGED <<sinceT, waited, connected, topics>>

Polled ==
  /\ at = "polled"
  /\ IF result > 0 THEN Call("MQTTClient_readPacket", "dispatch") ELSE Then("top")
  /\ Still /\ Others /\ UNCHANGED <<timers, flags>>

----------------------------------------------------------------------------
(***************************************************************************)
(* What the loop makes of a packet.  Bytes behind its end are what an      *)
(* earlier packet left, 0 here.  The length field is taken to have one     *)
(* byte when the whole packet, not its rest, is shorter than Base.         *)
(***************************************************************************)
At(k)  == IF k <= Len(packet) THEN packet[k] ELSE 0
Offset == IF result < Base THEN 4 ELSE 5
tl     == At(Offset - 1) * 2 * Base + At(Offset)

Part(a, b) == [k \in 1 .. (IF b < a THEN 0 ELSE b - a + 1) |-> At(a + k - 1)]
Message    == [topic   |-> Part(Offset + 1, Offset + tl),
               payload |-> Part(Offset + tl + 1, result)]

Deliver ==
  /\ At(1) = PUBLISH /\ tl <= MQTT_MAX_TOPIC_LEN
  /\ handed' = Message /\ Then("callback")
  /\ UNCHANGED pingOutstanding

TopicTooLong ==
  /\ At(1) = PUBLISH /\ tl > MQTT_MAX_TOPIC_LEN /\ Then("top")
  /\ UNCHANGED <<handed, pingOutstanding>>

AnswerPing ==
  /\ At(1) = PINGREQ /\ Write(0, "ponged")
  /\ UNCHANGED <<handed, pingOutstanding>>

PingAnswered ==
  /\ At(1) = PINGRESP /\ Then("top")
  /\ pingOutstanding' = FALSE /\ UNCHANGED handed

OtherPacket ==
  /\ At(1) \notin {PUBLISH, PINGREQ, PINGRESP} /\ Call("TCPClient_flush", "top")
  /\ UNCHANGED <<handed, pingOutstanding>>

Dispatch ==
  /\ at = "dispatch" /\ result > 0 /\ Through /\ sinceIn' = sinceT
  /\ Deliver \/ TopicTooLong \/ AnswerPing \/ PingAnswered \/ OtherPacket
  /\ Still /\ UNCHANGED <<sinceOut, sinceT, waited, connected, topics, server>>

(* The callback is done; it may answer, as it does a configuration.        *)
Callback ==
  /\ at = "callback" /\ handed' = NoMsg
  /\ Then("top") \/ Publish("top")
  /\ Still /\ UNCHANGED <<timers, reader, flags, server, log>>

Abandoned ==
  /\ at = "dispatch" /\ result = 0 /\ Then("top")
  /\ Still /\ Others /\ UNCHANGED <<timers, flags>>

Ponged ==
  /\ at = "ponged" /\ Then(IF result = 0 THEN "disconnect" ELSE "top")
  /\ Still /\ Others /\ UNCHANGED <<timers, flags>>

(* The loop returned false: MQTTClient_disconnect.                         *)
Disconnect ==
  /\ at = "disconnect" /\ connected' = FALSE
  /\ Call("TCPClient_connected", "MQTTClient_disconnect")
  /\ Still /\ Others /\ UNCHANGED <<timers, topics, pingOutstanding>>

(* It never says goodbye: whatever makes the loop give up has closed the   *)
(* socket already (TypeOK).                                                *)
MQTTClient_disconnect ==
  /\ at = "MQTTClient_disconnect" /\ result = -1 /\ Then("down")
  /\ Still /\ Others /\ UNCHANGED <<timers, flags>>

FlyportTask ==
  \/ Tcp /\ UNCHANGED mqttVars
  \/ MQTTClient_readPacket \/ MQTTClient_readByte \/ Available
  \/ Down \/ MQTTClient_connect \/ Hello \/ Greeted \/ Awaited \/ Welcomed
  \/ Subscribe \/ MQTTClient_subscribe \/ Wrote
  \/ Top \/ MQTTClient_publish \/ Loop \/ MQTTClient_loop \/ Pinged \/ Polled
  \/ Dispatch \/ Callback \/ Abandoned \/ Ponged \/ Disconnect \/ MQTTClient_disconnect

----------------------------------------------------------------------------
(* The modem, with what its answers mean for the server.  The address a    *)
(* write returns to tells what is written.                                 *)
Owed ==
  CASE Head(stack) = "greeted"    -> <<CONNACK>>
    [] Head(stack) = "subscribed" -> <<SUBACK>>
    [] Head(stack) = "pinged"     -> <<PINGRESP>>
    [] OTHER                      -> <<>>

WriteReaches ==
  /\ WriteDone(TRUE)
  /\ due' = due \o Owed
  /\ garbled' = (garbled \/ Decoded(lenBuf(len)) # len)
  /\ UNCHANGED <<granted, log, timers, reader, flags, handed>>

NewConnection ==
  /\ OpenDone
  /\ due' = <<>> /\ log' = <<>> /\ granted' = FALSE
  /\ UNCHANGED <<garbled, handed, timers, reader, flags>>

GSMTask ==
  \/ WriteReaches \/ NewConnection
  \/ /\ \/ ReadDone \/ FlushDone \/ CloseDone \/ ConfigDone \/ OpenLeaks
        \/ WriteDone(FALSE) \/ CallFails \/ ModemReset
     /\ UNCHANGED mqttVars

(* The server.  Unless it is eager, it sends nothing behind a SUBACK until *)
(* the client is through with it.                                          *)
Unread(t) == \E k \in DOMAIN log : log[k].type = t
Flushing  == at \in {"TCPClient_flush", "TCPRxFlush"}
MaySend   == link /\ (Eager \/ (~Unread(SUBACK) /\ ~Flushing))

Sends(t, m, s) ==
  /\ log' = Append(log, [type |-> t, msg |-> m])
  /\ wire' = wire \o s
  /\ UNCHANGED <<control, socket, block, tick, request, modem, session, link,
                 rcv, timers, reader, flags, garbled, handed>>

Answers ==
  /\ MaySend /\ due # <<>> /\ due' = Tail(due)
  /\ \/ /\ Head(due) = CONNACK /\ Sends(CONNACK, NoMsg, <<CONNACK, 2, 0, 0>>)
        /\ UNCHANGED <<granted, faults>>
     \/ /\ Head(due) = CONNACK /\ Sends(CONNACK, NoMsg, <<CONNACK, 2, 0, 5>>)
        /\ Fault("refuse") /\ UNCHANGED granted
     \/ /\ Head(due) = SUBACK /\ Sends(SUBACK, NoMsg, <<SUBACK, 3, 0, 6, 0>>)
        /\ granted' = TRUE /\ UNCHANGED faults
     \/ /\ Head(due) = PINGRESP /\ Sends(PINGRESP, NoMsg, <<PINGRESP, 0>>)
        /\ UNCHANGED <<granted, faults>>

InFlight(t) == Cardinality({k \in DOMAIN log : log[k].type = t})

Publishes ==
  /\ MaySend /\ granted /\ ~Unread(PINGREQ) /\ InFlight(PUBLISH) < MaxMessages
  /\ \E m \in Messages : Sends(PUBLISH, m, Encoded(m))
  /\ UNCHANGED <<due, granted, faults>>

Pings ==
  /\ MaySend /\ granted /\ ~Unread(PINGREQ) /\ InFlight(PUBLISH) < MaxMessages
  /\ Sends(PINGREQ, NoMsg, <<PINGREQ, 0>>) /\ UNCHANGED <<due, granted, faults>>

(* A second: the ages that count now grow, as far as they are told apart;  *)
(* what uses up the 600 seconds of connect is its attempts, against which  *)
(* a restart of the modem is short.  A server that takes longer than the   *)
(* keep-alive to accept the client is slow.                                *)
Older(n, limit) == Least(n + 1, limit + 1)
Within(p)       == at = p \/ Contains(stack, p)
InTime          == ~Within("awaited") \/ ~link \/ sinceIn < MQTT_KEEPALIVE

Tick ==
  /\ \/ InTime /\ UNCHANGED faults
     \/ ~InTime /\ Fault("slow")
  /\ sinceIn'  = Older(sinceIn, MQTT_KEEPALIVE)
  /\ sinceOut' = Older(sinceOut, MQTT_KEEPALIVE)
  /\ sinceT'   = IF Within("polled") \/ Within("pinged") \/ Within("dispatch")
                 THEN Older(sinceT, MQTT_KEEPALIVE) ELSE 0
  /\ waited'   = IF Within("available") THEN Older(waited, ReadTimeout) ELSE 0
  /\ tick'     = IF at \in {"APNConfig", "TCPClientOpen"}
                 THEN Older(tick, ResetAfter) ELSE tick
  /\ UNCHANGED <<control, socket, block, request, modem, peer, reader, flags,
                 server, log, handed>>

(* The others move while FlyportTask looks at what it shares with them or  *)
(* waits for the modem: its other steps touch nothing they could see.      *)
Shares ==
  at \in {"TCPCheckStatus", "TCPHandleError", "TCPClient_connect", "APNConfig",
          "TCPClientOpen", "TCPRead", "TCPWrite", "TCPRxFlush", "closing"}

Arrives   == Shares /\ Arrive /\ UNCHANGED mqttVars
Registers == Register /\ UNCHANGED mqttVars
Ticks     == Shares /\ Tick
Serves    == Shares /\ Answers

Surroundings ==
  /\ Shares
  /\ \/ Publishes \/ Pings
     \/ (Break \/ PeerNotice \/ LinkDown) /\ UNCHANGED mqttVars

Next ==
  \/ FlyportTask \/ GSMTask
  \/ Arrives \/ Registers \/ Ticks \/ Serves \/ Surroundings

(* The tasks are scheduled, time passes, the modem answers and registers   *)
(* again, data on a living connection arrive, and the server answers.      *)
(* Strong fairness stands for weak fairness without Shares.                *)
Spec == Init /\ [][Next]_vars
FairSpec ==
  /\ Spec /\ WF_vars(FlyportTask) /\ WF_vars(GSMTask) /\ SF_vars(Ticks)
  /\ SF_vars(Arrives) /\ WF_vars(Registers) /\ SF_vars(Serves)

(***************************************************************************)
(* Properties.                                                             *)
(***************************************************************************)
(* Every variable has its type: the client never reads past its block      *)
(* (TCPClient.c:216), the packet stays in its buffer (MQTTClient.c:151),   *)
(* calls nest no deeper than four (loop, packet, status, stop), and what   *)
(* the loop gives up is closed.                                            *)
TypeOK ==
  /\ TcpTypeOK
  /\ at = "MQTTClient_disconnect" => result = -1
  /\ connected \in BOOLEAN /\ pingOutstanding \in BOOLEAN /\ garbled \in BOOLEAN
  /\ granted \in BOOLEAN
  /\ topics \in 0 .. Topics
  /\ sinceIn \in Nat /\ sinceOut \in Nat /\ sinceT \in Nat /\ waited \in Nat
  /\ Len(packet) <= MQTT_MAX_PACKET_SIZE
  /\ rd.multiplier < 2 * Base

Session == INSTANCE MqttSession WITH
  Messages <- Messages, NoMsg <- NoMsg,
  log <- [k \in DOMAIN log |-> log[k].msg]

(* The callback gets the messages of the server, whole, in order and at    *)
(* most once, over lost connections, restarts of the modem and blocks that *)
(* end inside a packet; and the server can parse what it is sent           *)
(* (MQTTClient.c:130-166, 200-233, 273-301, TCPClient.c:41-80).            *)
ImplementsSession == Session!Spec

(* A ping is outstanding on a connection only while its answer is owed,    *)
(* under way or not looked at yet: the keep-alive never gives up a server  *)
(* that answered (MQTTClient.c:98, 181-193, 224).                          *)
PingIsPending ==
  connected /\ pingOutstanding /\ link =>
    Contains(due, PINGRESP) \/ Unread(PINGRESP)

(* A connection whose other end is gone is given up, though the modem      *)
(* accepts what is written to it (MQTTClient.c:181-186).                   *)
SilenceIsNoticed == (connected /\ ~link) ~> ~connected

(* The gateway gets its connection back, though each failed attempt may    *)
(* leave a socket behind in the modem, until there is none left            *)
(* (TCPClient.c:86-93).                                                    *)
ConnectRecovers == (at = "down") ~> connected

(* MQTTClient.c:14, "a pointer to a function called when a message arrives *)
(* for a subscription created by this client": what it is called with are  *)
(* messages of the server.                                                 *)
CallbackIsMessage == handed \in Messages \cup {NoMsg}

(* MQTTClient.c:159, "This will cause the packet to be ignored": a packet   *)
(* the buffer cannot hold is dropped, what is dispatched is a whole packet. *)
LongIsIgnored ==
  at = "dispatch" /\ result > 0 =>
    /\ Len(packet) > 1
    /\ Len(packet) = Decoded(Tail(packet)) + (IF Marked(packet[2]) THEN 3 ELSE 2)
=============================================================================
