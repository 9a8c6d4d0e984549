--------------------------- MODULE MqttClient_proofs ---------------------------
EXTENDS MqttClient, ListLemmas

(***************************************************************************)
(* What the theorems assume.                                               *)
(***************************************************************************)
Fits(m) ==
  /\ m.topic # <<>> /\ Len(m.topic) < 2 * Base
  /\ m = [topic |-> m.topic, payload |-> m.payload]
  /\ 2 + Len(m.topic) + Len(m.payload) < Base * Base
  /\ Len(Encoded(m)) <= MQTT_MAX_PACKET_SIZE

Ordinary ==
  /\ FaultKinds \cap {"readbreak", "noclose", "stall"} = {} /\ ~Eager
  /\ Base >= 4 /\ MQTT_MAX_PACKET_SIZE >= 5 /\ MQTT_MAX_TOPIC_LEN < 2 * Base
  /\ \A n \in OutLengths : n < 2 * Base
  /\ \A m \in Messages : Fits(m)

----------------------------------------------------------------------------
(***************************************************************************)
(* Where FlyportTask is.                                                   *)
(***************************************************************************)
Mains ==
  {"down", "MQTTClient_connect", "hello", "greeted", "awaited", "welcomed",
   "subscribe", "MQTTClient_subscribe", "subscribed", "top", "loop",
   "MQTTClient_loop", "pinged", "polled", "dispatch", "callback", "ponged",
   "disconnect", "MQTTClient_disconnect"}
Reading    == {"MQTTClient_readPacket", "MQTTClient_readByte", "available"}
Publishing == {"MQTTClient_publish", "published"}
Routines ==
  {"TCPClient_connected", "TCPCheckStatus", "TCPRead", "TCPClient_write",
   "TCPWrite", "TCPClient_flush", "TCPRxFlush", "TCPClient_connect",
   "APNConfig", "TCPClientOpen", "TCPHandleError", "TCPClient_stop", "closing"}
Addresses == Mains \cup Reading \cup Publishing \cup Routines

Askers  == {"MQTTClient_connect", "MQTTClient_subscribe", "MQTTClient_loop",
            "MQTTClient_disconnect", "MQTTClient_publish"}
Pollers == {"awaited", "polled", "available"}
Writers == {"greeted", "subscribed", "pinged", "ponged", "published"}
Stops   == {"down", "disconnect"}
Failing == {"TCPHandleError", "TCPClient_stop", "closing"}

Calls(p, c) ==
  \/ c = "TCPClient_connected" /\ p \in Askers
  \/ c \in {"TCPCheckStatus", "TCPRead"} /\ p \in Askers \cup Pollers
  \/ c \in {"TCPClient_write", "TCPWrite"} /\ p \in Writers
  \/ c \in {"TCPClient_flush", "TCPRxFlush"} /\ p = "top"
  \/ c \in {"TCPClient_connect", "APNConfig", "TCPClientOpen"} /\ p = "hello"
  \/ c \in Failing /\ p \in Askers \cup Pollers \cup Writers \cup {"top"}
  \/ c \in {"TCPClient_stop", "closing"} /\ p \in Stops

HereOf(a, s)  == IF a \in Routines THEN Head(s) ELSE a
UnderOf(a, s) == IF a \in Routines THEN Tail(s) ELSE s
MainOf(p, s)  == IF s = <<>> THEN p ELSE Head(s)

Home(p, s) ==
  \/ p \in Mains /\ s = <<>>
  \/ p \in Reading /\ Len(s) = 1 /\ Head(s) \in {"welcomed", "dispatch"}
  \/ p \in Publishing /\ Len(s) = 1 /\ Head(s) \in {"loop", "top"}

Nest(a, s) ==
  /\ a \in Addresses /\ s \in Seq(Addresses)
  /\ a \in Routines => s # <<>> /\ Calls(Head(s), a)
  /\ Home(HereOf(a, s), UnderOf(a, s))

Here  == HereOf(at, stack)
Under == UnderOf(at, stack)
Main  == MainOf(Here, Under)

LEMMA EnterNest ==
  ASSUME NEW s \in Seq(Addresses), NEW f, NEW p, f \in Routines, Calls(p, f),
         p \in Addresses, p \notin Routines, Home(p, s)
  PROVE  /\ Nest(f, <<p>> \o s)
         /\ HereOf(f, <<p>> \o s) = p /\ UnderOf(f, <<p>> \o s) = s
<1> DEFINE t == <<p>> \o s
<1>1. <<p>> \in Seq(Addresses)
  OBVIOUS
<1>2. t \in Seq(Addresses) /\ Head(t) = p /\ Len(t) = Len(s) + 1 /\ Tail(t) = s
  BY <1>1
<1>3. t # <<>> /\ f \in Addresses
  BY <1>2 DEF Addresses
<1> QED
  BY <1>2, <1>3 DEF Nest, HereOf, UnderOf

LEMMA ReturnNest ==
  ASSUME NEW a, NEW s, Nest(a, s), a \in Routines
  PROVE  /\ Nest(Head(s), Tail(s)) /\ Head(s) \notin Routines
         /\ HereOf(Head(s), Tail(s)) = HereOf(a, s)
         /\ UnderOf(Head(s), Tail(s)) = UnderOf(a, s)
<1>1. s \in Seq(Addresses) /\ s # <<>> /\ Calls(Head(s), a)
  BY DEF Nest
<1>2. Head(s) \in Addresses /\ Tail(s) \in Seq(Addresses)
  BY <1>1
<1>3. Head(s) \notin Routines
  BY <1>1 DEF Calls, Routines, Askers, Pollers, Writers, Stops
<1> QED
  BY <1>1, <1>2, <1>3 DEF Nest, HereOf, UnderOf

LEMMA SwitchNest ==
  ASSUME NEW a, NEW s, Nest(a, s), a \in Routines,
         NEW f, f \in Routines, Calls(Head(s), f)
  PROVE  /\ Nest(f, s)
         /\ HereOf(f, s) = HereOf(a, s) /\ UnderOf(f, s) = UnderOf(a, s)
BY DEF Nest, HereOf, UnderOf, Addresses

LEMMA PlainNest ==
  ASSUME NEW s \in Seq(Addresses), NEW p, p \in Addresses, p \notin Routines, Home(p, s)
  PROVE  Nest(p, s) /\ HereOf(p, s) = p /\ UnderOf(p, s) = s
BY DEF Nest, HereOf, UnderOf

(* Publish pushes two addresses at once.                                    *)
LEMMA PublishNest ==
  ASSUME NEW p \in {"loop", "top"}
  PROVE  LET t == <<"MQTTClient_publish", p>> \o <<>>
         IN  /\ t \in Seq(Addresses) /\ Nest("TCPClient_connected", t)
             /\ HereOf("TCPClient_connected", t) = "MQTTClient_publish"
             /\ UnderOf("TCPClient_connected", t) = <<p>>
<1> DEFINE t == <<"MQTTClient_publish", p>> \o <<>>
<1>1. "MQTTClient_publish" \in Addresses /\ p \in Addresses
  BY DEF Addresses, Publishing, Mains
<1>2. <<"MQTTClient_publish", p>> \in Seq(Addresses)
  BY <1>1
<1>3. t \in Seq(Addresses) /\ Len(t) = 2 /\ t[1] = "MQTTClient_publish" /\ t[2] = p
  BY <1>2
<1> HIDE DEF t
<1>4. /\ Head(t) = "MQTTClient_publish" /\ t # <<>>
      /\ Tail(t) \in Seq(Addresses) /\ Len(Tail(t)) = 1 /\ Tail(t)[1] = p
  BY <1>3
<1>5. Tail(t) = <<p>>
  <2> DEFINE u == <<p>>
             r == Tail(t)
  <2>1. u \in Seq(Addresses) /\ Len(u) = 1 /\ u[1] = p
    BY <1>1
  <2>2. r \in Seq(Addresses) /\ Len(r) = 1 /\ r[1] = p
    BY <1>4
  <2> HIDE DEF u, r
  <2>3. \A i \in 1 .. Len(r) : r[i] = u[i]
    BY <2>1, <2>2
  <2>4. r = u
    BY <2>1, <2>2, <2>3, SeqEqual
  <2> QED
    BY <2>4 DEF u, r
<1>6. Nest("TCPClient_connected", t)
  BY <1>1, <1>3, <1>4, <1>5 DEF Nest, HereOf, UnderOf, Home, Calls, Askers, Publishing, Routines, Addresses
<1>7. /\ HereOf("TCPClient_connected", t) = "MQTTClient_publish"
      /\ UnderOf("TCPClient_connected", t) = <<p>>
  BY <1>4, <1>5 DEF HereOf, UnderOf, Routines
<1> QED
  BY <1>3, <1>6, <1>7 DEF t

----------------------------------------------------------------------------
(***************************************************************************)
(* The first invariant: control, and what each place knows of the socket.  *)
(***************************************************************************)
Reads == [part : {"header", "digit", "body"}, length : Nat, multiplier : Nat,
          i : Nat, err : BOOLEAN]

Types ==
  /\ number \in BOOLEAN /\ notif \in BOOLEAN /\ hwFault \in BOOLEAN
  /\ session \in BOOLEAN /\ link \in BOOLEAN /\ registered \in BOOLEAN
  /\ sessions \in 0 .. MaxSessions /\ faults \in 0 .. MaxFaults
  /\ rxLen \in Nat /\ size \in Nat /\ idx \in Nat /\ tick \in Nat /\ len \in Nat
  /\ size + idx <= TCP_MAX_BUF_SIZE
  /\ verdict \in {"pending", "success", "failure"}
  /\ connected \in BOOLEAN /\ pingOutstanding \in BOOLEAN
  /\ garbled \in BOOLEAN /\ granted \in BOOLEAN
  /\ topics \in 0 .. Topics
  /\ sinceIn \in Nat /\ sinceOut \in Nat /\ sinceT \in Nat /\ waited \in Nat
  /\ result \in Int
  /\ buff \in [0 .. TCP_MAX_BUF_SIZE - 1 -> Nat]
  /\ rcv \in Seq(Nat) /\ wire \in Seq(Nat) /\ packet \in Seq(Nat)
  /\ rd \in Reads

CallOf(a) ==
  CASE a \in {"TCPRead", "TCPWrite", "TCPRxFlush", "APNConfig", "TCPClientOpen"} -> a
    [] a = "closing" -> "TCPClientClose"
    [] OTHER -> "none"

Requests ==
  /\ call = CallOf(at)
  /\ call = "none" => verdict = "success"
  /\ at \in {"TCPClient_write", "TCPWrite"} => len < 2 * Base
  /\ at = "TCPRead" => len \in 1 .. TCP_MAX_BUF_SIZE /\ ~hwFault /\ size = 0

Numbered ==
  /\ at \in {"TCPRead", "TCPWrite", "TCPRxFlush", "hello"} => number
  /\ at = "TCPCheckStatus" /\ Here \in Askers => number
  /\ at \notin Failing /\ Here \in {"down", "disconnect", "MQTTClient_connect",
                                   "MQTTClient_disconnect"} => ~number
  /\ Here = "hello" /\ number =>
       at = "hello" \/ (at = "TCPClientOpen" /\ verdict = "success")
  /\ at \in Askers => (result = -1 <=> ~number)
  /\ at \in Pollers /\ result = -1 => ~number
  /\ at \in {"pinged", "ponged"} => (result = 0 <=> ~number)
  /\ at \in Failing /\ Here \in Askers \cup Pollers => result = -1
  /\ at \in Failing /\ Here \in Writers => result = 0
  /\ Here \in {"MQTTClient_connect", "MQTTClient_disconnect"} =>
       at \in {Here, "TCPClient_connected"}

Blocks ==
  /\ at \in Pollers => size = (IF result > 0 THEN result ELSE 0)
  /\ Here \in Pollers /\ at \in Failing => size = 0
  /\ Here \in {"hello", "greeted"} => size = 0
  /\ Here \in {"awaited", "polled", "welcomed", "dispatch"} \cup Reading /\ size > 0 =>
       number

Sockets ==
  /\ session => sessions > 0 /\ (number \/ hwFault)
  /\ session \/ (rcv = <<>> /\ wire = <<>> /\ ~link)
  /\ link \/ wire = <<>>
  /\ at = "closing" /\ verdict # "pending" => ~session \/ hwFault
  /\ number /\ session => rxLen = Len(rcv)
  /\ Here = "hello" /\ ~number => rxLen = 0
  /\ at = "TCPRead" /\ verdict = "pending" /\ session => len <= Len(rcv)

Reader ==
  /\ Here \notin Reading \cup {"welcomed", "dispatch"} => packet = <<>>
  /\ Here \notin Reading => rd = NoPacket
  /\ at = "MQTTClient_readPacket" => size > 0 /\ packet = <<>>
  /\ at = "MQTTClient_readByte" /\ rd.part = "header" => size > 0
  /\ Here = "available" => rd.part # "header"
  /\ Here \in {"welcomed", "dispatch"} =>
       result = Len(packet) /\ (packet # <<>> => number)

CInv ==
  /\ Types /\ Nest(at, stack) /\ Requests /\ Numbered /\ Blocks /\ Sockets /\ Reader

----------------------------------------------------------------------------
(* The routines of the TCP client stay in the call they were made by.       *)
LEMMA TcpStays ==
  ASSUME CInv, Tcp PROVE Nest(at, stack)' /\ Here' = Here /\ Under' = Under
<1> USE DEF CInv, Here, Under
<1> DEFINE Stays == Nest(at', stack') /\ HereOf(at', stack') = Here /\ UnderOf(at', stack') = Under
<1>1. ASSUME at \in Routines, at' = Head(stack), stack' = Tail(stack) PROVE Stays
  BY <1>1, ReturnNest
<1>2. ASSUME at \in Routines, at' \in Routines, stack' = stack, Calls(Head(stack), at')
      PROVE Stays
  BY <1>2, SwitchNest
<1>3. at \in Routines => stack # <<>> /\ Calls(Head(stack), at)
  BY DEF Nest
<1> HIDE DEF CInv, Here, Under, Stays
<1>4. ASSUME TCPCheckStatus \/ TCPReadEnds \/ TCPHandleError \/ TCPClient_stop PROVE Stays
  BY <1>1, <1>2, <1>3, <1>4 DEF TCPCheckStatus, TCPReadEnds, TCPHandleError, TCPClient_stop,
    Return, Goto, Asking, Calls, Routines, Failing
<1>5. ASSUME Closed \/ TCPClient_connected \/ TCPClient_write \/ TCPWriteEnds PROVE Stays
  BY <1>1, <1>2, <1>3, <1>5 DEF Closed, TCPClient_connected, TCPClient_write, TCPWriteEnds,
    Return, Goto, Asking, Calls, Routines, Failing
<1>6. ASSUME TCPClient_flush \/ TCPFlushEnds \/ TCPClient_connect \/ APNConfigEnds \/ TCPOpenEnds PROVE Stays
  <2>1. CASE ~(at' = at /\ stack' = stack)
    BY <1>1, <1>2, <1>3, <1>6, <2>1 DEF TCPClient_flush, TCPFlushEnds, TCPClient_connect, APNConfigEnds, TCPOpenEnds,
      Return, Goto, Asking, Calls, Routines, Failing, control
  <2>2. CASE at' = at /\ stack' = stack
    BY <2>2 DEF Stays, CInv, Here, Under
  <2> QED
    BY <2>1, <2>2
<1> QED
  BY <1>4, <1>5, <1>6 DEF Tcp, Stays, Here, Under

(* Where a place is, as the other invariants need it.                       *)
LEMMA Places ==
  ASSUME CInv
  PROVE  /\ at \in Routines => Here = Head(stack) /\ Calls(Here, at)
         /\ at \notin Routines => Here = at
         /\ Here \notin Routines
<1>1. at \in Routines => Head(stack) \notin Routines
  BY ReturnNest DEF CInv
<1> QED
  BY <1>1 DEF CInv, Here, HereOf, Nest

LEMMA BlockSize == TCP_MAX_BUF_SIZE \in Nat \ {0}
BY TcpAssumption

LEMMA TcpKeeps ==
  ASSUME Ordinary, CInv, Tcp, UNCHANGED mqttVars PROVE CInv'
<1> USE BlockSize DEF mqttVars, timers, reader, flags, server
<1>0. Nest(at, stack)' /\ Here' = Here
  BY TcpStays
<1>1. /\ at \in Routines => Here = Head(stack) /\ Calls(Here, at)
      /\ at \notin Routines => Here = at
      /\ Here \notin Routines
  BY Places
<1>2. at' \in Routines \/ Here' = at'
  BY <1>0 DEF Here, HereOf
<1>3. Types'
  <2>1. CASE TCPCheckStatus
    <3>1. /\ len' \in Nat /\ verdict' \in {"pending", "success", "failure"}
          /\ result' \in Int /\ tick' \in Nat /\ hwFault' \in BOOLEAN /\ number' \in BOOLEAN
      BY <1>1, <2>1 DEF CInv, Types, Requests, CallOf, TCPCheckStatus, Return, Goto, Ask, Least, request, modem, control, block, socket, peer, Local
    <3>2. /\ size' \in Nat /\ idx' \in Nat /\ size' + idx' <= TCP_MAX_BUF_SIZE /\ buff' = buff
      BY <1>1, <2>1 DEF CInv, Types, Requests, CallOf, TCPCheckStatus, Return, Goto, Ask, Least, request, modem, control, block, socket, peer, Local
    <3> QED
      BY <3>1, <3>2, <2>1 DEF CInv, Types, TCPCheckStatus, Return, Goto, Ask, Least, Local, socket, modem, peer
  <2>2. CASE TCPReadEnds
    <3>1. /\ len' \in Nat /\ verdict' \in {"pending", "success", "failure"}
          /\ result' \in Int /\ tick' \in Nat /\ hwFault' \in BOOLEAN /\ number' \in BOOLEAN
      BY <1>1, <2>2 DEF CInv, Types, Requests, CallOf, TCPReadEnds, Asking, Heard, Return, request, modem, control, block, socket, peer, Local
    <3>2. /\ size' \in Nat /\ idx' \in Nat /\ size' + idx' <= TCP_MAX_BUF_SIZE /\ buff' = buff
      <4>1. size \in Nat /\ idx \in Nat /\ size + idx <= TCP_MAX_BUF_SIZE
        BY DEF CInv, Types
      <4>2. len \in 1 .. TCP_MAX_BUF_SIZE
        BY <2>2 DEF CInv, Requests, TCPReadEnds, Asking
      <4>3. /\ buff' = buff
            /\ (size' = len /\ idx' = 0) \/ (size' = size /\ idx' = idx)
        BY <2>2 DEF TCPReadEnds
      <4>4. CASE size' = len /\ idx' = 0
        BY <4>2, <4>3, <4>4
      <4>5. CASE size' = size /\ idx' = idx
        BY <4>1, <4>3, <4>5
      <4> QED
        BY <4>3, <4>4, <4>5
    <3> QED
      BY <3>1, <3>2, <2>2 DEF CInv, Types, TCPReadEnds, Asking, Heard, Return, Local, socket, modem, peer
  <2>3. CASE TCPHandleError
    BY <1>0, <1>1, <1>2, <2>3 DEF CInv, Ordinary, TCPHandleError, Return, Goto, Asking, Ask, Heard, Local, control, socket, block, request, modem, peer, RequestReset, Least, Types, Requests, Routines, Askers, Pollers, Writers, Stops, Failing, Reading
  <2>4. CASE TCPClient_stop
    BY <1>0, <1>1, <1>2, <2>4 DEF CInv, Ordinary, TCPClient_stop, Return, Goto, Asking, Ask, Heard, Local, control, socket, block, request, modem, peer, RequestReset, Least, Types, Requests, Routines, Askers, Pollers, Writers, Stops, Failing, Reading
  <2>5. CASE Closed
    BY <1>0, <1>1, <1>2, <2>5 DEF CInv, Ordinary, Closed, Return, Goto, Asking, Ask, Heard, Local, control, socket, block, request, modem, peer, RequestReset, Least, Types, Requests, Routines, Askers, Pollers, Writers, Stops, Failing, Reading
  <2>6. CASE TCPClient_connected
    BY <1>0, <1>1, <1>2, <2>6 DEF CInv, Ordinary, TCPClient_connected, Return, Goto, Asking, Ask, Heard, Local, control, socket, block, request, modem, peer, RequestReset, Least, Types, Requests, Routines, Askers, Pollers, Writers, Stops, Failing, Reading
  <2>7. CASE TCPClient_write
    BY <1>0, <1>1, <1>2, <2>7 DEF CInv, Ordinary, TCPClient_write, Return, Goto, Asking, Ask, Heard, Local, control, socket, block, request, modem, peer, RequestReset, Least, Types, Requests, Routines, Askers, Pollers, Writers, Stops, Failing, Reading
  <2>8. CASE TCPWriteEnds
    BY <1>0, <1>1, <1>2, <2>8 DEF CInv, Ordinary, TCPWriteEnds, Return, Goto, Asking, Ask, Heard, Local, control, socket, block, request, modem, peer, RequestReset, Least, Types, Requests, Routines, Askers, Pollers, Writers, Stops, Failing, Reading
  <2>9. CASE TCPClient_flush
    BY <1>0, <1>1, <1>2, <2>9 DEF CInv, Ordinary, TCPClient_flush, Return, Goto, Asking, Ask, Heard, Local, control, socket, block, request, modem, peer, RequestReset, Least, Types, Requests, Routines, Askers, Pollers, Writers, Stops, Failing, Reading
  <2>10. CASE TCPFlushEnds
    BY <1>0, <1>1, <1>2, <2>10 DEF CInv, Ordinary, TCPFlushEnds, Return, Goto, Asking, Ask, Heard, Local, control, socket, block, request, modem, peer, RequestReset, Least, Types, Requests, Routines, Askers, Pollers, Writers, Stops, Failing, Reading
  <2>11. CASE TCPClient_connect
    <3>0. at = "TCPClient_connect" /\ tick \in Nat /\ len \in Nat /\ verdict \in {"pending", "success", "failure"} /\ result \in Int /\ hwFault \in BOOLEAN /\ number \in BOOLEAN
      BY <2>11 DEF CInv, Types, TCPClient_connect, Asking
    <3>1. /\ len' \in Nat /\ verdict' \in {"pending", "success", "failure"}
          /\ result' \in Int /\ tick' \in Nat /\ hwFault' \in BOOLEAN /\ number' \in BOOLEAN
      <4>1. CASE tick' = 0 /\ hwFault' = TRUE /\ UNCHANGED <<result, number, len, verdict>>
        BY <3>0, <4>1
      <4>2. CASE len' = 0 /\ verdict' = "pending" /\ UNCHANGED <<result, number, tick, hwFault>>
        BY <3>0, <4>2
      <4> QED
        BY <4>1, <4>2, <2>11 DEF TCPClient_connect, Goto, Ask, RequestReset, request, modem, control, socket
    <3>2. /\ UNCHANGED <<notif, session, link, registered, sessions, faults, rxLen, size, idx, buff, rcv, wire>>
      BY <2>11 DEF TCPClient_connect, Asking, Goto, Ask, Heard, RequestReset, request, modem, control, block, socket, peer, Local
    <3> QED
      BY <3>1, <3>2 DEF CInv, Types
  <2>12. CASE APNConfigEnds
    <3>0. at = "APNConfig" /\ tick \in Nat /\ len \in Nat /\ verdict \in {"pending", "success", "failure"} /\ result \in Int /\ hwFault \in BOOLEAN /\ number \in BOOLEAN
      BY <2>12 DEF CInv, Types, APNConfigEnds, Asking
    <3>1. /\ len' \in Nat /\ verdict' \in {"pending", "success", "failure"}
          /\ result' \in Int /\ tick' \in Nat /\ hwFault' \in BOOLEAN /\ number' \in BOOLEAN
      <4>1. CASE number' = FALSE /\ len' = 0 /\ verdict' = "pending" /\ UNCHANGED <<result, tick, hwFault>>
        BY <3>0, <4>1
      <4>2. CASE len' = 0 /\ verdict' = "success" /\ UNCHANGED <<result, number, tick, hwFault>>
        BY <3>0, <4>2
      <4> QED
        BY <4>1, <4>2, <2>12 DEF APNConfigEnds, Goto, Ask, Heard, modem, Local
    <3>2. /\ UNCHANGED <<notif, session, link, registered, sessions, faults, rxLen, size, idx, buff, rcv, wire>>
      BY <2>12 DEF APNConfigEnds, Asking, Goto, Ask, Heard, RequestReset, request, modem, control, block, socket, peer, Local
    <3> QED
      BY <3>1, <3>2 DEF CInv, Types
  <2>13. CASE TCPOpenEnds
    BY <1>0, <1>1, <1>2, <2>13 DEF CInv, Ordinary, TCPOpenEnds, Return, Goto, Asking, Ask, Heard, Local, control, socket, block, request, modem, peer, RequestReset, Least, Types, Requests, Routines, Askers, Pollers, Writers, Stops, Failing, Reading
  <2> QED
    BY <2>1, <2>2, <2>3, <2>4, <2>5, <2>6, <2>7, <2>8, <2>9, <2>10, <2>11, <2>12, <2>13 DEF Tcp
<1>4. Requests'
  <2>1. CASE TCPCheckStatus
    <3>0. at = "TCPCheckStatus" /\ Here = Head(stack) /\ Calls(Here, at)
      BY <1>1, <2>1 DEF TCPCheckStatus, Asking, Routines
    <3>1. UNCHANGED <<number, rxLen, size, hwFault, session, sessions, link, rcv, wire, packet>>
      BY <2>1 DEF TCPCheckStatus, Return, Goto, Heard, Ask, Local, control, socket, block, request, modem, peer
    <3>2. /\ size \in Nat /\ rxLen \in Nat /\ len \in Nat /\ number \in BOOLEAN /\ hwFault \in BOOLEAN
          /\ verdict \in {"pending", "success", "failure"} /\ result \in Int
      BY DEF CInv, Types
    <3>3. CASE size > 0
      <4>1. at' = Here /\ result' = size /\ UNCHANGED <<call, verdict, len>>
        BY <3>0, <3>2, <3>3, <2>1 DEF TCPCheckStatus, Asking, Return, Goto, Heard, Ask, Least, Ordinary, Local, control, socket, block, request, modem, peer
      <4> QED
        BY <1>0, <1>1, <1>2, <3>0, <3>1, <3>2, <3>3, <4>1 DEF CInv, Requests, Numbered, Routines, Askers, Pollers, Writers, Stops, Failing, Reading, Calls, CallOf
    <3>4. CASE size = 0 /\ ~number
      <4>1. at' = Here /\ result' = -1 /\ UNCHANGED <<call, verdict, len>>
        BY <3>0, <3>2, <3>4, <2>1 DEF TCPCheckStatus, Asking, Return, Goto, Heard, Ask, Least, Ordinary, Local, control, socket, block, request, modem, peer
      <4> QED
        BY <1>0, <1>1, <1>2, <3>0, <3>1, <3>2, <3>4, <4>1 DEF CInv, Requests, Numbered, Routines, Askers, Pollers, Writers, Stops, Failing, Reading, Calls, CallOf
    <3>5. CASE size = 0 /\ number /\ rxLen = 0
      <4>1. at' = Here /\ result' = 0 /\ UNCHANGED <<call, verdict, len>>
        BY <3>0, <3>2, <3>5, <2>1 DEF TCPCheckStatus, Asking, Return, Goto, Heard, Ask, Least, Ordinary, Local, control, socket, block, request, modem, peer
      <4> QED
        BY <1>0, <1>1, <1>2, <3>0, <3>1, <3>2, <3>5, <4>1 DEF CInv, Requests, Numbered, Routines, Askers, Pollers, Writers, Stops, Failing, Reading, Calls, CallOf
    <3>6. CASE size = 0 /\ number /\ rxLen > 0
      <4>1. /\ at' = "TCPRead" /\ result' = result /\ call' = "TCPRead" /\ verdict' = "pending"
            /\ len' = (IF rxLen < TCP_MAX_BUF_SIZE THEN rxLen ELSE TCP_MAX_BUF_SIZE) /\ ~hwFault
        BY <3>0, <3>2, <3>6, <2>1 DEF TCPCheckStatus, Asking, Return, Goto, Heard, Ask, Least, Ordinary, Local, control, socket, block, request, modem, peer
      <4> QED
        BY <1>0, <1>1, <1>2, <3>0, <3>1, <3>2, <3>6, <4>1 DEF CInv, Requests, Numbered, Routines, Askers, Pollers, Writers, Stops, Failing, Reading, Calls, CallOf
    <3> QED
      BY <3>3, <3>4, <3>5, <3>6, <3>2, <2>1 DEF TCPCheckStatus, Asking
  <2>2. CASE TCPReadEnds
    BY <1>0, <1>1, <1>2, <2>2 DEF CInv, Ordinary, TCPReadEnds, Return, Goto, Asking, Ask, Heard, Local, control, socket, block, request, modem, peer, RequestReset, Least, Types, Requests, CallOf, Routines, Askers, Pollers, Writers, Stops, Failing, Reading
  <2>3. CASE TCPHandleError
    BY <1>0, <1>1, <1>2, <2>3 DEF CInv, Ordinary, TCPHandleError, Return, Goto, Asking, Ask, Heard, Local, control, socket, block, request, modem, peer, RequestReset, Least, Types, Requests, CallOf, Routines, Askers, Pollers, Writers, Stops, Failing, Reading
  <2>4. CASE TCPClient_stop
    BY <1>0, <1>1, <1>2, <2>4 DEF CInv, Ordinary, TCPClient_stop, Return, Goto, Asking, Ask, Heard, Local, control, socket, block, request, modem, peer, RequestReset, Least, Types, Requests, CallOf, Routines, Askers, Pollers, Writers, Stops, Failing, Reading
  <2>5. CASE Closed
    BY <1>0, <1>1, <1>2, <2>5 DEF CInv, Ordinary, Closed, Return, Goto, Asking, Ask, Heard, Local, control, socket, block, request, modem, peer, RequestReset, Least, Types, Requests, CallOf, Routines, Askers, Pollers, Writers, Stops, Failing, Reading
  <2>6. CASE TCPClient_connected
    BY <1>0, <1>1, <1>2, <2>6 DEF CInv, Ordinary, TCPClient_connected, Return, Goto, Asking, Ask, Heard, Local, control, socket, block, request, modem, peer, RequestReset, Least, Types, Requests, CallOf, Routines, Askers, Pollers, Writers, Stops, Failing, Reading
  <2>7. CASE TCPClient_write
    BY <1>0, <1>1, <1>2, <2>7 DEF CInv, Ordinary, TCPClient_write, Return, Goto, Asking, Ask, Heard, Local, control, socket, block, request, modem, peer, RequestReset, Least, Types, Requests, CallOf, Routines, Askers, Pollers, Writers, Stops, Failing, Reading
  <2>8. CASE TCPWriteEnds
    BY <1>0, <1>1, <1>2, <2>8 DEF CInv, Ordinary, TCPWriteEnds, Return, Goto, Asking, Ask, Heard, Local, control, socket, block, request, modem, peer, RequestReset, Least, Types, Requests, CallOf, Routines, Askers, Pollers, Writers, Stops, Failing, Reading
  <2>9. CASE TCPClient_flush
    BY <1>0, <1>1, <1>2, <2>9 DEF CInv, Ordinary, TCPClient_flush, Return, Goto, Asking, Ask, Heard, Local, control, socket, block, request, modem, peer, RequestReset, Least, Types, Requests, CallOf, Routines, Askers, Pollers, Writers, Stops, Failing, Reading
  <2>10. CASE TCPFlushEnds
    BY <1>0, <1>1, <1>2, <2>10 DEF CInv, Ordinary, TCPFlushEnds, Return, Goto, Asking, Ask, Heard, Local, control, socket, block, request, modem, peer, RequestReset, Least, Types, Requests, CallOf, Routines, Askers, Pollers, Writers, Stops, Failing, Reading
  <2>11. CASE TCPClient_connect
    BY <1>0, <1>1, <1>2, <2>11 DEF CInv, Ordinary, TCPClient_connect, Return, Goto, Asking, Ask, Heard, Local, control, socket, block, request, modem, peer, RequestReset, Least, Types, Requests, CallOf, Routines, Askers, Pollers, Writers, Stops, Failing, Reading
  <2>12. CASE APNConfigEnds
    BY <1>0, <1>1, <1>2, <2>12 DEF CInv, Ordinary, APNConfigEnds, Return, Goto, Asking, Ask, Heard, Local, control, socket, block, request, modem, peer, RequestReset, Least, Types, Requests, CallOf, Routines, Askers, Pollers, Writers, Stops, Failing, Reading
  <2>13. CASE TCPOpenEnds
    BY <1>0, <1>1, <1>2, <2>13 DEF CInv, Ordinary, TCPOpenEnds, Return, Goto, Asking, Ask, Heard, Local, control, socket, block, request, modem, peer, RequestReset, Least, Types, Requests, CallOf, Routines, Askers, Pollers, Writers, Stops, Failing, Reading
  <2> QED
    BY <2>1, <2>2, <2>3, <2>4, <2>5, <2>6, <2>7, <2>8, <2>9, <2>10, <2>11, <2>12, <2>13 DEF Tcp
<1>5. Numbered'
  <2>1. CASE TCPCheckStatus
    <3>0. at = "TCPCheckStatus" /\ Here = Head(stack) /\ Calls(Here, at)
      BY <1>1, <2>1 DEF TCPCheckStatus, Asking, Routines
    <3>1. UNCHANGED <<number, rxLen, size, hwFault, session, sessions, link, rcv, wire, packet>>
      BY <2>1 DEF TCPCheckStatus, Return, Goto, Heard, Ask, Local, control, socket, block, request, modem, peer
    <3>2. /\ size \in Nat /\ rxLen \in Nat /\ len \in Nat /\ number \in BOOLEAN /\ hwFault \in BOOLEAN
          /\ verdict \in {"pending", "success", "failure"} /\ result \in Int
      BY DEF CInv, Types
    <3>3. CASE size > 0
      <4>1. at' = Here /\ result' = size /\ UNCHANGED <<call, verdict, len>>
        BY <3>0, <3>2, <3>3, <2>1 DEF TCPCheckStatus, Asking, Return, Goto, Heard, Ask, Least, Ordinary, Local, control, socket, block, request, modem, peer
      <4> QED
        BY <1>0, <1>1, <1>2, <3>0, <3>1, <3>2, <3>3, <4>1 DEF CInv, Requests, Numbered, Routines, Askers, Pollers, Writers, Stops, Failing, Reading, Calls, CallOf
    <3>4. CASE size = 0 /\ ~number
      <4>1. at' = Here /\ result' = -1 /\ UNCHANGED <<call, verdict, len>>
        BY <3>0, <3>2, <3>4, <2>1 DEF TCPCheckStatus, Asking, Return, Goto, Heard, Ask, Least, Ordinary, Local, control, socket, block, request, modem, peer
      <4> QED
        BY <1>0, <1>1, <1>2, <3>0, <3>1, <3>2, <3>4, <4>1 DEF CInv, Requests, Numbered, Routines, Askers, Pollers, Writers, Stops, Failing, Reading, Calls, CallOf
    <3>5. CASE size = 0 /\ number /\ rxLen = 0
      <4>1. at' = Here /\ result' = 0 /\ UNCHANGED <<call, verdict, len>>
        BY <3>0, <3>2, <3>5, <2>1 DEF TCPCheckStatus, Asking, Return, Goto, Heard, Ask, Least, Ordinary, Local, control, socket, block, request, modem, peer
      <4> QED
        BY <1>0, <1>1, <1>2, <3>0, <3>1, <3>2, <3>5, <4>1 DEF CInv, Requests, Numbered, Routines, Askers, Pollers, Writers, Stops, Failing, Reading, Calls, CallOf
    <3>6. CASE size = 0 /\ number /\ rxLen > 0
      <4>1. /\ at' = "TCPRead" /\ result' = result /\ call' = "TCPRead" /\ verdict' = "pending"
            /\ len' = (IF rxLen < TCP_MAX_BUF_SIZE THEN rxLen ELSE TCP_MAX_BUF_SIZE) /\ ~hwFault
        BY <3>0, <3>2, <3>6, <2>1 DEF TCPCheckStatus, Asking, Return, Goto, Heard, Ask, Least, Ordinary, Local, control, socket, block, request, modem, peer
      <4> QED
        BY <1>0, <1>1, <1>2, <3>0, <3>1, <3>2, <3>6, <4>1 DEF CInv, Requests, Numbered, Routines, Askers, Pollers, Writers, Stops, Failing, Reading, Calls, CallOf
    <3> QED
      BY <3>3, <3>4, <3>5, <3>6, <3>2, <2>1 DEF TCPCheckStatus, Asking
  <2>2. CASE TCPReadEnds
    <3>0. at = "TCPRead" /\ Here = Head(stack) /\ Calls(Here, at)
      BY <1>1, <2>2 DEF TCPReadEnds, Asking, Routines
    <3>1. UNCHANGED <<number, rxLen, hwFault, session, link, rcv, wire, packet>>
      BY <2>2 DEF TCPReadEnds, Return, Goto, Heard, Ask, Local, control, socket, block, request, modem, peer
    <3>2. /\ size \in Nat /\ rxLen \in Nat /\ len \in Nat /\ number \in BOOLEAN /\ hwFault \in BOOLEAN
          /\ verdict \in {"pending", "success", "failure"} /\ result \in Int
      BY DEF CInv, Types
    <3>3. CASE verdict = "success"
      <4>1. at' = Here /\ result' = len /\ size' = len /\ call' = "none" /\ verdict' = "success"
        BY <3>0, <3>2, <3>3, <2>2 DEF TCPReadEnds, Asking, Return, Goto, Heard, Ask, Least, Ordinary, Local, control, socket, block, request, modem, peer
      <4> QED
        BY <1>0, <1>1, <1>2, <3>0, <3>1, <3>2, <3>3, <4>1 DEF CInv, Requests, Numbered, Routines, Askers, Pollers, Writers, Stops, Failing, Reading, Calls, CallOf
    <3>4. CASE verdict = "failure"
      <4>1. /\ at' = "TCPHandleError" /\ result' = -1 /\ size' = size
            /\ call' = "none" /\ verdict' = "success"
        BY <3>0, <3>2, <3>4, <2>2 DEF TCPReadEnds, Asking, Return, Goto, Heard, Ask, Least, Ordinary, Local, control, socket, block, request, modem, peer
      <4> QED
        BY <1>0, <1>1, <1>2, <3>0, <3>1, <3>2, <3>4, <4>1 DEF CInv, Requests, Numbered, Routines, Askers, Pollers, Writers, Stops, Failing, Reading, Calls, CallOf
    <3> QED
      BY <3>3, <3>4, <3>2, <2>2 DEF TCPReadEnds, Asking
  <2>3. CASE TCPHandleError
    BY <1>0, <1>1, <1>2, <2>3 DEF CInv, Ordinary, TCPHandleError, Return, Goto, Asking, Ask, Heard, Local, control, socket, block, request, modem, peer, RequestReset, Least, Types, Requests, CallOf, Numbered, Blocks, Calls, Routines, Askers, Pollers, Writers, Stops, Failing, Reading
  <2>4. CASE TCPClient_stop
    BY <1>0, <1>1, <1>2, <2>4 DEF CInv, Ordinary, TCPClient_stop, Return, Goto, Asking, Ask, Heard, Local, control, socket, block, request, modem, peer, RequestReset, Least, Types, Requests, CallOf, Numbered, Blocks, Calls, Routines, Askers, Pollers, Writers, Stops, Failing, Reading
  <2>5. CASE Closed
    BY <1>0, <1>1, <1>2, <2>5 DEF CInv, Ordinary, Closed, Return, Goto, Asking, Ask, Heard, Local, control, socket, block, request, modem, peer, RequestReset, Least, Types, Requests, CallOf, Numbered, Blocks, Calls, Routines, Askers, Pollers, Writers, Stops, Failing, Reading
  <2>6. CASE TCPClient_connected
    BY <1>0, <1>1, <1>2, <2>6 DEF CInv, Ordinary, TCPClient_connected, Return, Goto, Asking, Ask, Heard, Local, control, socket, block, request, modem, peer, RequestReset, Least, Types, Requests, CallOf, Numbered, Blocks, Calls, Routines, Askers, Pollers, Writers, Stops, Failing, Reading
  <2>7. CASE TCPClient_write
    BY <1>0, <1>1, <1>2, <2>7 DEF CInv, Ordinary, TCPClient_write, Return, Goto, Asking, Ask, Heard, Local, control, socket, block, request, modem, peer, RequestReset, Least, Types, Requests, CallOf, Numbered, Blocks, Calls, Routines, Askers, Pollers, Writers, Stops, Failing, Reading
  <2>8. CASE TCPWriteEnds
    <3>0. at = "TCPWrite" /\ Here = Head(stack) /\ Calls(Here, at)
      BY <1>1, <2>8 DEF TCPWriteEnds, Asking, Routines
    <3>1. UNCHANGED <<number, rxLen, size, hwFault, session, sessions, link, rcv, wire, packet>>
      BY <2>8 DEF TCPWriteEnds, Return, Goto, Heard, Ask, Local, control, socket, block, request, modem, peer
    <3>2. /\ size \in Nat /\ rxLen \in Nat /\ len \in Nat /\ number \in BOOLEAN /\ hwFault \in BOOLEAN
          /\ verdict \in {"pending", "success", "failure"} /\ result \in Int
      BY DEF CInv, Types
    <3>3. CASE verdict = "success"
      <4>1. at' = Here /\ result' = 1 /\ call' = "none" /\ verdict' = "success"
        BY <3>0, <3>2, <3>3, <2>8 DEF TCPWriteEnds, Asking, Return, Goto, Heard, Ask, Least, Ordinary, Local, control, socket, block, request, modem, peer
      <4> QED
        BY <1>0, <1>1, <1>2, <3>0, <3>1, <3>2, <3>3, <4>1 DEF CInv, Requests, Numbered, Routines, Askers, Pollers, Writers, Stops, Failing, Reading, Calls, CallOf
    <3>4. CASE verdict = "failure"
      <4>1. /\ at' = "TCPHandleError" /\ result' = 0
            /\ call' = "none" /\ verdict' = "success"
        BY <3>0, <3>2, <3>4, <2>8 DEF TCPWriteEnds, Asking, Return, Goto, Heard, Ask, Least, Ordinary, Local, control, socket, block, request, modem, peer
      <4> QED
        BY <1>0, <1>1, <1>2, <3>0, <3>1, <3>2, <3>4, <4>1 DEF CInv, Requests, Numbered, Routines, Askers, Pollers, Writers, Stops, Failing, Reading, Calls, CallOf
    <3> QED
      BY <3>3, <3>4, <3>2, <2>8 DEF TCPWriteEnds, Asking
  <2>9. CASE TCPClient_flush
    BY <1>0, <1>1, <1>2, <2>9 DEF CInv, Ordinary, TCPClient_flush, Return, Goto, Asking, Ask, Heard, Local, control, socket, block, request, modem, peer, RequestReset, Least, Types, Requests, CallOf, Numbered, Blocks, Calls, Routines, Askers, Pollers, Writers, Stops, Failing, Reading
  <2>10. CASE TCPFlushEnds
    BY <1>0, <1>1, <1>2, <2>10 DEF CInv, Ordinary, TCPFlushEnds, Return, Goto, Asking, Ask, Heard, Local, control, socket, block, request, modem, peer, RequestReset, Least, Types, Requests, CallOf, Numbered, Blocks, Calls, Routines, Askers, Pollers, Writers, Stops, Failing, Reading
  <2>11. CASE TCPClient_connect
    BY <1>0, <1>1, <1>2, <2>11 DEF CInv, Ordinary, TCPClient_connect, Return, Goto, Asking, Ask, Heard, Local, control, socket, block, request, modem, peer, RequestReset, Least, Types, Requests, CallOf, Numbered, Blocks, Calls, Routines, Askers, Pollers, Writers, Stops, Failing, Reading
  <2>12. CASE APNConfigEnds
    <3>0. at = "APNConfig" /\ Here = Head(stack) /\ Calls(Here, at)
      BY <1>1, <2>12 DEF APNConfigEnds, Asking, Routines
    <3>1. UNCHANGED <<rxLen, size, hwFault, session, sessions, link, rcv, wire, packet, result>>
      BY <2>12 DEF APNConfigEnds, Return, Goto, Heard, Ask, Local, control, socket, block, request, modem, peer
    <3>2. /\ size \in Nat /\ rxLen \in Nat /\ len \in Nat /\ number \in BOOLEAN /\ hwFault \in BOOLEAN
          /\ verdict \in {"pending", "success", "failure"} /\ result \in Int
      BY DEF CInv, Types
    <3>3. CASE verdict = "success"
      <4>1. /\ at' = "TCPClientOpen" /\ number' = FALSE
            /\ call' = "TCPClientOpen" /\ verdict' = "pending"
        BY <3>0, <3>2, <3>3, <2>12 DEF APNConfigEnds, Asking, Return, Goto, Heard, Ask, Least, Ordinary, Local, control, socket, block, request, modem, peer
      <4> QED
        BY <1>0, <1>1, <1>2, <3>0, <3>1, <3>2, <3>3, <4>1 DEF CInv, Requests, Numbered, Routines, Askers, Pollers, Writers, Stops, Failing, Reading, Calls, CallOf
    <3>4. CASE verdict = "failure"
      <4>1. /\ at' = "TCPClient_connect" /\ number' = number
            /\ call' = "none" /\ verdict' = "success"
        BY <3>0, <3>2, <3>4, <2>12 DEF APNConfigEnds, Asking, Return, Goto, Heard, Ask, Least, Ordinary, Local, control, socket, block, request, modem, peer
      <4> QED
        BY <1>0, <1>1, <1>2, <3>0, <3>1, <3>2, <3>4, <4>1 DEF CInv, Requests, Numbered, Routines, Askers, Pollers, Writers, Stops, Failing, Reading, Calls, CallOf
    <3> QED
      BY <3>3, <3>4, <3>2, <2>12 DEF APNConfigEnds, Asking
  <2>13. CASE TCPOpenEnds
    BY <1>0, <1>1, <1>2, <2>13 DEF CInv, Ordinary, TCPOpenEnds, Return, Goto, Asking, Ask, Heard, Local, control, socket, block, request, modem, peer, RequestReset, Least, Types, Requests, CallOf, Numbered, Blocks, Calls, Routines, Askers, Pollers, Writers, Stops, Failing, Reading
  <2> QED
    BY <2>1, <2>2, <2>3, <2>4, <2>5, <2>6, <2>7, <2>8, <2>9, <2>10, <2>11, <2>12, <2>13 DEF Tcp
<1>6. Blocks'
  <2>1. CASE TCPCheckStatus
    <3>0. at = "TCPCheckStatus" /\ Here = Head(stack) /\ Calls(Here, at)
      BY <1>1, <2>1 DEF TCPCheckStatus, Asking, Routines
    <3>1. UNCHANGED <<number, rxLen, size, hwFault, session, sessions, link, rcv, wire, packet>>
      BY <2>1 DEF TCPCheckStatus, Return, Goto, Heard, Ask, Local, control, socket, block, request, modem, peer
    <3>2. /\ size \in Nat /\ rxLen \in Nat /\ len \in Nat /\ number \in BOOLEAN /\ hwFault \in BOOLEAN
          /\ verdict \in {"pending", "success", "failure"} /\ result \in Int
      BY DEF CInv, Types
    <3>3. CASE size > 0
      <4>1. at' = Here /\ result' = size /\ UNCHANGED <<call, verdict, len>>
        BY <3>0, <3>2, <3>3, <2>1 DEF TCPCheckStatus, Asking, Return, Goto, Heard, Ask, Least, Ordinary, Local, control, socket, block, request, modem, peer
      <4> QED
        BY <1>0, <1>1, <1>2, <3>0, <3>1, <3>2, <3>3, <4>1 DEF CInv, Requests, Numbered, Blocks, Routines, Askers, Pollers, Writers, Stops, Failing, Reading, Calls, CallOf
    <3>4. CASE size = 0 /\ ~number
      <4>1. at' = Here /\ result' = -1 /\ UNCHANGED <<call, verdict, len>>
        BY <3>0, <3>2, <3>4, <2>1 DEF TCPCheckStatus, Asking, Return, Goto, Heard, Ask, Least, Ordinary, Local, control, socket, block, request, modem, peer
      <4> QED
        BY <1>0, <1>1, <1>2, <3>0, <3>1, <3>2, <3>4, <4>1 DEF CInv, Requests, Numbered, Blocks, Routines, Askers, Pollers, Writers, Stops, Failing, Reading, Calls, CallOf
    <3>5. CASE size = 0 /\ number /\ rxLen = 0
      <4>1. at' = Here /\ result' = 0 /\ UNCHANGED <<call, verdict, len>>
        BY <3>0, <3>2, <3>5, <2>1 DEF TCPCheckStatus, Asking, Return, Goto, Heard, Ask, Least, Ordinary, Local, control, socket, block, request, modem, peer
      <4> QED
        BY <1>0, <1>1, <1>2, <3>0, <3>1, <3>2, <3>5, <4>1 DEF CInv, Requests, Numbered, Blocks, Routines, Askers, Pollers, Writers, Stops, Failing, Reading, Calls, CallOf
    <3>6. CASE size = 0 /\ number /\ rxLen > 0
      <4>1. /\ at' = "TCPRead" /\ result' = result /\ call' = "TCPRead" /\ verdict' = "pending"
            /\ len' = (IF rxLen < TCP_MAX_BUF_SIZE THEN rxLen ELSE TCP_MAX_BUF_SIZE) /\ ~hwFault
        BY <3>0, <3>2, <3>6, <2>1 DEF TCPCheckStatus, Asking, Return, Goto, Heard, Ask, Least, Ordinary, Local, control, socket, block, request, modem, peer
      <4> QED
        BY <1>0, <1>1, <1>2, <3>0, <3>1, <3>2, <3>6, <4>1 DEF CInv, Requests, Numbered, Blocks, Routines, Askers, Pollers, Writers, Stops, Failing, Reading, Calls, CallOf
    <3> QED
      BY <3>3, <3>4, <3>5, <3>6, <3>2, <2>1 DEF TCPCheckStatus, Asking
  <2>2. CASE TCPReadEnds
    <3>0. at = "TCPRead" /\ Here = Head(stack) /\ Calls(Here, at)
      BY <1>1, <2>2 DEF TCPReadEnds, Asking, Routines
    <3>1. number /\ number' = number /\ size = 0 /\ len \in 1 .. TCP_MAX_BUF_SIZE
      BY <3>0, <2>2 DEF CInv, Types, Numbered, Requests, TCPReadEnds, socket
    <3>2. Here' = Here /\ Here \notin {"hello", "greeted"}
      BY <1>0, <3>0 DEF Calls, Askers, Pollers, Failing
    <3>3. CASE verdict = "success"
      <4>1. at' = Here /\ result' = len /\ size' = len
        BY <3>0, <3>3, <2>2 DEF TCPReadEnds, Return
      <4>2. at' \notin Failing
        BY <1>1, <4>1 DEF Failing, Routines
      <4>3. size' = (IF result' > 0 THEN result' ELSE 0)
        BY <3>1, <4>1
      <4> QED
        BY <3>1, <3>2, <4>2, <4>3 DEF Blocks
    <3>4. CASE verdict = "failure"
      <4>1. at' = "TCPHandleError" /\ size' = 0
        BY <3>1, <3>4, <2>2 DEF TCPReadEnds
      <4>2. at' \notin Pollers /\ ~(size' > 0)
        BY <4>1 DEF Pollers
      <4> QED
        BY <3>2, <4>1, <4>2 DEF Blocks
    <3> QED
      BY <3>3, <3>4, <2>2 DEF TCPReadEnds
  <2>3. CASE TCPHandleError
    <3>0. at = "TCPHandleError" /\ Here = Head(stack) /\ Calls(Here, at)
      BY <1>1, <2>3 DEF TCPHandleError, Asking, Routines
    <3>1. UNCHANGED <<rxLen, size, hwFault, session, sessions, link, rcv, wire, packet, result, call, verdict, len>>
      BY <2>3 DEF TCPHandleError, Return, Goto, Heard, Ask, Local, control, socket, block, request, modem, peer
    <3>2. /\ size \in Nat /\ rxLen \in Nat /\ len \in Nat /\ number \in BOOLEAN /\ hwFault \in BOOLEAN
          /\ verdict \in {"pending", "success", "failure"} /\ result \in Int
      BY DEF CInv, Types
    <3>3. CASE hwFault
      <4>1. at' = Here /\ number' = FALSE
        BY <3>0, <3>2, <3>3, <2>3 DEF TCPHandleError, Asking, Return, Goto, Heard, Ask, Least, Ordinary, Local, control, socket, block, request, modem, peer
      <4>2. Here \in Pollers => size = 0 /\ result = -1
        BY <3>0 DEF CInv, Numbered, Blocks, Failing
      <4>3. at' \in Pollers => size' = (IF result' > 0 THEN result' ELSE 0)
        BY <3>1, <4>1, <4>2
      <4>4. at' \notin Failing /\ size' = size /\ number' = FALSE
        BY <1>1, <3>1, <4>1 DEF Failing, Routines
      <4>5. ASSUME Here \in {"awaited", "polled", "welcomed", "dispatch"} \cup Reading, size > 0
            PROVE FALSE
        BY <1>1, <3>0, <3>2, <4>2, <4>5 DEF CInv, Numbered, Blocks, Calls, Reading, Pollers, Failing, Askers, Writers, Stops
      <4> QED
        BY <1>0, <4>3, <4>4, <4>5 DEF CInv, Blocks
    <3>4. CASE ~hwFault
      <4>1. at' = "TCPClient_stop" /\ number' = number
        BY <3>0, <3>2, <3>4, <2>3 DEF TCPHandleError, Asking, Return, Goto, Heard, Ask, Least, Ordinary, Local, control, socket, block, request, modem, peer
      <4> QED
        BY <1>0, <1>1, <1>2, <3>0, <3>1, <3>2, <3>4, <4>1 DEF CInv, Requests, Numbered, Blocks, Routines, Askers, Pollers, Writers, Stops, Failing, Reading, Calls, CallOf
    <3> QED
      BY <3>3, <3>4, <3>2, <2>3 DEF TCPHandleError, Asking
  <2>4. CASE TCPClient_stop
    <3>0. at = "TCPClient_stop" /\ Here = Head(stack) /\ Calls(Here, at)
      BY <1>1, <2>4 DEF TCPClient_stop, Asking, Routines
    <3>1. UNCHANGED <<number, rxLen, size, hwFault, session, sessions, link, rcv, wire, packet, result>>
      BY <2>4 DEF TCPClient_stop, Return, Goto, Heard, Ask, Local, control, socket, block, request, modem, peer
    <3>2. /\ size \in Nat /\ rxLen \in Nat /\ len \in Nat /\ number \in BOOLEAN /\ hwFault \in BOOLEAN
          /\ verdict \in {"pending", "success", "failure"} /\ result \in Int
      BY DEF CInv, Types
    <3>3. CASE number
      <4>1. at' = "closing" /\ call' = "TCPClientClose" /\ verdict' = "pending"
        BY <3>0, <3>2, <3>3, <2>4 DEF TCPClient_stop, Asking, Return, Goto, Heard, Ask, Least, Ordinary, Local, control, socket, block, request, modem, peer
      <4> QED
        BY <1>0, <1>1, <1>2, <3>0, <3>1, <3>2, <3>3, <4>1 DEF CInv, Requests, Numbered, Blocks, Routines, Askers, Pollers, Writers, Stops, Failing, Reading, Calls, CallOf
    <3>4. CASE ~number
      <4>1. at' = Here /\ UNCHANGED <<call, verdict, len>>
        BY <3>0, <3>2, <3>4, <2>4 DEF TCPClient_stop, Asking, Return, Goto, Heard, Ask, Least, Ordinary, Local, control, socket, block, request, modem, peer
      <4> QED
        BY <1>0, <1>1, <1>2, <3>0, <3>1, <3>2, <3>4, <4>1 DEF CInv, Requests, Numbered, Blocks, Routines, Askers, Pollers, Writers, Stops, Failing, Reading, Calls, CallOf
    <3> QED
      BY <3>3, <3>4, <3>2, <2>4 DEF TCPClient_stop, Asking
  <2>5. CASE Closed
    <3>0. at = "closing" /\ Here = Head(stack) /\ Calls(Here, at)
      BY <1>1, <2>5 DEF Closed, Asking, Routines
    <3>1. UNCHANGED <<rxLen, size, hwFault, session, sessions, link, rcv, wire, packet, result>>
      BY <2>5 DEF Closed, Return, Goto, Heard, Ask, Local, control, socket, block, request, modem, peer
    <3>2. /\ size \in Nat /\ rxLen \in Nat /\ len \in Nat /\ number \in BOOLEAN /\ hwFault \in BOOLEAN
          /\ verdict \in {"pending", "success", "failure"} /\ result \in Int
      BY DEF CInv, Types
    <3>3. CASE TRUE
      <4>1. at' = Here /\ number' = FALSE /\ call' = "none" /\ verdict' = "success" /\ verdict # "pending"
        BY <3>0, <3>2, <3>3, <2>5 DEF Closed, Asking, Return, Goto, Heard, Ask, Least, Ordinary, Local, control, socket, block, request, modem, peer
      <4>2. Here \in Pollers => size = 0 /\ result = -1
        BY <3>0 DEF CInv, Numbered, Blocks, Failing
      <4>3. at' \in Pollers => size' = (IF result' > 0 THEN result' ELSE 0)
        BY <3>1, <4>1, <4>2
      <4>4. at' \notin Failing /\ size' = size /\ number' = FALSE
        BY <1>1, <3>1, <4>1 DEF Failing, Routines
      <4>5. ASSUME Here \in {"awaited", "polled", "welcomed", "dispatch"} \cup Reading, size > 0
            PROVE FALSE
        BY <1>1, <3>0, <3>2, <4>2, <4>5 DEF CInv, Numbered, Blocks, Calls, Reading, Pollers, Failing, Askers, Writers, Stops
      <4> QED
        BY <1>0, <4>3, <4>4, <4>5 DEF CInv, Blocks
    <3> QED
      BY <3>3, <3>2, <2>5 DEF Closed, Asking
  <2>6. CASE TCPClient_connected
    BY <1>0, <1>1, <1>2, <2>6 DEF CInv, Ordinary, TCPClient_connected, Return, Goto, Asking, Ask, Heard, Local, control, socket, block, request, modem, peer, RequestReset, Least, Types, Requests, CallOf, Numbered, Blocks, Calls, Routines, Askers, Pollers, Writers, Stops, Failing, Reading
  <2>7. CASE TCPClient_write
    BY <1>0, <1>1, <1>2, <2>7 DEF CInv, Ordinary, TCPClient_write, Return, Goto, Asking, Ask, Heard, Local, control, socket, block, request, modem, peer, RequestReset, Least, Types, Requests, CallOf, Numbered, Blocks, Calls, Routines, Askers, Pollers, Writers, Stops, Failing, Reading
  <2>8. CASE TCPWriteEnds
    BY <1>0, <1>1, <1>2, <2>8 DEF CInv, Ordinary, TCPWriteEnds, Return, Goto, Asking, Ask, Heard, Local, control, socket, block, request, modem, peer, RequestReset, Least, Types, Requests, CallOf, Numbered, Blocks, Calls, Routines, Askers, Pollers, Writers, Stops, Failing, Reading
  <2>9. CASE TCPClient_flush
    BY <1>0, <1>1, <1>2, <2>9 DEF CInv, Ordinary, TCPClient_flush, Return, Goto, Asking, Ask, Heard, Local, control, socket, block, request, modem, peer, RequestReset, Least, Types, Requests, CallOf, Numbered, Blocks, Calls, Routines, Askers, Pollers, Writers, Stops, Failing, Reading
  <2>10. CASE TCPFlushEnds
    BY <1>0, <1>1, <1>2, <2>10 DEF CInv, Ordinary, TCPFlushEnds, Return, Goto, Asking, Ask, Heard, Local, control, socket, block, request, modem, peer, RequestReset, Least, Types, Requests, CallOf, Numbered, Blocks, Calls, Routines, Askers, Pollers, Writers, Stops, Failing, Reading
  <2>11. CASE TCPClient_connect
    BY <1>0, <1>1, <1>2, <2>11 DEF CInv, Ordinary, TCPClient_connect, Return, Goto, Asking, Ask, Heard, Local, control, socket, block, request, modem, peer, RequestReset, Least, Types, Requests, CallOf, Numbered, Blocks, Calls, Routines, Askers, Pollers, Writers, Stops, Failing, Reading
  <2>12. CASE APNConfigEnds
    BY <1>0, <1>1, <1>2, <2>12 DEF CInv, Ordinary, APNConfigEnds, Return, Goto, Asking, Ask, Heard, Local, control, socket, block, request, modem, peer, RequestReset, Least, Types, Requests, CallOf, Numbered, Blocks, Calls, Routines, Askers, Pollers, Writers, Stops, Failing, Reading
  <2>13. CASE TCPOpenEnds
    BY <1>0, <1>1, <1>2, <2>13 DEF CInv, Ordinary, TCPOpenEnds, Return, Goto, Asking, Ask, Heard, Local, control, socket, block, request, modem, peer, RequestReset, Least, Types, Requests, CallOf, Numbered, Blocks, Calls, Routines, Askers, Pollers, Writers, Stops, Failing, Reading
  <2> QED
    BY <2>1, <2>2, <2>3, <2>4, <2>5, <2>6, <2>7, <2>8, <2>9, <2>10, <2>11, <2>12, <2>13 DEF Tcp
<1>7. Sockets'
  <2>1. CASE TCPCheckStatus
    <3>0. at = "TCPCheckStatus" /\ Here = Head(stack) /\ Calls(Here, at)
      BY <1>1, <2>1 DEF TCPCheckStatus, Asking, Routines
    <3>1. UNCHANGED <<number, rxLen, size, hwFault, session, sessions, link, rcv, wire, packet>>
      BY <2>1 DEF TCPCheckStatus, Return, Goto, Heard, Ask, Local, control, socket, block, request, modem, peer
    <3>2. /\ size \in Nat /\ rxLen \in Nat /\ len \in Nat /\ number \in BOOLEAN /\ hwFault \in BOOLEAN
          /\ verdict \in {"pending", "success", "failure"} /\ result \in Int
      BY DEF CInv, Types
    <3>3. CASE size > 0
      <4>1. at' = Here /\ result' = size /\ UNCHANGED <<call, verdict, len>>
        BY <3>0, <3>2, <3>3, <2>1 DEF TCPCheckStatus, Asking, Return, Goto, Heard, Ask, Least, Ordinary, Local, control, socket, block, request, modem, peer
      <4> QED
        BY <1>0, <1>1, <1>2, <3>0, <3>1, <3>2, <3>3, <4>1 DEF CInv, Requests, Numbered, Sockets, Routines, Askers, Pollers, Writers, Stops, Failing, Reading, Calls, CallOf
    <3>4. CASE size = 0 /\ ~number
      <4>1. at' = Here /\ result' = -1 /\ UNCHANGED <<call, verdict, len>>
        BY <3>0, <3>2, <3>4, <2>1 DEF TCPCheckStatus, Asking, Return, Goto, Heard, Ask, Least, Ordinary, Local, control, socket, block, request, modem, peer
      <4> QED
        BY <1>0, <1>1, <1>2, <3>0, <3>1, <3>2, <3>4, <4>1 DEF CInv, Requests, Numbered, Sockets, Routines, Askers, Pollers, Writers, Stops, Failing, Reading, Calls, CallOf
    <3>5. CASE size = 0 /\ number /\ rxLen = 0
      <4>1. at' = Here /\ result' = 0 /\ UNCHANGED <<call, verdict, len>>
        BY <3>0, <3>2, <3>5, <2>1 DEF TCPCheckStatus, Asking, Return, Goto, Heard, Ask, Least, Ordinary, Local, control, socket, block, request, modem, peer
      <4> QED
        BY <1>0, <1>1, <1>2, <3>0, <3>1, <3>2, <3>5, <4>1 DEF CInv, Requests, Numbered, Sockets, Routines, Askers, Pollers, Writers, Stops, Failing, Reading, Calls, CallOf
    <3>6. CASE size = 0 /\ number /\ rxLen > 0
      <4>1. /\ at' = "TCPRead" /\ result' = result /\ call' = "TCPRead" /\ verdict' = "pending"
            /\ len' = (IF rxLen < TCP_MAX_BUF_SIZE THEN rxLen ELSE TCP_MAX_BUF_SIZE) /\ ~hwFault
        BY <3>0, <3>2, <3>6, <2>1 DEF TCPCheckStatus, Asking, Return, Goto, Heard, Ask, Least, Ordinary, Local, control, socket, block, request, modem, peer
      <4> QED
        BY <1>0, <1>1, <1>2, <3>0, <3>1, <3>2, <3>6, <4>1 DEF CInv, Requests, Numbered, Sockets, Routines, Askers, Pollers, Writers, Stops, Failing, Reading, Calls, CallOf
    <3> QED
      BY <3>3, <3>4, <3>5, <3>6, <3>2, <2>1 DEF TCPCheckStatus, Asking
  <2>2. CASE TCPReadEnds
    BY <1>0, <1>1, <1>2, <2>2 DEF CInv, Ordinary, TCPReadEnds, Return, Goto, Asking, Ask, Heard, Local, control, socket, block, request, modem, peer, RequestReset, Least, Types, Requests, CallOf, Numbered, Sockets, Calls, Routines, Askers, Pollers, Writers, Stops, Failing, Reading
  <2>3. CASE TCPHandleError
    BY <1>0, <1>1, <1>2, <2>3 DEF CInv, Ordinary, TCPHandleError, Return, Goto, Asking, Ask, Heard, Local, control, socket, block, request, modem, peer, RequestReset, Least, Types, Requests, CallOf, Numbered, Sockets, Calls, Routines, Askers, Pollers, Writers, Stops, Failing, Reading
  <2>4. CASE TCPClient_stop
    BY <1>0, <1>1, <1>2, <2>4 DEF CInv, Ordinary, TCPClient_stop, Return, Goto, Asking, Ask, Heard, Local, control, socket, block, request, modem, peer, RequestReset, Least, Types, Requests, CallOf, Numbered, Sockets, Calls, Routines, Askers, Pollers, Writers, Stops, Failing, Reading
  <2>5. CASE Closed
    BY <1>0, <1>1, <1>2, <2>5 DEF CInv, Ordinary, Closed, Return, Goto, Asking, Ask, Heard, Local, control, socket, block, request, modem, peer, RequestReset, Least, Types, Requests, CallOf, Numbered, Sockets, Calls, Routines, Askers, Pollers, Writers, Stops, Failing, Reading
  <2>6. CASE TCPClient_connected
    BY <1>0, <1>1, <1>2, <2>6 DEF CInv, Ordinary, TCPClient_connected, Return, Goto, Asking, Ask, Heard, Local, control, socket, block, request, modem, peer, RequestReset, Least, Types, Requests, CallOf, Numbered, Sockets, Calls, Routines, Askers, Pollers, Writers, Stops, Failing, Reading
  <2>7. CASE TCPClient_write
    BY <1>0, <1>1, <1>2, <2>7 DEF CInv, Ordinary, TCPClient_write, Return, Goto, Asking, Ask, Heard, Local, control, socket, block, request, modem, peer, RequestReset, Least, Types, Requests, CallOf, Numbered, Sockets, Calls, Routines, Askers, Pollers, Writers, Stops, Failing, Reading
  <2>8. CASE TCPWriteEnds
    BY <1>0, <1>1, <1>2, <2>8 DEF CInv, Ordinary, TCPWriteEnds, Return, Goto, Asking, Ask, Heard, Local, control, socket, block, request, modem, peer, RequestReset, Least, Types, Requests, CallOf, Numbered, Sockets, Calls, Routines, Askers, Pollers, Writers, Stops, Failing, Reading
  <2>9. CASE TCPClient_flush
    BY <1>0, <1>1, <1>2, <2>9 DEF CInv, Ordinary, TCPClient_flush, Return, Goto, Asking, Ask, Heard, Local, control, socket, block, request, modem, peer, RequestReset, Least, Types, Requests, CallOf, Numbered, Sockets, Calls, Routines, Askers, Pollers, Writers, Stops, Failing, Reading
  <2>10. CASE TCPFlushEnds
    BY <1>0, <1>1, <1>2, <2>10 DEF CInv, Ordinary, TCPFlushEnds, Return, Goto, Asking, Ask, Heard, Local, control, socket, block, request, modem, peer, RequestReset, Least, Types, Requests, CallOf, Numbered, Sockets, Calls, Routines, Askers, Pollers, Writers, Stops, Failing, Reading
  <2>11. CASE TCPClient_connect
    BY <1>0, <1>1, <1>2, <2>11 DEF CInv, Ordinary, TCPClient_connect, Return, Goto, Asking, Ask, Heard, Local, control, socket, block, request, modem, peer, RequestReset, Least, Types, Requests, CallOf, Numbered, Sockets, Calls, Routines, Askers, Pollers, Writers, Stops, Failing, Reading
  <2>12. CASE APNConfigEnds
    <3>1. /\ at = "APNConfig" /\ at' \in {"TCPClientOpen", "TCPClient_connect"}
          /\ number' = FALSE \/ number' = number
      BY <2>12 DEF APNConfigEnds, Asking, Goto
    <3>2. UNCHANGED <<rxLen, size, hwFault, session, sessions, link, rcv, wire, packet>>
      BY <2>12 DEF APNConfigEnds, Local, block, modem, peer
    <3>3. Here = "hello" /\ Here' = "hello"
      BY <1>0, <1>1, <3>1 DEF Calls, Routines, Failing
    <3>4. number = FALSE /\ number' = FALSE
      BY <3>1, <3>3 DEF CInv, Numbered, Types
    <3>5. at' # "closing" /\ at' # "TCPRead"
      BY <3>1
    <3> QED
      BY <3>2, <3>3, <3>4, <3>5 DEF CInv, Sockets
  <2>13. CASE TCPOpenEnds
    BY <1>0, <1>1, <1>2, <2>13 DEF CInv, Ordinary, TCPOpenEnds, Return, Goto, Asking, Ask, Heard, Local, control, socket, block, request, modem, peer, RequestReset, Least, Types, Requests, CallOf, Numbered, Sockets, Calls, Routines, Askers, Pollers, Writers, Stops, Failing, Reading
  <2> QED
    BY <2>1, <2>2, <2>3, <2>4, <2>5, <2>6, <2>7, <2>8, <2>9, <2>10, <2>11, <2>12, <2>13 DEF Tcp
<1>8. Reader'
  <2>1. CASE TCPCheckStatus
    BY <1>0, <1>1, <1>2, <2>1 DEF CInv, Ordinary, TCPCheckStatus, Return, Goto, Asking, Ask, Heard, Local, control, socket, block, request, modem, peer, RequestReset, Least, Types, Requests, CallOf, Reader, Calls, Routines, Askers, Pollers, Writers, Stops, Failing, Reading
  <2>2. CASE TCPReadEnds
    BY <1>0, <1>1, <1>2, <2>2 DEF CInv, Ordinary, TCPReadEnds, Return, Goto, Asking, Ask, Heard, Local, control, socket, block, request, modem, peer, RequestReset, Least, Types, Requests, CallOf, Reader, Calls, Routines, Askers, Pollers, Writers, Stops, Failing, Reading
  <2>3. CASE TCPHandleError
    BY <1>0, <1>1, <1>2, <2>3 DEF CInv, Ordinary, TCPHandleError, Return, Goto, Asking, Ask, Heard, Local, control, socket, block, request, modem, peer, RequestReset, Least, Types, Requests, CallOf, Reader, Calls, Routines, Askers, Pollers, Writers, Stops, Failing, Reading
  <2>4. CASE TCPClient_stop
    BY <1>0, <1>1, <1>2, <2>4 DEF CInv, Ordinary, TCPClient_stop, Return, Goto, Asking, Ask, Heard, Local, control, socket, block, request, modem, peer, RequestReset, Least, Types, Requests, CallOf, Reader, Calls, Routines, Askers, Pollers, Writers, Stops, Failing, Reading
  <2>5. CASE Closed
    BY <1>0, <1>1, <1>2, <2>5 DEF CInv, Ordinary, Closed, Return, Goto, Asking, Ask, Heard, Local, control, socket, block, request, modem, peer, RequestReset, Least, Types, Requests, CallOf, Reader, Calls, Routines, Askers, Pollers, Writers, Stops, Failing, Reading
  <2>6. CASE TCPClient_connected
    BY <1>0, <1>1, <1>2, <2>6 DEF CInv, Ordinary, TCPClient_connected, Return, Goto, Asking, Ask, Heard, Local, control, socket, block, request, modem, peer, RequestReset, Least, Types, Requests, CallOf, Reader, Calls, Routines, Askers, Pollers, Writers, Stops, Failing, Reading
  <2>7. CASE TCPClient_write
    BY <1>0, <1>1, <1>2, <2>7 DEF CInv, Ordinary, TCPClient_write, Return, Goto, Asking, Ask, Heard, Local, control, socket, block, request, modem, peer, RequestReset, Least, Types, Requests, CallOf, Reader, Calls, Routines, Askers, Pollers, Writers, Stops, Failing, Reading
  <2>8. CASE TCPWriteEnds
    BY <1>0, <1>1, <1>2, <2>8 DEF CInv, Ordinary, TCPWriteEnds, Return, Goto, Asking, Ask, Heard, Local, control, socket, block, request, modem, peer, RequestReset, Least, Types, Requests, CallOf, Reader, Calls, Routines, Askers, Pollers, Writers, Stops, Failing, Reading
  <2>9. CASE TCPClient_flush
    BY <1>0, <1>1, <1>2, <2>9 DEF CInv, Ordinary, TCPClient_flush, Return, Goto, Asking, Ask, Heard, Local, control, socket, block, request, modem, peer, RequestReset, Least, Types, Requests, CallOf, Reader, Calls, Routines, Askers, Pollers, Writers, Stops, Failing, Reading
  <2>10. CASE TCPFlushEnds
    BY <1>0, <1>1, <1>2, <2>10 DEF CInv, Ordinary, TCPFlushEnds, Return, Goto, Asking, Ask, Heard, Local, control, socket, block, request, modem, peer, RequestReset, Least, Types, Requests, CallOf, Reader, Calls, Routines, Askers, Pollers, Writers, Stops, Failing, Reading
  <2>11. CASE TCPClient_connect
    BY <1>0, <1>1, <1>2, <2>11 DEF CInv, Ordinary, TCPClient_connect, Return, Goto, Asking, Ask, Heard, Local, control, socket, block, request, modem, peer, RequestReset, Least, Types, Requests, CallOf, Reader, Calls, Routines, Askers, Pollers, Writers, Stops, Failing, Reading
  <2>12. CASE APNConfigEnds
    BY <1>0, <1>1, <1>2, <2>12 DEF CInv, Ordinary, APNConfigEnds, Return, Goto, Asking, Ask, Heard, Local, control, socket, block, request, modem, peer, RequestReset, Least, Types, Requests, CallOf, Reader, Calls, Routines, Askers, Pollers, Writers, Stops, Failing, Reading
  <2>13. CASE TCPOpenEnds
    BY <1>0, <1>1, <1>2, <2>13 DEF CInv, Ordinary, TCPOpenEnds, Return, Goto, Asking, Ask, Heard, Local, control, socket, block, request, modem, peer, RequestReset, Least, Types, Requests, CallOf, Reader, Calls, Routines, Askers, Pollers, Writers, Stops, Failing, Reading
  <2> QED
    BY <2>1, <2>2, <2>3, <2>4, <2>5, <2>6, <2>7, <2>8, <2>9, <2>10, <2>11, <2>12, <2>13 DEF Tcp
<1> QED
  BY <1>0, <1>3, <1>4, <1>5, <1>6, <1>7, <1>8 DEF CInv

----------------------------------------------------------------------------
(* Where the steps of FlyportTask lead.                                     *)
LEMMA Disjoint ==
  /\ \A a \in Mains : a \notin Routines /\ a \notin Reading /\ a \notin Publishing /\ a \in Addresses
  /\ \A a \in Reading : a \notin Routines /\ a \notin Publishing /\ a \in Addresses
  /\ \A a \in Publishing : a \notin Routines /\ a \in Addresses
BY DEF Mains, Routines, Reading, Publishing, Addresses

LEMMA AtMain ==
  ASSUME CInv, at \in Mains
  PROVE  stack = <<>> /\ Here = at /\ Under = <<>> /\ Main = at /\ <<>> \in Seq(Addresses)
BY Disjoint DEF CInv, Nest, Home, HereOf, UnderOf, Here, Under, Main, MainOf

LEMMA OneIs ==
  ASSUME NEW S, NEW s \in Seq(S), Len(s) = 1
  PROVE  s # <<>> /\ Tail(s) = <<>> /\ Head(s) = s[1]
<1>1. s # <<>>
  OBVIOUS
<1>2. Tail(s) \in Seq(S) /\ Len(Tail(s)) = 0
  BY <1>1
<1>3. Tail(s) = <<>>
  BY <1>2, EmptySeq
<1> QED
  BY <1>1, <1>3

LEMMA AtReading ==
  ASSUME CInv, at \in Reading
  PROVE  /\ Here = at /\ Under = stack /\ Len(stack) = 1 /\ stack \in Seq(Addresses)
         /\ Main = Head(stack) /\ Head(stack) \in {"welcomed", "dispatch"}
         /\ Tail(stack) = <<>>
<1>1. stack \in Seq(Addresses) /\ Home(at, stack) /\ Here = at /\ Under = stack
  BY Disjoint DEF CInv, Nest, HereOf, UnderOf, Here, Under
<1>2. Len(stack) = 1 /\ Head(stack) \in {"welcomed", "dispatch"}
  BY <1>1, Disjoint DEF Home
<1>3. stack # <<>> /\ Tail(stack) = <<>>
  BY <1>1, <1>2, OneIs
<1> QED
  BY <1>1, <1>2, <1>3 DEF Main, MainOf

LEMMA AtPublishing ==
  ASSUME CInv, at \in Publishing
  PROVE  /\ Here = at /\ Under = stack /\ Len(stack) = 1 /\ stack \in Seq(Addresses)
         /\ Main = Head(stack) /\ Head(stack) \in {"loop", "top"}
         /\ Tail(stack) = <<>>
<1>1. stack \in Seq(Addresses) /\ Home(at, stack) /\ Here = at /\ Under = stack
  BY Disjoint DEF CInv, Nest, HereOf, UnderOf, Here, Under
<1>2. Len(stack) = 1 /\ Head(stack) \in {"loop", "top"}
  BY <1>1, Disjoint DEF Home
<1>3. stack # <<>> /\ Tail(stack) = <<>>
  BY <1>1, <1>2, OneIs
<1> QED
  BY <1>1, <1>2, <1>3 DEF Main, MainOf

Landed(a, p, m) ==
  at' = a /\ Nest(at, stack)' /\ Here' = p /\ Main' = m

LEMMA ThenLands ==
  ASSUME CInv, at \in Mains, NEW p \in Mains, at' = p, stack' = stack
  PROVE  Landed(p, p, p)
<1>1. stack = <<>> /\ <<>> \in Seq(Addresses)
  BY AtMain
<1>2. Home(p, <<>>) /\ p \in Addresses /\ p \notin Routines
  BY Disjoint DEF Home
<1>3. Nest(p, <<>>) /\ HereOf(p, <<>>) = p /\ UnderOf(p, <<>>) = <<>>
  BY <1>1, <1>2, PlainNest
<1> QED
  BY <1>1, <1>3 DEF Landed, Here, Under, Main, MainOf

LEMMA CallLands ==
  ASSUME CInv, at \in Mains, NEW f \in Routines, NEW p \in Mains, Calls(p, f), Enter(f, p)
  PROVE  Landed(f, p, p)
<1>1. stack = <<>> /\ <<>> \in Seq(Addresses)
  BY AtMain
<1>2. Home(p, <<>>) /\ p \in Addresses /\ p \notin Routines
  BY Disjoint DEF Home
<1>3. /\ Nest(f, <<p>> \o <<>>)
      /\ HereOf(f, <<p>> \o <<>>) = p /\ UnderOf(f, <<p>> \o <<>>) = <<>>
  BY <1>1, <1>2, EnterNest
<1>4. at' = f /\ stack' = <<p>> \o <<>>
  BY <1>1 DEF Enter
<1> QED
  BY <1>3, <1>4 DEF Landed, Here, Under, Main, MainOf

LEMMA InnerCallLands ==
  ASSUME CInv, at \in Reading \cup Publishing, NEW f \in Routines, NEW p, Calls(p, f), Enter(f, p),
         \/ at \in Reading /\ p \in Reading
         \/ at \in Publishing /\ p \in Publishing
  PROVE  Landed(f, p, Main)
<1>1. /\ Under = stack /\ stack # <<>> /\ stack \in Seq(Addresses) /\ Main = Head(stack)
      /\ Home(p, stack) /\ p \in Addresses /\ p \notin Routines
  BY AtReading, AtPublishing, Disjoint DEF Home
<1>2. /\ Nest(f, <<p>> \o stack)
      /\ HereOf(f, <<p>> \o stack) = p /\ UnderOf(f, <<p>> \o stack) = stack
  BY <1>1, EnterNest
<1>3. at' = f /\ stack' = <<p>> \o stack
  BY DEF Enter
<1>4. Main' = MainOf(p, stack) /\ Nest(at, stack)' /\ Here' = p
  BY <1>2, <1>3 DEF Here, Under, Main
<1> QED
  BY <1>1, <1>3, <1>4 DEF Landed, MainOf

LEMMA ReadLands ==
  ASSUME CInv, at \in Mains, NEW p \in {"welcomed", "dispatch"}, Enter("MQTTClient_readPacket", p)
  PROVE  Landed("MQTTClient_readPacket", "MQTTClient_readPacket", p)
<1>1. stack = <<>> /\ <<>> \in Seq(Addresses)
  BY AtMain
<1>2. at' = "MQTTClient_readPacket" /\ stack' = <<p>> \o <<>>
  BY <1>1 DEF Enter
<1> DEFINE t == <<p>> \o <<>>
           r == "MQTTClient_readPacket"
<1>3. <<p>> \in Seq(Addresses)
  BY DEF Addresses, Mains
<1>4. t \in Seq(Addresses) /\ Len(t) = 1 /\ Head(t) = p
  BY <1>3
<1>5. r \in Reading /\ r \in Addresses /\ r \notin Routines
  BY Disjoint DEF Reading
<1> HIDE DEF t, r
<1>6. Home(r, t) /\ t # <<>>
  BY <1>4, <1>5 DEF Home
<1>7. Nest(r, t) /\ HereOf(r, t) = r /\ UnderOf(r, t) = t
  BY <1>4, <1>5, <1>6, PlainNest
<1>8. at' = r /\ stack' = t
  BY <1>2 DEF r, t
<1>9. Landed(r, r, p)
  BY <1>4, <1>6, <1>7, <1>8 DEF Landed, Here, Under, Main, MainOf
<1> QED
  BY <1>9 DEF r

LEMMA StepLands ==
  ASSUME CInv, at \in Reading \cup Publishing, at' \in Reading \cup Publishing, stack' = stack,
         at \in Reading <=> at' \in Reading
  PROVE  Landed(at', at', Main)
<1>1. /\ stack # <<>> /\ stack \in Seq(Addresses) /\ Main = Head(stack)
      /\ Home(at', stack) /\ at' \in Addresses /\ at' \notin Routines
  BY AtReading, AtPublishing, Disjoint DEF Home
<1>2. Nest(at', stack) /\ HereOf(at', stack) = at' /\ UnderOf(at', stack) = stack
  BY <1>1, PlainNest
<1> QED
  BY <1>1, <1>2 DEF Landed, Here, Under, Main, MainOf

LEMMA ReturnLands ==
  ASSUME CInv, at \in Reading \cup Publishing, at' = Head(stack), stack' = Tail(stack)
  PROVE  Landed(Main, Main, Main)
<1>1. /\ Main = Head(stack) /\ Tail(stack) = <<>> /\ stack \in Seq(Addresses) /\ Len(stack) = 1
      /\ Main \in {"welcomed", "dispatch", "loop", "top"}
  BY AtReading, AtPublishing
<1>2. Main \in Mains
  BY <1>1 DEF Mains
<1>3. Home(Main, <<>>) /\ Main \in Addresses /\ Main \notin Routines /\ <<>> \in Seq(Addresses)
  BY <1>2, Disjoint DEF Home
<1>4. Nest(Main, <<>>) /\ HereOf(Main, <<>>) = Main /\ UnderOf(Main, <<>>) = <<>>
  BY <1>3, PlainNest
<1>5. at' = Main /\ stack' = <<>>
  BY <1>1
<1> DEFINE m == Main
<1>6. Nest(at', stack') /\ HereOf(at', stack') = Main /\ UnderOf(at', stack') = <<>>
  BY <1>4, <1>5
<1>7. Here' = Main /\ Under' = <<>> /\ Nest(at, stack)'
  BY <1>6 DEF Here, Under
<1>8. Main' = Main
  BY <1>7 DEF Main, MainOf
<1> QED
  BY <1>5, <1>7, <1>8 DEF Landed

LEMMA PublishLands ==
  ASSUME CInv, at \in Mains, NEW p \in {"loop", "top"}, Publish(p)
  PROVE  Landed("TCPClient_connected", "MQTTClient_publish", p)
<1> DEFINE t == <<"MQTTClient_publish", p>> \o <<>>
<1>1. at' = "TCPClient_connected" /\ stack' = t
  BY AtMain DEF Publish
<1>2. /\ t \in Seq(Addresses) /\ Nest("TCPClient_connected", t)
      /\ HereOf("TCPClient_connected", t) = "MQTTClient_publish"
      /\ UnderOf("TCPClient_connected", t) = <<p>>
  BY PublishNest
<1>3. <<p>> # <<>> /\ Head(<<p>>) = p
  OBVIOUS
<1> HIDE DEF t
<1> QED
  BY <1>1, <1>2, <1>3 DEF Landed, Here, Under, Main, MainOf

----------------------------------------------------------------------------
(* What a step of MQTTClient.c that asks the modem nothing must respect.    *)
Quiet ==
  UNCHANGED <<number, rxLen, notif, buff, size, idx, tick, hwFault, registered, sessions,
              session, link, rcv, wire, faults, call, verdict>>

Entries == {"TCPClient_connected", "TCPCheckStatus", "TCPClient_write",
            "TCPClient_flush", "TCPClient_stop"}

Proper(a, p) ==
  /\ a \in Routines => a \in Entries
  /\ a \notin Askers \cup Pollers \cup {"pinged", "ponged"}
  /\ p # "hello"
  /\ a = "TCPCheckStatus" => p \in Pollers
  /\ a = "TCPClient_stop" => p \in Stops
  /\ p \in {"MQTTClient_connect", "MQTTClient_disconnect"} =>
       a = "TCPClient_connected" /\ ~number
  /\ p \in Stops /\ a # "TCPClient_stop" => ~number
  /\ p = "greeted" => size = 0
  /\ p \in {"awaited", "polled", "welcomed", "dispatch"} \cup Reading /\ size > 0 => number
  /\ a = "TCPClient_write" => len' < 2 * Base

LEMMA QuietKeeps ==
  ASSUME CInv, at \notin Routines, Quiet, NEW a, NEW p, NEW m, Landed(a, p, m), Proper(a, p)
  PROVE  Requests' /\ Numbered' /\ Blocks' /\ Sockets'
<1>1. at' = a /\ Here' = p
  BY DEF Landed
<1>2. call = "none" /\ verdict = "success"
  BY DEF CInv, Requests, CallOf, Routines
<1>3. /\ a \notin {"TCPRead", "TCPWrite", "TCPRxFlush", "APNConfig", "TCPClientOpen", "closing"}
      /\ a \notin Askers \cup Pollers \cup {"pinged", "ponged", "hello"}
  <2>1. a = "hello" => p = "hello"
    BY <1>1, Disjoint DEF Here, HereOf, Mains
  <2> QED
    BY <2>1 DEF Proper, Entries, Routines
<1>4. Requests'
  BY <1>1, <1>2, <1>3 DEF Quiet, Requests, CallOf, Proper
<1>5. Numbered'
  BY <1>1, <1>3 DEF Quiet, Numbered, Proper, Failing, Askers, Pollers, Writers, Entries, Routines, Stops
<1>6. Blocks'
  BY <1>1, <1>3 DEF Quiet, Blocks, Proper, Failing, Entries, Routines, Pollers, Stops
<1>7. Sockets'
  BY <1>1, <1>3 DEF Quiet, Sockets, CInv, Proper
<1> QED
  BY <1>4, <1>5, <1>6, <1>7

(* The steps of the loop that leave the block alone.                        *)
PlainStep ==
  \/ Down \/ Hello \/ Greeted \/ Awaited \/ Welcomed \/ Subscribe
  \/ MQTTClient_subscribe \/ Top \/ Loop \/ MQTTClient_loop \/ Pinged \/ Polled
  \/ Dispatch \/ Callback \/ Abandoned \/ Ponged \/ Disconnect \/ MQTTClient_disconnect

(* None of them is inside MQTTClient_readPacket but for its first step.      *)
Outside(p) ==
  /\ p \notin {"MQTTClient_readByte", "available", "welcomed", "dispatch"}
  /\ p = "MQTTClient_readPacket" => size > 0

(* How they move between dialling, the handshake and the session.            *)
Handshake == {"greeted", "awaited", "welcomed"}
Dialling  ==
  {"down", "MQTTClient_connect", "hello", "MQTTClient_disconnect"} \cup Handshake

Moves(a, p, m) ==
  /\ m \in Dialling => at \in Dialling \cup {"disconnect"}
  /\ m \in Handshake => at \in Handshake \cup {"hello"}
  /\ m \notin Dialling => at \notin Dialling \/ (at = "welcomed" /\ Accepted)
  /\ p = "greeted" => at = "hello"
  /\ p = "pinged" => a = "TCPClient_write"
  /\ a = "TCPClient_flush" => at = "dispatch" /\ OtherPacket

LEMMA PlainLands ==
  ASSUME Ordinary, CInv, PlainStep
  PROVE  \E a, p, m : Landed(a, p, m) /\ Proper(a, p) /\ Outside(p) /\ Moves(a, p, m)
<1> DEFINE Goal == \E a, p, m : Landed(a, p, m) /\ Proper(a, p) /\ Outside(p) /\ Moves(a, p, m)
<1>0. size \in Nat /\ result \in Int /\ number \in BOOLEAN /\ Base \in Nat \ {0}
  BY MqttAssumption DEF CInv, Types
<1>1. CASE Down
  <2>0. at = "down" /\ at \in Mains /\ Here = at
    BY <1>1, AtMain DEF Down, Mains
  <2>1. CASE TRUE
    <3>1. Enter("TCPClient_connected", "MQTTClient_connect")
      BY <1>1, <2>0, <2>1 DEF Down, Call, Write
    <3>2. "TCPClient_connected" \in Routines /\ "MQTTClient_connect" \in Mains /\ Calls("MQTTClient_connect", "TCPClient_connected")
      BY DEF Mains, Calls, Askers, Pollers, Writers, Stops, Failing, Routines
    <3>3. Landed("TCPClient_connected", "MQTTClient_connect", "MQTTClient_connect")
      BY <2>0, <3>1, <3>2, CallLands
    <3>4. Proper("TCPClient_connected", "MQTTClient_connect") /\ Outside("MQTTClient_connect")
      BY <1>0, <2>0, <2>1 DEF CInv, Numbered, Blocks, Proper, Entries, Routines, Askers, Pollers, Stops, Reading, Outside, Failing
    <3>5. Moves("TCPClient_connected", "MQTTClient_connect", "MQTTClient_connect")
      BY <2>0, <2>1 DEF Moves, Dialling, Handshake
    <3> QED
      BY <3>3, <3>4, <3>5
  <2> QED
    BY <1>1, <2>1 DEF Down
<1>2. CASE Hello
  <2>0. at = "hello" /\ at \in Mains /\ Here = at
    BY <1>2, AtMain DEF Hello, Mains
  <2>1. CASE TRUE
    <3>1. Enter("TCPClient_write", "greeted") /\ len' = 0
      BY <1>2, <2>0, <2>1 DEF Hello, Call, Write
    <3>2. "TCPClient_write" \in Routines /\ "greeted" \in Mains /\ Calls("greeted", "TCPClient_write")
      BY DEF Mains, Calls, Askers, Pollers, Writers, Stops, Failing, Routines
    <3>3. Landed("TCPClient_write", "greeted", "greeted")
      BY <2>0, <3>1, <3>2, CallLands
    <3>4. Proper("TCPClient_write", "greeted") /\ Outside("greeted")
      BY <1>0, <2>0, <2>1, <3>1 DEF CInv, Numbered, Blocks, Proper, Entries, Routines, Askers, Pollers, Stops, Reading, Outside, Failing
    <3>5. Moves("TCPClient_write", "greeted", "greeted")
      BY <2>0, <2>1 DEF Moves, Dialling, Handshake
    <3> QED
      BY <3>3, <3>4, <3>5
  <2> QED
    BY <1>2, <2>1 DEF Hello
<1>3. CASE Greeted
  <2>0. at = "greeted" /\ at \in Mains /\ Here = at
    BY <1>3, AtMain DEF Greeted, Mains
  <2>1. CASE TRUE
    <3>1. Enter("TCPCheckStatus", "awaited")
      BY <1>3, <2>0, <2>1 DEF Greeted, Call, Write
    <3>2. "TCPCheckStatus" \in Routines /\ "awaited" \in Mains /\ Calls("awaited", "TCPCheckStatus")
      BY DEF Mains, Calls, Askers, Pollers, Writers, Stops, Failing, Routines
    <3>3. Landed("TCPCheckStatus", "awaited", "awaited")
      BY <2>0, <3>1, <3>2, CallLands
    <3>4. Proper("TCPCheckStatus", "awaited") /\ Outside("awaited")
      BY <1>0, <2>0, <2>1 DEF CInv, Numbered, Blocks, Proper, Entries, Routines, Askers, Pollers, Stops, Reading, Outside, Failing
    <3>5. Moves("TCPCheckStatus", "awaited", "awaited")
      BY <2>0, <2>1 DEF Moves, Dialling, Handshake
    <3> QED
      BY <3>3, <3>4, <3>5
  <2> QED
    BY <1>3, <2>1 DEF Greeted
<1>4. CASE Awaited
  <2>0. at = "awaited" /\ at \in Mains /\ Here = at
    BY <1>4, AtMain DEF Awaited, Mains
  <2>1. CASE result > 0
    <3>1. Enter("MQTTClient_readPacket", "welcomed")
      BY <1>4, <2>0, <2>1 DEF Awaited, Call, Write
    <3>3. Landed("MQTTClient_readPacket", "MQTTClient_readPacket", "welcomed")
      BY <2>0, <3>1, ReadLands
    <3>4. Proper("MQTTClient_readPacket", "MQTTClient_readPacket") /\ Outside("MQTTClient_readPacket")
      BY <1>0, <2>0, <2>1 DEF CInv, Numbered, Blocks, Proper, Entries, Routines, Askers, Pollers, Stops, Reading, Outside, Failing
    <3>5. Moves("MQTTClient_readPacket", "MQTTClient_readPacket", "welcomed")
      BY <2>0, <2>1 DEF Moves, Dialling, Handshake
    <3> QED
      BY <3>3, <3>4, <3>5
  <2>2. CASE ~(result > 0) /\ sinceIn > MQTT_KEEPALIVE
    <3>1. Enter("TCPClient_stop", "down")
      BY <1>4, <2>0, <2>2 DEF Awaited, Call, Write
    <3>2. "TCPClient_stop" \in Routines /\ "down" \in Mains /\ Calls("down", "TCPClient_stop")
      BY DEF Mains, Calls, Askers, Pollers, Writers, Stops, Failing, Routines
    <3>3. Landed("TCPClient_stop", "down", "down")
      BY <2>0, <3>1, <3>2, CallLands
    <3>4. Proper("TCPClient_stop", "down") /\ Outside("down")
      BY <1>0, <2>0, <2>2 DEF CInv, Numbered, Blocks, Proper, Entries, Routines, Askers, Pollers, Stops, Reading, Outside, Failing
    <3>5. Moves("TCPClient_stop", "down", "down")
      BY <2>0, <2>2 DEF Moves, Dialling, Handshake
    <3> QED
      BY <3>3, <3>4, <3>5
  <2>3. CASE ~(result > 0) /\ ~(sinceIn > MQTT_KEEPALIVE)
    <3>1. Enter("TCPCheckStatus", "awaited")
      BY <1>4, <2>0, <2>3 DEF Awaited, Call, Write
    <3>2. "TCPCheckStatus" \in Routines /\ "awaited" \in Mains /\ Calls("awaited", "TCPCheckStatus")
      BY DEF Mains, Calls, Askers, Pollers, Writers, Stops, Failing, Routines
    <3>3. Landed("TCPCheckStatus", "awaited", "awaited")
      BY <2>0, <3>1, <3>2, CallLands
    <3>4. Proper("TCPCheckStatus", "awaited") /\ Outside("awaited")
      BY <1>0, <2>0, <2>3 DEF CInv, Numbered, Blocks, Proper, Entries, Routines, Askers, Pollers, Stops, Reading, Outside, Failing
    <3>5. Moves("TCPCheckStatus", "awaited", "awaited")
      BY <2>0, <2>3 DEF Moves, Dialling, Handshake
    <3> QED
      BY <3>3, <3>4, <3>5
  <2> QED
    BY <1>4, <2>1, <2>2, <2>3 DEF Awaited
<1>5. CASE Welcomed
  <2>0. at = "welcomed" /\ at \in Mains /\ Here = at
    BY <1>5, AtMain DEF Welcomed, Mains
  <2>1. CASE Accepted
    <3>1. at' = "subscribe" /\ stack' = stack
      BY <1>5, <2>0, <2>1 DEF Welcomed, Then
    <3>2. "subscribe" \in Mains
      BY DEF Mains
    <3>3. Landed("subscribe", "subscribe", "subscribe")
      BY <2>0, <3>1, <3>2, ThenLands
    <3>4. Proper("subscribe", "subscribe") /\ Outside("subscribe")
      BY <1>0, <2>0, <2>1 DEF CInv, Numbered, Blocks, Proper, Entries, Routines, Askers, Pollers, Stops, Reading, Outside, Failing
    <3>5. Moves("subscribe", "subscribe", "subscribe")
      BY <2>0, <2>1 DEF Moves, Dialling, Handshake
    <3> QED
      BY <3>3, <3>4, <3>5
  <2>2. CASE ~Accepted
    <3>1. Enter("TCPClient_stop", "down")
      BY <1>5, <2>0, <2>2 DEF Welcomed, Call, Write
    <3>2. "TCPClient_stop" \in Routines /\ "down" \in Mains /\ Calls("down", "TCPClient_stop")
      BY DEF Mains, Calls, Askers, Pollers, Writers, Stops, Failing, Routines
    <3>3. Landed("TCPClient_stop", "down", "down")
      BY <2>0, <3>1, <3>2, CallLands
    <3>4. Proper("TCPClient_stop", "down") /\ Outside("down")
      BY <1>0, <2>0, <2>2 DEF CInv, Numbered, Blocks, Proper, Entries, Routines, Askers, Pollers, Stops, Reading, Outside, Failing
    <3>5. Moves("TCPClient_stop", "down", "down")
      BY <2>0, <2>2 DEF Moves, Dialling, Handshake
    <3> QED
      BY <3>3, <3>4, <3>5
  <2> QED
    BY <1>5, <2>1, <2>2 DEF Welcomed
<1>6. CASE Subscribe
  <2>0. at = "subscribe" /\ at \in Mains /\ Here = at
    BY <1>6, AtMain DEF Subscribe, Mains
  <2>1. CASE topics = Topics
    <3>1. at' = "top" /\ stack' = stack
      BY <1>6, <2>0, <2>1 DEF Subscribe, Then
    <3>2. "top" \in Mains
      BY DEF Mains
    <3>3. Landed("top", "top", "top")
      BY <2>0, <3>1, <3>2, ThenLands
    <3>4. Proper("top", "top") /\ Outside("top")
      BY <1>0, <2>0, <2>1 DEF CInv, Numbered, Blocks, Proper, Entries, Routines, Askers, Pollers, Stops, Reading, Outside, Failing
    <3>5. Moves("top", "top", "top")
      BY <2>0, <2>1 DEF Moves, Dialling, Handshake
    <3> QED
      BY <3>3, <3>4, <3>5
  <2>2. CASE topics # Topics
    <3>1. Enter("TCPClient_connected", "MQTTClient_subscribe")
      BY <1>6, <2>0, <2>2 DEF Subscribe, Call, Write
    <3>2. "TCPClient_connected" \in Routines /\ "MQTTClient_subscribe" \in Mains /\ Calls("MQTTClient_subscribe", "TCPClient_connected")
      BY DEF Mains, Calls, Askers, Pollers, Writers, Stops, Failing, Routines
    <3>3. Landed("TCPClient_connected", "MQTTClient_subscribe", "MQTTClient_subscribe")
      BY <2>0, <3>1, <3>2, CallLands
    <3>4. Proper("TCPClient_connected", "MQTTClient_subscribe") /\ Outside("MQTTClient_subscribe")
      BY <1>0, <2>0, <2>2 DEF CInv, Numbered, Blocks, Proper, Entries, Routines, Askers, Pollers, Stops, Reading, Outside, Failing
    <3>5. Moves("TCPClient_connected", "MQTTClient_subscribe", "MQTTClient_subscribe")
      BY <2>0, <2>2 DEF Moves, Dialling, Handshake
    <3> QED
      BY <3>3, <3>4, <3>5
  <2> QED
    BY <1>6, <2>1, <2>2 DEF Subscribe
<1>7. CASE MQTTClient_subscribe
  <2>0. at = "MQTTClient_subscribe" /\ at \in Mains /\ Here = at
    BY <1>7, AtMain DEF MQTTClient_subscribe, Mains
  <2>1. CASE result = -1
    <3>1. at' = "subscribe" /\ stack' = stack
      BY <1>7, <2>0, <2>1 DEF MQTTClient_subscribe, Then
    <3>2. "subscribe" \in Mains
      BY DEF Mains
    <3>3. Landed("subscribe", "subscribe", "subscribe")
      BY <2>0, <3>1, <3>2, ThenLands
    <3>4. Proper("subscribe", "subscribe") /\ Outside("subscribe")
      BY <1>0, <2>0, <2>1 DEF CInv, Numbered, Blocks, Proper, Entries, Routines, Askers, Pollers, Stops, Reading, Outside, Failing
    <3>5. Moves("subscribe", "subscribe", "subscribe")
      BY <2>0, <2>1 DEF Moves, Dialling, Handshake
    <3> QED
      BY <3>3, <3>4, <3>5
  <2>2. CASE result # -1
    <3>1. Enter("TCPClient_write", "subscribed") /\ len' = 0
      BY <1>7, <2>0, <2>2 DEF MQTTClient_subscribe, Call, Write
    <3>2. "TCPClient_write" \in Routines /\ "subscribed" \in Mains /\ Calls("subscribed", "TCPClient_write")
      BY DEF Mains, Calls, Askers, Pollers, Writers, Stops, Failing, Routines
    <3>3. Landed("TCPClient_write", "subscribed", "subscribed")
      BY <2>0, <3>1, <3>2, CallLands
    <3>4. Proper("TCPClient_write", "subscribed") /\ Outside("subscribed")
      BY <1>0, <2>0, <2>2, <3>1 DEF CInv, Numbered, Blocks, Proper, Entries, Routines, Askers, Pollers, Stops, Reading, Outside, Failing
    <3>5. Moves("TCPClient_write", "subscribed", "subscribed")
      BY <2>0, <2>2 DEF Moves, Dialling, Handshake
    <3> QED
      BY <3>3, <3>4, <3>5
  <2> QED
    BY <1>7, <2>1, <2>2 DEF MQTTClient_subscribe
<1>8. CASE Top
  <2>0. at = "top" /\ at \in Mains /\ Here = at
    BY <1>8, AtMain DEF Top, Mains
  <2>1. CASE Publish("loop")
    <3>3. Landed("TCPClient_connected", "MQTTClient_publish", "loop")
      BY <2>0, <2>1, PublishLands
    <3>4. Proper("TCPClient_connected", "MQTTClient_publish") /\ Outside("MQTTClient_publish")
      BY <1>0, <2>0, <2>1 DEF CInv, Numbered, Blocks, Proper, Entries, Routines, Askers, Pollers, Stops, Reading, Outside, Failing
    <3>5. Moves("TCPClient_connected", "MQTTClient_publish", "loop")
      BY <2>0, <2>1 DEF Moves, Dialling, Handshake
    <3> QED
      BY <3>3, <3>4, <3>5
  <2>2. CASE Then("loop")
    <3>1. at' = "loop" /\ stack' = stack
      BY <1>8, <2>0, <2>2 DEF Top, Then
    <3>2. "loop" \in Mains
      BY DEF Mains
    <3>3. Landed("loop", "loop", "loop")
      BY <2>0, <3>1, <3>2, ThenLands
    <3>4. Proper("loop", "loop") /\ Outside("loop")
      BY <1>0, <2>0, <2>2 DEF CInv, Numbered, Blocks, Proper, Entries, Routines, Askers, Pollers, Stops, Reading, Outside, Failing
    <3>5. Moves("loop", "loop", "loop")
      BY <2>0, <2>2 DEF Moves, Dialling, Handshake
    <3> QED
      BY <3>3, <3>4, <3>5
  <2> QED
    BY <1>8, <2>1, <2>2 DEF Top
<1>9. CASE Loop
  <2>0. at = "loop" /\ at \in Mains /\ Here = at
    BY <1>9, AtMain DEF Loop, Mains
  <2>1. CASE TRUE
    <3>1. Enter("TCPClient_connected", "MQTTClient_loop")
      BY <1>9, <2>0, <2>1 DEF Loop, Call, Write
    <3>2. "TCPClient_connected" \in Routines /\ "MQTTClient_loop" \in Mains /\ Calls("MQTTClient_loop", "TCPClient_connected")
      BY DEF Mains, Calls, Askers, Pollers, Writers, Stops, Failing, Routines
    <3>3. Landed("TCPClient_connected", "MQTTClient_loop", "MQTTClient_loop")
      BY <2>0, <3>1, <3>2, CallLands
    <3>4. Proper("TCPClient_connected", "MQTTClient_loop") /\ Outside("MQTTClient_loop")
      BY <1>0, <2>0, <2>1 DEF CInv, Numbered, Blocks, Proper, Entries, Routines, Askers, Pollers, Stops, Reading, Outside, Failing
    <3>5. Moves("TCPClient_connected", "MQTTClient_loop", "MQTTClient_loop")
      BY <2>0, <2>1 DEF Moves, Dialling, Handshake
    <3> QED
      BY <3>3, <3>4, <3>5
  <2> QED
    BY <1>9, <2>1 DEF Loop
<1>10. CASE MQTTClient_loop
  <2>0. at = "MQTTClient_loop" /\ at \in Mains /\ Here = at
    BY <1>10, AtMain DEF MQTTClient_loop, Mains
  <2>1. CASE result = -1
    <3>1. at' = "disconnect" /\ stack' = stack
      BY <1>10, <2>0, <2>1 DEF MQTTClient_loop, Then
    <3>2. "disconnect" \in Mains
      BY DEF Mains
    <3>3. Landed("disconnect", "disconnect", "disconnect")
      BY <2>0, <3>1, <3>2, ThenLands
    <3>4. Proper("disconnect", "disconnect") /\ Outside("disconnect")
      BY <1>0, <2>0, <2>1 DEF CInv, Numbered, Blocks, Proper, Entries, Routines, Askers, Pollers, Stops, Reading, Outside, Failing
    <3>5. Moves("disconnect", "disconnect", "disconnect")
      BY <2>0, <2>1 DEF Moves, Dialling, Handshake
    <3> QED
      BY <3>3, <3>4, <3>5
  <2>2. CASE result # -1 /\ ~Idle
    <3>1. Enter("TCPCheckStatus", "polled")
      BY <1>10, <2>0, <2>2 DEF MQTTClient_loop, Call, Write
    <3>2. "TCPCheckStatus" \in Routines /\ "polled" \in Mains /\ Calls("polled", "TCPCheckStatus")
      BY DEF Mains, Calls, Askers, Pollers, Writers, Stops, Failing, Routines
    <3>3. Landed("TCPCheckStatus", "polled", "polled")
      BY <2>0, <3>1, <3>2, CallLands
    <3>4. Proper("TCPCheckStatus", "polled") /\ Outside("polled")
      BY <1>0, <2>0, <2>2 DEF CInv, Numbered, Blocks, Proper, Entries, Routines, Askers, Pollers, Stops, Reading, Outside, Failing
    <3>5. Moves("TCPCheckStatus", "polled", "polled")
      BY <2>0, <2>2 DEF Moves, Dialling, Handshake
    <3> QED
      BY <3>3, <3>4, <3>5
  <2>3. CASE result # -1 /\ Idle /\ pingOutstanding
    <3>1. Enter("TCPClient_stop", "disconnect")
      BY <1>10, <2>0, <2>3 DEF MQTTClient_loop, Call, Write
    <3>2. "TCPClient_stop" \in Routines /\ "disconnect" \in Mains /\ Calls("disconnect", "TCPClient_stop")
      BY DEF Mains, Calls, Askers, Pollers, Writers, Stops, Failing, Routines
    <3>3. Landed("TCPClient_stop", "disconnect", "disconnect")
      BY <2>0, <3>1, <3>2, CallLands
    <3>4. Proper("TCPClient_stop", "disconnect") /\ Outside("disconnect")
      BY <1>0, <2>0, <2>3 DEF CInv, Numbered, Blocks, Proper, Entries, Routines, Askers, Pollers, Stops, Reading, Outside, Failing
    <3>5. Moves("TCPClient_stop", "disconnect", "disconnect")
      BY <2>0, <2>3 DEF Moves, Dialling, Handshake
    <3> QED
      BY <3>3, <3>4, <3>5
  <2>4. CASE result # -1 /\ Idle /\ ~pingOutstanding
    <3>1. Enter("TCPClient_write", "pinged") /\ len' = 0
      BY <1>10, <2>0, <2>4 DEF MQTTClient_loop, Call, Write
    <3>2. "TCPClient_write" \in Routines /\ "pinged" \in Mains /\ Calls("pinged", "TCPClient_write")
      BY DEF Mains, Calls, Askers, Pollers, Writers, Stops, Failing, Routines
    <3>3. Landed("TCPClient_write", "pinged", "pinged")
      BY <2>0, <3>1, <3>2, CallLands
    <3>4. Proper("TCPClient_write", "pinged") /\ Outside("pinged")
      BY <1>0, <2>0, <2>4, <3>1 DEF CInv, Numbered, Blocks, Proper, Entries, Routines, Askers, Pollers, Stops, Reading, Outside, Failing
    <3>5. Moves("TCPClient_write", "pinged", "pinged")
      BY <2>0, <2>4 DEF Moves, Dialling, Handshake
    <3> QED
      BY <3>3, <3>4, <3>5
  <2> QED
    BY <1>10, <2>1, <2>2, <2>3, <2>4 DEF MQTTClient_loop
<1>11. CASE Pinged
  <2>0. at = "pinged" /\ at \in Mains /\ Here = at
    BY <1>11, AtMain DEF Pinged, Mains
  <2>1. CASE result = 0
    <3>1. at' = "disconnect" /\ stack' = stack
      BY <1>11, <2>0, <2>1 DEF Pinged, Then
    <3>2. "disconnect" \in Mains
      BY DEF Mains
    <3>3. Landed("disconnect", "disconnect", "disconnect")
      BY <2>0, <3>1, <3>2, ThenLands
    <3>4. Proper("disconnect", "disconnect") /\ Outside("disconnect")
      BY <1>0, <2>0, <2>1 DEF CInv, Numbered, Blocks, Proper, Entries, Routines, Askers, Pollers, Stops, Reading, Outside, Failing
    <3>5. Moves("disconnect", "disconnect", "disconnect")
      BY <2>0, <2>1 DEF Moves, Dialling, Handshake
    <3> QED
      BY <3>3, <3>4, <3>5
  <2>2. CASE result # 0
    <3>1. Enter("TCPCheckStatus", "polled")
      BY <1>11, <2>0, <2>2 DEF Pinged, Call, Write
    <3>2. "TCPCheckStatus" \in Routines /\ "polled" \in Mains /\ Calls("polled", "TCPCheckStatus")
      BY DEF Mains, Calls, Askers, Pollers, Writers, Stops, Failing, Routines
    <3>3. Landed("TCPCheckStatus", "polled", "polled")
      BY <2>0, <3>1, <3>2, CallLands
    <3>4. Proper("TCPCheckStatus", "polled") /\ Outside("polled")
      BY <1>0, <2>0, <2>2 DEF CInv, Numbered, Blocks, Proper, Entries, Routines, Askers, Pollers, Stops, Reading, Outside, Failing
    <3>5. Moves("TCPCheckStatus", "polled", "polled")
      BY <2>0, <2>2 DEF Moves, Dialling, Handshake
    <3> QED
      BY <3>3, <3>4, <3>5
  <2> QED
    BY <1>11, <2>1, <2>2 DEF Pinged
<1>12. CASE Polled
  <2>0. at = "polled" /\ at \in Mains /\ Here = at
    BY <1>12, AtMain DEF Polled, Mains
  <2>1. CASE result > 0
    <3>1. Enter("MQTTClient_readPacket", "dispatch")
      BY <1>12, <2>0, <2>1 DEF Polled, Call, Write
    <3>3. Landed("MQTTClient_readPacket", "MQTTClient_readPacket", "dispatch")
      BY <2>0, <3>1, ReadLands
    <3>4. Proper("MQTTClient_readPacket", "MQTTClient_readPacket") /\ Outside("MQTTClient_readPacket")
      BY <1>0, <2>0, <2>1 DEF CInv, Numbered, Blocks, Proper, Entries, Routines, Askers, Pollers, Stops, Reading, Outside, Failing
    <3>5. Moves("MQTTClient_readPacket", "MQTTClient_readPacket", "dispatch")
      BY <2>0, <2>1 DEF Moves, Dialling, Handshake
    <3> QED
      BY <3>3, <3>4, <3>5
  <2>2. CASE ~(result > 0)
    <3>1. at' = "top" /\ stack' = stack
      BY <1>12, <2>0, <2>2 DEF Polled, Then
    <3>2. "top" \in Mains
      BY DEF Mains
    <3>3. Landed("top", "top", "top")
      BY <2>0, <3>1, <3>2, ThenLands
    <3>4. Proper("top", "top") /\ Outside("top")
      BY <1>0, <2>0, <2>2 DEF CInv, Numbered, Blocks, Proper, Entries, Routines, Askers, Pollers, Stops, Reading, Outside, Failing
    <3>5. Moves("top", "top", "top")
      BY <2>0, <2>2 DEF Moves, Dialling, Handshake
    <3> QED
      BY <3>3, <3>4, <3>5
  <2> QED
    BY <1>12, <2>1, <2>2 DEF Polled
<1>13. CASE Dispatch
  <2>0. at = "dispatch" /\ at \in Mains /\ Here = at
    BY <1>13, AtMain DEF Dispatch, Mains
  <2>1. CASE Deliver
    <3>1. at' = "callback" /\ stack' = stack
      BY <1>13, <2>0, <2>1 DEF Dispatch, Then, Deliver
    <3>2. "callback" \in Mains
      BY DEF Mains
    <3>3. Landed("callback", "callback", "callback")
      BY <2>0, <3>1, <3>2, ThenLands
    <3>4. Proper("callback", "callback") /\ Outside("callback")
      BY <1>0, <2>0, <2>1 DEF CInv, Numbered, Blocks, Proper, Entries, Routines, Askers, Pollers, Stops, Reading, Outside, Failing
    <3>5. Moves("callback", "callback", "callback")
      BY <2>0, <2>1 DEF Moves, Dialling, Handshake
    <3> QED
      BY <3>3, <3>4, <3>5
  <2>2. CASE TopicTooLong
    <3>1. at' = "top" /\ stack' = stack
      BY <1>13, <2>0, <2>2 DEF Dispatch, Then, TopicTooLong
    <3>2. "top" \in Mains
      BY DEF Mains
    <3>3. Landed("top", "top", "top")
      BY <2>0, <3>1, <3>2, ThenLands
    <3>4. Proper("top", "top") /\ Outside("top")
      BY <1>0, <2>0, <2>2 DEF CInv, Numbered, Blocks, Proper, Entries, Routines, Askers, Pollers, Stops, Reading, Outside, Failing
    <3>5. Moves("top", "top", "top")
      BY <2>0, <2>2 DEF Moves, Dialling, Handshake
    <3> QED
      BY <3>3, <3>4, <3>5
  <2>3. CASE AnswerPing
    <3>1. Enter("TCPClient_write", "ponged") /\ len' = 0
      BY <1>13, <2>0, <2>3 DEF Dispatch, Call, Write, AnswerPing
    <3>2. "TCPClient_write" \in Routines /\ "ponged" \in Mains /\ Calls("ponged", "TCPClient_write")
      BY DEF Mains, Calls, Askers, Pollers, Writers, Stops, Failing, Routines
    <3>3. Landed("TCPClient_write", "ponged", "ponged")
      BY <2>0, <3>1, <3>2, CallLands
    <3>4. Proper("TCPClient_write", "ponged") /\ Outside("ponged")
      BY <1>0, <2>0, <2>3, <3>1 DEF CInv, Numbered, Blocks, Proper, Entries, Routines, Askers, Pollers, Stops, Reading, Outside, Failing
    <3>5. Moves("TCPClient_write", "ponged", "ponged")
      BY <2>0, <2>3 DEF Moves, Dialling, Handshake
    <3> QED
      BY <3>3, <3>4, <3>5
  <2>4. CASE PingAnswered
    <3>1. at' = "top" /\ stack' = stack
      BY <1>13, <2>0, <2>4 DEF Dispatch, Then, PingAnswered
    <3>2. "top" \in Mains
      BY DEF Mains
    <3>3. Landed("top", "top", "top")
      BY <2>0, <3>1, <3>2, ThenLands
    <3>4. Proper("top", "top") /\ Outside("top")
      BY <1>0, <2>0, <2>4 DEF CInv, Numbered, Blocks, Proper, Entries, Routines, Askers, Pollers, Stops, Reading, Outside, Failing
    <3>5. Moves("top", "top", "top")
      BY <2>0, <2>4 DEF Moves, Dialling, Handshake
    <3> QED
      BY <3>3, <3>4, <3>5
  <2>5. CASE OtherPacket
    <3>1. Enter("TCPClient_flush", "top")
      BY <1>13, <2>0, <2>5 DEF Dispatch, Call, Write, OtherPacket
    <3>2. "TCPClient_flush" \in Routines /\ "top" \in Mains /\ Calls("top", "TCPClient_flush")
      BY DEF Mains, Calls, Askers, Pollers, Writers, Stops, Failing, Routines
    <3>3. Landed("TCPClient_flush", "top", "top")
      BY <2>0, <3>1, <3>2, CallLands
    <3>4. Proper("TCPClient_flush", "top") /\ Outside("top")
      BY <1>0, <2>0, <2>5 DEF CInv, Numbered, Blocks, Proper, Entries, Routines, Askers, Pollers, Stops, Reading, Outside, Failing
    <3>5. Moves("TCPClient_flush", "top", "top")
      BY <2>0, <2>5 DEF Moves, Dialling, Handshake
    <3> QED
      BY <3>3, <3>4, <3>5
  <2> QED
    BY <1>13, <2>1, <2>2, <2>3, <2>4, <2>5 DEF Dispatch
<1>14. CASE Callback
  <2>0. at = "callback" /\ at \in Mains /\ Here = at
    BY <1>14, AtMain DEF Callback, Mains
  <2>1. CASE Publish("top")
    <3>3. Landed("TCPClient_connected", "MQTTClient_publish", "top")
      BY <2>0, <2>1, PublishLands
    <3>4. Proper("TCPClient_connected", "MQTTClient_publish") /\ Outside("MQTTClient_publish")
      BY <1>0, <2>0, <2>1 DEF CInv, Numbered, Blocks, Proper, Entries, Routines, Askers, Pollers, Stops, Reading, Outside, Failing
    <3>5. Moves("TCPClient_connected", "MQTTClient_publish", "top")
      BY <2>0, <2>1 DEF Moves, Dialling, Handshake
    <3> QED
      BY <3>3, <3>4, <3>5
  <2>2. CASE Then("top")
    <3>1. at' = "top" /\ stack' = stack
      BY <1>14, <2>0, <2>2 DEF Callback, Then
    <3>2. "top" \in Mains
      BY DEF Mains
    <3>3. Landed("top", "top", "top")
      BY <2>0, <3>1, <3>2, ThenLands
    <3>4. Proper("top", "top") /\ Outside("top")
      BY <1>0, <2>0, <2>2 DEF CInv, Numbered, Blocks, Proper, Entries, Routines, Askers, Pollers, Stops, Reading, Outside, Failing
    <3>5. Moves("top", "top", "top")
      BY <2>0, <2>2 DEF Moves, Dialling, Handshake
    <3> QED
      BY <3>3, <3>4, <3>5
  <2> QED
    BY <1>14, <2>1, <2>2 DEF Callback
<1>15. CASE Abandoned
  <2>0. at = "dispatch" /\ at \in Mains /\ Here = at
    BY <1>15, AtMain DEF Abandoned, Mains
  <2>1. CASE TRUE
    <3>1. at' = "top" /\ stack' = stack
      BY <1>15, <2>0, <2>1 DEF Abandoned, Then
    <3>2. "top" \in Mains
      BY DEF Mains
    <3>3. Landed("top", "top", "top")
      BY <2>0, <3>1, <3>2, ThenLands
    <3>4. Proper("top", "top") /\ Outside("top")
      BY <1>0, <2>0, <2>1 DEF CInv, Numbered, Blocks, Proper, Entries, Routines, Askers, Pollers, Stops, Reading, Outside, Failing
    <3>5. Moves("top", "top", "top")
      BY <2>0, <2>1 DEF Moves, Dialling, Handshake
    <3> QED
      BY <3>3, <3>4, <3>5
  <2> QED
    BY <1>15, <2>1 DEF Abandoned
<1>16. CASE Ponged
  <2>0. at = "ponged" /\ at \in Mains /\ Here = at
    BY <1>16, AtMain DEF Ponged, Mains
  <2>1. CASE result = 0
    <3>1. at' = "disconnect" /\ stack' = stack
      BY <1>16, <2>0, <2>1 DEF Ponged, Then
    <3>2. "disconnect" \in Mains
      BY DEF Mains
    <3>3. Landed("disconnect", "disconnect", "disconnect")
      BY <2>0, <3>1, <3>2, ThenLands
    <3>4. Proper("disconnect", "disconnect") /\ Outside("disconnect")
      BY <1>0, <2>0, <2>1 DEF CInv, Numbered, Blocks, Proper, Entries, Routines, Askers, Pollers, Stops, Reading, Outside, Failing
    <3>5. Moves("disconnect", "disconnect", "disconnect")
      BY <2>0, <2>1 DEF Moves, Dialling, Handshake
    <3> QED
      BY <3>3, <3>4, <3>5
  <2>2. CASE result # 0
    <3>1. at' = "top" /\ stack' = stack
      BY <1>16, <2>0, <2>2 DEF Ponged, Then
    <3>2. "top" \in Mains
      BY DEF Mains
    <3>3. Landed("top", "top", "top")
      BY <2>0, <3>1, <3>2, ThenLands
    <3>4. Proper("top", "top") /\ Outside("top")
      BY <1>0, <2>0, <2>2 DEF CInv, Numbered, Blocks, Proper, Entries, Routines, Askers, Pollers, Stops, Reading, Outside, Failing
    <3>5. Moves("top", "top", "top")
      BY <2>0, <2>2 DEF Moves, Dialling, Handshake
    <3> QED
      BY <3>3, <3>4, <3>5
  <2> QED
    BY <1>16, <2>1, <2>2 DEF Ponged
<1>17. CASE Disconnect
  <2>0. at = "disconnect" /\ at \in Mains /\ Here = at
    BY <1>17, AtMain DEF Disconnect, Mains
  <2>1. CASE TRUE
    <3>1. Enter("TCPClient_connected", "MQTTClient_disconnect")
      BY <1>17, <2>0, <2>1 DEF Disconnect, Call, Write
    <3>2. "TCPClient_connected" \in Routines /\ "MQTTClient_disconnect" \in Mains /\ Calls("MQTTClient_disconnect", "TCPClient_connected")
      BY DEF Mains, Calls, Askers, Pollers, Writers, Stops, Failing, Routines
    <3>3. Landed("TCPClient_connected", "MQTTClient_disconnect", "MQTTClient_disconnect")
      BY <2>0, <3>1, <3>2, CallLands
    <3>4. Proper("TCPClient_connected", "MQTTClient_disconnect") /\ Outside("MQTTClient_disconnect")
      BY <1>0, <2>0, <2>1 DEF CInv, Numbered, Blocks, Proper, Entries, Routines, Askers, Pollers, Stops, Reading, Outside, Failing
    <3>5. Moves("TCPClient_connected", "MQTTClient_disconnect", "MQTTClient_disconnect")
      BY <2>0, <2>1 DEF Moves, Dialling, Handshake
    <3> QED
      BY <3>3, <3>4, <3>5
  <2> QED
    BY <1>17, <2>1 DEF Disconnect
<1>18. CASE MQTTClient_disconnect
  <2>0. at = "MQTTClient_disconnect" /\ at \in Mains /\ Here = at
    BY <1>18, AtMain DEF MQTTClient_disconnect, Mains
  <2>1. CASE TRUE
    <3>1. at' = "down" /\ stack' = stack
      BY <1>18, <2>0, <2>1 DEF MQTTClient_disconnect, Then
    <3>2. "down" \in Mains
      BY DEF Mains
    <3>3. Landed("down", "down", "down")
      BY <2>0, <3>1, <3>2, ThenLands
    <3>4. Proper("down", "down") /\ Outside("down")
      BY <1>0, <2>0, <2>1 DEF CInv, Numbered, Blocks, Proper, Entries, Routines, Askers, Pollers, Stops, Reading, Outside, Failing
    <3>5. Moves("down", "down", "down")
      BY <2>0, <2>1 DEF Moves, Dialling, Handshake
    <3> QED
      BY <3>3, <3>4, <3>5
  <2> QED
    BY <1>18, <2>1 DEF MQTTClient_disconnect
<1> QED
  BY <1>1, <1>2, <1>3, <1>4, <1>5, <1>6, <1>7, <1>8, <1>9, <1>10, <1>11, <1>12, <1>13, <1>14, <1>15, <1>16, <1>17, <1>18 DEF PlainStep

LEMMA PlainAt ==
  ASSUME CInv, PlainStep PROVE at \in Mains /\ at \notin Routines /\ Here = at /\ Main = at
<1>1. at \in Mains
  BY DEF Mains, PlainStep, Down, Hello, Greeted, Awaited, Welcomed, Subscribe, MQTTClient_subscribe, Top, Loop, MQTTClient_loop, Pinged, Polled, Dispatch, Callback, Abandoned, Ponged, Disconnect, MQTTClient_disconnect
<1> QED
  BY <1>1, AtMain, Disjoint

(* They leave the modem, the block and the server alone.                    *)
LEMMA PlainQuiet == ASSUME PlainStep PROVE Quiet /\ UNCHANGED <<due, granted, garbled>>
<1>1. CASE Down
  BY <1>1 DEF Quiet, Down, Still, Local, Others, Other, Then, Publish, Call, Write, Enter, timers, reader, flags, server, socket, block, request, modem, peer
<1>2. CASE Hello
  BY <1>2 DEF Quiet, Hello, Still, Local, Others, Other, Then, Publish, Call, Write, Enter, timers, reader, flags, server, socket, block, request, modem, peer
<1>3. CASE Greeted
  BY <1>3 DEF Quiet, Greeted, Still, Local, Others, Other, Then, Publish, Call, Write, Enter, timers, reader, flags, server, socket, block, request, modem, peer
<1>4. CASE Awaited
  BY <1>4 DEF Quiet, Awaited, Still, Local, Others, Other, Then, Publish, Call, Write, Enter, timers, reader, flags, server, socket, block, request, modem, peer
<1>5. CASE Welcomed
  BY <1>5 DEF Quiet, Welcomed, Still, Local, Others, Other, Then, Publish, Call, Write, Enter, timers, reader, flags, server, socket, block, request, modem, peer, Deliver, TopicTooLong, AnswerPing, PingAnswered, OtherPacket, Through
<1>6. CASE Subscribe
  BY <1>6 DEF Quiet, Subscribe, Still, Local, Others, Other, Then, Publish, Call, Write, Enter, timers, reader, flags, server, socket, block, request, modem, peer
<1>7. CASE MQTTClient_subscribe
  BY <1>7 DEF Quiet, MQTTClient_subscribe, Still, Local, Others, Other, Then, Publish, Call, Write, Enter, timers, reader, flags, server, socket, block, request, modem, peer
<1>8. CASE Top
  BY <1>8 DEF Quiet, Top, Still, Local, Others, Other, Then, Publish, Call, Write, Enter, timers, reader, flags, server, socket, block, request, modem, peer
<1>9. CASE Loop
  BY <1>9 DEF Quiet, Loop, Still, Local, Others, Other, Then, Publish, Call, Write, Enter, timers, reader, flags, server, socket, block, request, modem, peer
<1>10. CASE MQTTClient_loop
  BY <1>10 DEF Quiet, MQTTClient_loop, Still, Local, Others, Other, Then, Publish, Call, Write, Enter, timers, reader, flags, server, socket, block, request, modem, peer
<1>11. CASE Pinged
  BY <1>11 DEF Quiet, Pinged, Still, Local, Others, Other, Then, Publish, Call, Write, Enter, timers, reader, flags, server, socket, block, request, modem, peer
<1>12. CASE Polled
  BY <1>12 DEF Quiet, Polled, Still, Local, Others, Other, Then, Publish, Call, Write, Enter, timers, reader, flags, server, socket, block, request, modem, peer
<1>13. CASE Dispatch
  BY <1>13 DEF Quiet, Dispatch, Still, Local, Others, Other, Then, Publish, Call, Write, Enter, timers, reader, flags, server, socket, block, request, modem, peer, Deliver, TopicTooLong, AnswerPing, PingAnswered, OtherPacket, Through
<1>14. CASE Callback
  BY <1>14 DEF Quiet, Callback, Still, Local, Others, Other, Then, Publish, Call, Write, Enter, timers, reader, flags, server, socket, block, request, modem, peer
<1>15. CASE Abandoned
  BY <1>15 DEF Quiet, Abandoned, Still, Local, Others, Other, Then, Publish, Call, Write, Enter, timers, reader, flags, server, socket, block, request, modem, peer
<1>16. CASE Ponged
  BY <1>16 DEF Quiet, Ponged, Still, Local, Others, Other, Then, Publish, Call, Write, Enter, timers, reader, flags, server, socket, block, request, modem, peer
<1>17. CASE Disconnect
  BY <1>17 DEF Quiet, Disconnect, Still, Local, Others, Other, Then, Publish, Call, Write, Enter, timers, reader, flags, server, socket, block, request, modem, peer
<1>18. CASE MQTTClient_disconnect
  BY <1>18 DEF Quiet, MQTTClient_disconnect, Still, Local, Others, Other, Then, Publish, Call, Write, Enter, timers, reader, flags, server, socket, block, request, modem, peer
<1> QED
  BY <1>1, <1>2, <1>3, <1>4, <1>5, <1>6, <1>7, <1>8, <1>9, <1>10, <1>11, <1>12, <1>13, <1>14, <1>15, <1>16, <1>17, <1>18 DEF PlainStep

(* And none is behind a packet.                                             *)
LEMMA PlainEmpties == ASSUME CInv, PlainStep PROVE packet' = <<>> /\ rd' = NoPacket
<1>0. at \in Mains /\ at \notin Routines /\ Here = at
  BY PlainAt
<1>1. at \notin {"welcomed", "dispatch"} => packet = <<>>
  BY <1>0, Disjoint DEF CInv, Reader
<1>2. rd = NoPacket
  BY <1>0, Disjoint DEF CInv, Reader
<1>3. at = "dispatch" /\ result = 0 => packet = <<>>
  BY <1>0 DEF CInv, Reader, Types
<1> QED
  BY <1>1, <1>2, <1>3 DEF PlainStep, Down, Hello, Greeted, Awaited, Welcomed, Subscribe, MQTTClient_subscribe, Top, Loop, MQTTClient_loop, Pinged, Polled, Dispatch, Callback, Abandoned, Ponged, Disconnect, MQTTClient_disconnect, Still, Local, Others, Other, Then, Call, Write, Enter, timers, reader, flags, server, socket, block, request, modem, peer, Through

LEMMA PlainKeeps ==
  ASSUME Ordinary, CInv, PlainStep PROVE CInv'
<1>1. PICK a, p, m : Landed(a, p, m) /\ Proper(a, p) /\ Outside(p) /\ Moves(a, p, m)
  BY PlainLands
<1>2. at \in Mains /\ at \notin Routines /\ Here = at
  BY PlainAt
<1>3. Quiet
  BY PlainQuiet
<1>4. packet' = <<>> /\ rd' = NoPacket
  BY PlainEmpties
<1>5. Reader'
  <2>1. at' = a /\ Here' = p /\ (at' \notin Routines => Here' = at')
    BY <1>1 DEF Landed, Here, HereOf
  <2>2. a \in {"MQTTClient_readByte", "MQTTClient_readPacket"} => p = a
    BY <2>1 DEF Routines
  <2>3. size' = size
    BY <1>3 DEF Quiet
  <2> QED
    BY <1>1, <1>4, <2>1, <2>2, <2>3 DEF Reader, Outside, Reading, NoPacket
<1>6. Requests' /\ Numbered' /\ Blocks' /\ Sockets'
  BY <1>1, <1>2, <1>3, QuietKeeps
<1>7. Types'
  <2>0. connected \in BOOLEAN /\ pingOutstanding \in BOOLEAN /\ len \in Nat /\ result \in Int
    BY DEF CInv, Types
  <2>1. CASE Down
    BY <1>3, <1>4, <2>1, MqttAssumption DEF CInv, Types, Quiet, Reads, NoPacket, Down, Still, Local, Others, Other, Then, Publish, Call, Write, Enter, timers, reader, flags, server, socket, block, request, modem, peer
  <2>2. CASE Hello
    BY <1>3, <1>4, <2>2, MqttAssumption DEF CInv, Types, Quiet, Reads, NoPacket, Hello, Still, Local, Others, Other, Then, Publish, Call, Write, Enter, timers, reader, flags, server, socket, block, request, modem, peer
  <2>3. CASE Greeted
    BY <1>3, <1>4, <2>3, MqttAssumption DEF CInv, Types, Quiet, Reads, NoPacket, Greeted, Still, Local, Others, Other, Then, Publish, Call, Write, Enter, timers, reader, flags, server, socket, block, request, modem, peer
  <2>4. CASE Awaited
    BY <1>3, <1>4, <2>4, MqttAssumption DEF CInv, Types, Quiet, Reads, NoPacket, Awaited, Still, Local, Others, Other, Then, Publish, Call, Write, Enter, timers, reader, flags, server, socket, block, request, modem, peer
  <2>5. CASE Welcomed
    <3>1. connected' \in BOOLEAN /\ pingOutstanding' \in BOOLEAN
      <4>1. CASE connected' = TRUE /\ pingOutstanding' = FALSE
        BY <2>0, <4>1
      <4>2. CASE UNCHANGED <<connected, pingOutstanding>>
        BY <2>0, <4>2
      <4> QED
        BY <4>1, <4>2, <2>5 DEF Welcomed, Still, Local, Others, Other, Then, Publish, Call, Write, Enter, timers, reader, flags, server, socket, block, request, modem, peer, Deliver, TopicTooLong, AnswerPing, PingAnswered, OtherPacket, Through
    <3>2. topics' \in 0 .. Topics /\ sinceIn' \in Nat /\ sinceOut' \in Nat
      BY <2>5, MqttAssumption DEF CInv, Types, Welcomed, Still, Local, Others, Other, Then, Publish, Call, Write, Enter, timers, reader, flags, server, socket, block, request, modem, peer, Deliver, TopicTooLong, AnswerPing, PingAnswered, OtherPacket, Through
    <3>3. UNCHANGED <<garbled, granted, sinceT, waited>> /\ len' \in Nat /\ result' \in Int
      BY <2>0, <2>5 DEF Welcomed, Still, Local, Others, Other, Then, Publish, Call, Write, Enter, timers, reader, flags, server, socket, block, request, modem, peer, Deliver, TopicTooLong, AnswerPing, PingAnswered, OtherPacket, Through
    <3> QED
      BY <1>3, <1>4, <3>1, <3>2, <3>3 DEF CInv, Types, Quiet, Reads, NoPacket
  <2>6. CASE Subscribe
    <3>1. UNCHANGED <<connected, pingOutstanding>>
      BY <2>6 DEF Subscribe, Still, Local, Others, Other, Then, Publish, Call, Write, Enter, timers, reader, flags, server, socket, block, request, modem, peer
    <3>2. topics' \in 0 .. Topics /\ sinceIn' \in Nat /\ sinceOut' \in Nat
      BY <2>6, MqttAssumption DEF CInv, Types, Subscribe, Still, Local, Others, Other, Then, Publish, Call, Write, Enter, timers, reader, flags, server, socket, block, request, modem, peer
    <3>3. UNCHANGED <<garbled, granted, sinceT, waited>> /\ len' \in Nat /\ result' \in Int
      BY <2>0, <2>6 DEF Subscribe, Still, Local, Others, Other, Then, Publish, Call, Write, Enter, timers, reader, flags, server, socket, block, request, modem, peer
    <3> QED
      BY <1>3, <1>4, <3>1, <3>2, <3>3 DEF CInv, Types, Quiet, Reads, NoPacket
  <2>7. CASE MQTTClient_subscribe
    BY <1>3, <1>4, <2>7, MqttAssumption DEF CInv, Types, Quiet, Reads, NoPacket, MQTTClient_subscribe, Still, Local, Others, Other, Then, Publish, Call, Write, Enter, timers, reader, flags, server, socket, block, request, modem, peer
  <2>8. CASE Top
    BY <1>3, <1>4, <2>8, MqttAssumption DEF CInv, Types, Quiet, Reads, NoPacket, Top, Still, Local, Others, Other, Then, Publish, Call, Write, Enter, timers, reader, flags, server, socket, block, request, modem, peer
  <2>9. CASE Loop
    BY <1>3, <1>4, <2>9, MqttAssumption DEF CInv, Types, Quiet, Reads, NoPacket, Loop, Still, Local, Others, Other, Then, Publish, Call, Write, Enter, timers, reader, flags, server, socket, block, request, modem, peer
  <2>10. CASE MQTTClient_loop
    BY <1>3, <1>4, <2>10, MqttAssumption DEF CInv, Types, Quiet, Reads, NoPacket, MQTTClient_loop, Still, Local, Others, Other, Then, Publish, Call, Write, Enter, timers, reader, flags, server, socket, block, request, modem, peer
  <2>11. CASE Pinged
    <3>1. connected' \in BOOLEAN /\ pingOutstanding' \in BOOLEAN
      <4>1. CASE connected' = connected /\ pingOutstanding' = TRUE
        BY <2>0, <4>1
      <4>2. CASE UNCHANGED <<connected, pingOutstanding>>
        BY <2>0, <4>2
      <4> QED
        BY <4>1, <4>2, <2>11 DEF Pinged, Still, Local, Others, Other, Then, Publish, Call, Write, Enter, timers, reader, flags, server, socket, block, request, modem, peer
    <3>2. topics' \in 0 .. Topics /\ sinceIn' \in Nat /\ sinceOut' \in Nat
      BY <2>11, MqttAssumption DEF CInv, Types, Pinged, Still, Local, Others, Other, Then, Publish, Call, Write, Enter, timers, reader, flags, server, socket, block, request, modem, peer
    <3>3. UNCHANGED <<garbled, granted, sinceT, waited>> /\ len' \in Nat /\ result' \in Int
      BY <2>0, <2>11 DEF Pinged, Still, Local, Others, Other, Then, Publish, Call, Write, Enter, timers, reader, flags, server, socket, block, request, modem, peer
    <3> QED
      BY <1>3, <1>4, <3>1, <3>2, <3>3 DEF CInv, Types, Quiet, Reads, NoPacket
  <2>12. CASE Polled
    BY <1>3, <1>4, <2>12, MqttAssumption DEF CInv, Types, Quiet, Reads, NoPacket, Polled, Still, Local, Others, Other, Then, Publish, Call, Write, Enter, timers, reader, flags, server, socket, block, request, modem, peer
  <2>13. CASE Dispatch
    <3>1. connected' \in BOOLEAN /\ pingOutstanding' \in BOOLEAN
      <4>1. CASE connected' = connected /\ pingOutstanding' = FALSE
        BY <2>0, <4>1
      <4>2. CASE UNCHANGED <<connected, pingOutstanding>>
        BY <2>0, <4>2
      <4> QED
        BY <4>1, <4>2, <2>13 DEF Dispatch, Still, Local, Others, Other, Then, Publish, Call, Write, Enter, timers, reader, flags, server, socket, block, request, modem, peer, Deliver, TopicTooLong, AnswerPing, PingAnswered, OtherPacket, Through
    <3>2. topics' \in 0 .. Topics /\ sinceIn' \in Nat /\ sinceOut' \in Nat
      BY <2>13, MqttAssumption DEF CInv, Types, Dispatch, Still, Local, Others, Other, Then, Publish, Call, Write, Enter, timers, reader, flags, server, socket, block, request, modem, peer, Deliver, TopicTooLong, AnswerPing, PingAnswered, OtherPacket, Through
    <3>3. UNCHANGED <<garbled, granted, sinceT, waited>> /\ len' \in Nat /\ result' \in Int
      BY <2>0, <2>13 DEF Dispatch, Still, Local, Others, Other, Then, Publish, Call, Write, Enter, timers, reader, flags, server, socket, block, request, modem, peer, Deliver, TopicTooLong, AnswerPing, PingAnswered, OtherPacket, Through
    <3> QED
      BY <1>3, <1>4, <3>1, <3>2, <3>3 DEF CInv, Types, Quiet, Reads, NoPacket
  <2>14. CASE Callback
    BY <1>3, <1>4, <2>14, MqttAssumption DEF CInv, Types, Quiet, Reads, NoPacket, Callback, Still, Local, Others, Other, Then, Publish, Call, Write, Enter, timers, reader, flags, server, socket, block, request, modem, peer
  <2>15. CASE Abandoned
    BY <1>3, <1>4, <2>15, MqttAssumption DEF CInv, Types, Quiet, Reads, NoPacket, Abandoned, Still, Local, Others, Other, Then, Publish, Call, Write, Enter, timers, reader, flags, server, socket, block, request, modem, peer
  <2>16. CASE Ponged
    BY <1>3, <1>4, <2>16, MqttAssumption DEF CInv, Types, Quiet, Reads, NoPacket, Ponged, Still, Local, Others, Other, Then, Publish, Call, Write, Enter, timers, reader, flags, server, socket, block, request, modem, peer
  <2>17. CASE Disconnect
    <3>1. connected' \in BOOLEAN /\ pingOutstanding' \in BOOLEAN
      <4>1. CASE connected' = FALSE /\ pingOutstanding' = pingOutstanding
        BY <2>0, <4>1
      <4>2. CASE UNCHANGED <<connected, pingOutstanding>>
        BY <2>0, <4>2
      <4> QED
        BY <4>1, <4>2, <2>17 DEF Disconnect, Still, Local, Others, Other, Then, Publish, Call, Write, Enter, timers, reader, flags, server, socket, block, request, modem, peer
    <3>2. topics' \in 0 .. Topics /\ sinceIn' \in Nat /\ sinceOut' \in Nat
      BY <2>17, MqttAssumption DEF CInv, Types, Disconnect, Still, Local, Others, Other, Then, Publish, Call, Write, Enter, timers, reader, flags, server, socket, block, request, modem, peer
    <3>3. UNCHANGED <<garbled, granted, sinceT, waited>> /\ len' \in Nat /\ result' \in Int
      BY <2>0, <2>17 DEF Disconnect, Still, Local, Others, Other, Then, Publish, Call, Write, Enter, timers, reader, flags, server, socket, block, request, modem, peer
    <3> QED
      BY <1>3, <1>4, <3>1, <3>2, <3>3 DEF CInv, Types, Quiet, Reads, NoPacket
  <2>18. CASE MQTTClient_disconnect
    BY <1>3, <1>4, <2>18, MqttAssumption DEF CInv, Types, Quiet, Reads, NoPacket, MQTTClient_disconnect, Still, Local, Others, Other, Then, Publish, Call, Write, Enter, timers, reader, flags, server, socket, block, request, modem, peer
  <2> QED
    BY <2>1, <2>2, <2>3, <2>4, <2>5, <2>6, <2>7, <2>8, <2>9, <2>10, <2>11, <2>12, <2>13, <2>14, <2>15, <2>16, <2>17, <2>18 DEF PlainStep
<1> QED
  BY <1>1, <1>5, <1>6, <1>7 DEF CInv, Landed

----------------------------------------------------------------------------
(* The steps that are not plain ones.                                       *)
LEMMA ModIs ==
  ASSUME NEW n \in Nat, NEW m \in Nat \ {0}
  PROVE  n % m \in 0 .. m - 1
OBVIOUS

LEMMA Squares == ASSUME NEW m \in Nat \ {0} PROVE m * m \in Nat \ {0} /\ 4 * m * m \in Nat \ {0}
OBVIOUS

LEMMA ProductIs ==
  ASSUME NEW a \in Nat, NEW b \in Nat PROVE a * b \in Nat
OBVIOUS

(* A byte, or its absence, either goes on reading or ends the packet.       *)
LEMMA StoreDoes ==
  ASSUME CInv, NEW b \in Nat, NEW err \in BOOLEAN, Store(b, err)
  PROVE  /\ packet' \in Seq(Nat) /\ rd' \in Reads /\ UNCHANGED request
         /\ \/ /\ at' = "MQTTClient_readByte" /\ stack' = stack /\ result' = result
               /\ rd'.part # "header" /\ (err => rd.part = "header")
            \/ /\ at' = Head(stack) /\ stack' = Tail(stack) /\ result' = Len(packet')
               /\ rd' = NoPacket /\ (err => packet' = <<>>)
<1> DEFINE Effect ==
        /\ packet' \in Seq(Nat) /\ rd' \in Reads
        /\ \/ /\ at' = "MQTTClient_readByte" /\ stack' = stack /\ result' = result
              /\ rd'.part # "header" /\ (err => rd.part = "header")
           \/ /\ at' = Head(stack) /\ stack' = Tail(stack) /\ result' = Len(packet')
              /\ rd' = NoPacket /\ (err => packet' = <<>>)
<1>0. packet \in Seq(Nat) /\ rd \in Reads /\ Base \in Nat \ {0}
  BY MqttAssumption DEF CInv, Types
<1>1. NoPacket \in Reads /\ <<>> \in Seq(Nat) /\ Len(<<>>) = 0
  BY DEF NoPacket, Reads
<1>2. UNCHANGED request
  BY DEF Store
<1>3. CASE rd.part = "header" /\ HeaderByte(b, err)
  <2>1. packet' \in Seq(Nat)
    BY <1>3 DEF HeaderByte
  <2>2. rd' \in Reads /\ rd'.part # "header"
    BY <1>0, <1>3 DEF HeaderByte, Reads
  <2> QED
    BY <1>2, <1>3, <2>1, <2>2 DEF HeaderByte, Goto
<1>4. ASSUME NEW e, e = (err \/ rd.err), LengthByte(b, e) PROVE Effect
  <2>1. CASE e
    BY <1>1, <1>4, <2>1 DEF LengthByte, Return
  <2>2. CASE ~e
    <3> DEFINE d == Digit(b) * rd.multiplier
               m == 4 * Base * Base
               n == (rd.length + d) % m
               q == Append(packet, b)
               c == rd.multiplier * Base
               r == 2 * Base
               k == c % r
    <3>1. n \in Nat /\ k \in Nat
      <4>1. Digit(b) \in Nat /\ rd.length \in Nat /\ rd.multiplier \in Nat
        BY <1>0, ModIs DEF Digit, Reads
      <4>2. d \in Nat /\ c \in Nat /\ m \in Nat \ {0} /\ r \in Nat \ {0}
        BY <1>0, <4>1, ProductIs, Squares
      <4> HIDE DEF d, m, c, r
      <4>3. k \in Nat
        BY <4>2, ModIs
      <4>4. rd.length + d \in Nat
        BY <4>1, <4>2
      <4> QED
        BY <4>2, <4>3, <4>4, ModIs
    <3>2. q \in Seq(Nat) /\ Len(q) = Len(packet) + 1
      BY <1>0
    <3>3. packet' = q
      BY <1>4, <2>2 DEF LengthByte
    <3>4. CASE ~Marked(b) /\ n = 0
      <4>1. Return(Len(packet) + 1) /\ rd' = NoPacket
        BY <1>4, <2>2, <3>4 DEF LengthByte
      <4> QED
        BY <1>1, <1>4, <2>2, <3>2, <3>3, <4>1 DEF Return
    <3>5. CASE ~(~Marked(b) /\ n = 0)
      <4>1. /\ Goto("MQTTClient_readByte")
            /\ rd' = [rd EXCEPT !.length = n, !.multiplier = k,
                                !.part = IF Marked(b) THEN "digit" ELSE "body"]
        BY <1>4, <2>2, <3>5 DEF LengthByte
      <4> HIDE DEF n, k, q
      <4>2. rd' \in Reads /\ rd'.part # "header"
        BY <1>0, <3>1, <4>1 DEF Reads
      <4> QED
        BY <1>4, <2>2, <3>2, <3>3, <4>1, <4>2 DEF Goto
    <3> QED
      BY <3>4, <3>5
  <2> QED
    BY <2>1, <2>2
<1>5. CASE rd.part = "body" /\ BodyByte(b, err)
  <2> DEFINE q == IF Room THEN Append(packet, b) ELSE <<>>
  <2>1. q \in Seq(Nat)
    BY <1>0
  <2>2. CASE err
    BY <1>1, <1>2, <1>5, <2>2 DEF BodyByte, Return
  <2>3. CASE ~err /\ rd.i + 1 = rd.length
    <3>1. packet' = q /\ Return(Len(q)) /\ rd' = NoPacket
      BY <1>5, <2>3 DEF BodyByte
    <3> QED
      BY <1>1, <1>2, <2>1, <2>3, <3>1 DEF Return
  <2>4. CASE ~err /\ rd.i + 1 # rd.length
    <3>1. packet' = q /\ rd' = [rd EXCEPT !.i = @ + 1] /\ Goto("MQTTClient_readByte")
      BY <1>5, <2>4 DEF BodyByte
    <3>2. rd' \in Reads /\ rd'.part # "header"
      BY <1>0, <1>5, <3>1 DEF Reads
    <3> QED
      BY <1>2, <2>1, <2>4, <3>1, <3>2 DEF Goto
  <2> QED
    BY <2>2, <2>3, <2>4
<1>6. Effect
  BY <1>2, <1>3, <1>4, <1>5 DEF Store
<1> QED
  BY <1>2, <1>6

LEMMA MQTTClient_connectKeeps ==
  ASSUME CInv, MQTTClient_connect PROVE CInv'
<1>0. at = "MQTTClient_connect" /\ at \in Mains /\ Here = at
  BY AtMain DEF MQTTClient_connect, Mains
<1>1. ~number /\ result = -1
  BY <1>0 DEF CInv, Numbered, Failing, Askers
<1>2. Enter("TCPClient_connect", "hello") /\ TCPClient_init
  BY <1>1 DEF MQTTClient_connect, Call
<1>3. Landed("TCPClient_connect", "hello", "hello")
  <2>1. "TCPClient_connect" \in Routines /\ "hello" \in Mains /\ Calls("hello", "TCPClient_connect")
    BY DEF Mains, Calls, Askers, Pollers, Writers, Stops, Failing, Routines
  <2> QED
    BY <1>0, <1>2, <2>1, CallLands
<1>4. /\ number' = FALSE /\ notif' = FALSE /\ rxLen' = 0 /\ size' = 0 /\ idx' = 0 /\ tick' = 0
      /\ result' = 0
      /\ UNCHANGED <<buff, hwFault, registered, sessions, session, link, rcv, wire, faults, call,
                      verdict, len, packet, rd, connected, topics, pingOutstanding, sinceIn, sinceOut,
                      sinceT, waited, due, granted, garbled>>
  BY <1>1, <1>2 DEF MQTTClient_connect, TCPClient_init, Still, Local, Others, Other, Then, Call, Write, Enter, timers, reader, flags, server, socket, block, request, modem, peer
<1>5. call = "none" /\ verdict = "success" /\ packet = <<>> /\ rd = NoPacket
  BY <1>0 DEF CInv, Requests, CallOf, Reader, Reading
<1>6. at' = "TCPClient_connect" /\ Here' = "hello" /\ Nest(at, stack)'
  BY <1>3 DEF Landed
<1>7. Types'
  <2>1. number' \in BOOLEAN /\ notif' \in BOOLEAN
    BY <1>4
  <2>2. /\ size' \in Nat /\ idx' \in Nat /\ rxLen' \in Nat /\ tick' \in Nat /\ result' \in Int
        /\ size' + idx' <= TCP_MAX_BUF_SIZE
    BY <1>4, BlockSize
  <2> QED
    BY <1>4, <2>1, <2>2 DEF CInv, Types
<1>8. Requests' /\ Numbered' /\ Blocks'
  BY <1>4, <1>5, <1>6 DEF Requests, CallOf, Numbered, Blocks, Failing, Askers, Pollers, Writers, Reading
<1>9. Sockets' /\ Reader'
  BY <1>1, <1>4, <1>5, <1>6 DEF CInv, Sockets, Reader, Reading
<1> QED
  BY <1>6, <1>7, <1>8, <1>9 DEF CInv

(* The two ends of MQTTClient_write, and MQTTClient_publish.                *)
LEMMA WriteStepsLand ==
  ASSUME Ordinary, CInv, Wrote \/ MQTTClient_publish
  PROVE  \E a, p, m :
           /\ Landed(a, p, m) /\ Proper(a, p)
           /\ p \in Publishing \cup {"subscribe", "loop", "top"}
           /\ m \in {"subscribe", "loop", "top"}
<1> DEFINE Goal == \E a, p, m :
                     /\ Landed(a, p, m) /\ Proper(a, p)
                     /\ p \in Publishing \cup {"subscribe", "loop", "top"}
                     /\ m \in {"subscribe", "loop", "top"}
<1>0. at \in {"subscribed", "published", "MQTTClient_publish"} /\ at \notin Routines /\ Here = at
  BY AtMain, AtPublishing, Disjoint DEF Wrote, MQTTClient_publish, Publishing, Mains
<1>1. Goal
  <2>1. CASE at = "subscribed"
    <3>1. at' = "subscribe" /\ stack' = stack
      BY <2>1 DEF Wrote, MQTTClient_publish, Then
    <3>2. at \in Mains /\ "subscribe" \in Mains
      BY <2>1 DEF Mains
    <3>3. Landed("subscribe", "subscribe", "subscribe")
      BY <3>1, <3>2, ThenLands
    <3> QED
      BY <3>3 DEF Proper, Routines, Entries, Askers, Pollers, Stops, Reading
  <2>2. CASE at \in Publishing
    <3>1. Main \in {"loop", "top"}
      BY <2>2, AtPublishing
    <3>2. CASE at' = Head(stack) /\ stack' = Tail(stack)
      <4>1. Landed(Main, Main, Main)
        BY <2>2, <3>2, ReturnLands
      <4> QED
        BY <3>1, <4>1 DEF Proper, Routines, Entries, Askers, Pollers, Stops, Reading
    <3>3. CASE \E n \in OutLengths : Write(n, "published")
      <4>1. PICK n \in OutLengths : Write(n, "published")
        BY <3>3
      <4>2. /\ "TCPClient_write" \in Routines /\ "published" \in Publishing
            /\ Calls("published", "TCPClient_write")
        BY DEF Publishing, Calls, Writers, Routines
      <4>3. Landed("TCPClient_write", "published", Main)
        BY <2>2, <4>1, <4>2, InnerCallLands DEF Write
      <4>4. len' < 2 * Base
        BY <4>1 DEF Write, Ordinary
      <4> QED
        BY <3>1, <4>2, <4>3, <4>4 DEF Proper, Routines, Entries, Askers, Pollers, Stops, Reading
    <3> QED
      BY <2>2, <3>2, <3>3 DEF Wrote, MQTTClient_publish, Return, Publishing
  <2> QED
    BY <1>0, <2>1, <2>2 DEF Publishing
<1> QED
  BY <1>1

LEMMA WriteStepsKeep ==
  ASSUME Ordinary, CInv, Wrote \/ MQTTClient_publish PROVE CInv'
<1>0. at \in {"subscribed", "published", "MQTTClient_publish"} /\ at \notin Routines /\ Here = at
  BY AtMain, AtPublishing, Disjoint DEF Wrote, MQTTClient_publish, Publishing, Mains
<1>2. PICK a, p, m :
          /\ Landed(a, p, m) /\ Proper(a, p)
          /\ p \notin Reading \cup {"welcomed", "dispatch"}
  BY WriteStepsLand DEF Reading, Publishing
<1>3. /\ Quiet /\ UNCHANGED <<reader, connected, topics, pingOutstanding, sinceIn, sinceT, waited, server>>
      /\ sinceOut' \in {0, sinceOut} /\ result' = 0
  BY DEF Wrote, MQTTClient_publish, Return, Quiet, Still, Local, Others, Other, Then, Call, Write, Enter, timers, reader, flags, server, socket, block, request, modem, peer
<1>4. len' \in Nat
  <2>1. len' = len \/ len' \in OutLengths
    BY DEF Wrote, MQTTClient_publish, Return, Still, Then, Write, request
  <2> QED
    BY <2>1, MqttAssumption DEF CInv, Types
<1>5. Requests' /\ Numbered' /\ Blocks' /\ Sockets'
  BY <1>0, <1>2, <1>3, QuietKeeps
<1>6. Types'
  BY <1>3, <1>4 DEF CInv, Types, Quiet, reader, server
<1>7. packet = <<>> /\ rd = NoPacket
  BY <1>0 DEF CInv, Reader, Reading
<1>8. Here' = p /\ (at' = p \/ at' \in Routines) /\ Nest(at, stack)'
  BY <1>2 DEF Landed, Here, HereOf
<1>9. Reader'
  BY <1>2, <1>3, <1>7, <1>8 DEF Reader, reader, Reading, Routines
<1> QED
  BY <1>5, <1>6, <1>8, <1>9 DEF CInv

LEMMA MQTTClient_readPacketKeeps ==
  ASSUME CInv, MQTTClient_readPacket PROVE CInv'
<1>0. at = "MQTTClient_readPacket" /\ at \in Reading /\ at \notin Routines /\ Here = at
  BY AtReading, Disjoint DEF MQTTClient_readPacket, Reading
<1>1. at' = "MQTTClient_readByte" /\ stack' = stack /\ result' = 0 /\ packet' = <<>> /\ rd' = NoPacket
  BY DEF MQTTClient_readPacket, Then
<1>2. Landed("MQTTClient_readByte", "MQTTClient_readByte", Main)
  BY <1>0, <1>1, StepLands DEF Reading
<1>3. Quiet /\ UNCHANGED <<len, timers, flags, server>>
  BY DEF MQTTClient_readPacket, Quiet, Still, Local, Others, Other, Then, Call, Write, Enter, timers, reader, flags, server, socket, block, request, modem, peer
<1>4. size > 0 => number
  BY <1>0 DEF CInv, Blocks
<1>5. Proper("MQTTClient_readByte", "MQTTClient_readByte")
  BY <1>4 DEF Proper, Routines, Entries, Askers, Pollers, Stops, Reading
<1>6. Requests' /\ Numbered' /\ Blocks' /\ Sockets'
  BY <1>0, <1>2, <1>3, <1>5, QuietKeeps
<1>7. Types'
  BY <1>1, <1>3 DEF CInv, Types, Quiet, timers, flags, server, NoPacket, Reads
<1>8. Reader'
  BY <1>0, <1>1, <1>2, <1>3 DEF CInv, Reader, Landed, Quiet, Reading
<1> QED
  BY <1>2, <1>6, <1>7, <1>8 DEF CInv, Landed

LEMMA AvailableKeeps ==
  ASSUME CInv, Available PROVE CInv'
<1> DEFINE Goal == \E a, p, m : Landed(a, p, m) /\ Proper(a, p)
<1>0. at = "available" /\ at \in Reading /\ at \notin Routines /\ Here = at
  BY AtReading, Disjoint DEF Available, Reading
<1>1. /\ size \in Nat /\ result \in Int /\ size = (IF result > 0 THEN result ELSE 0)
      /\ (size > 0 => number) /\ rd.part # "header" /\ packet \in Seq(Nat) /\ rd \in Reads
  BY <1>0 DEF CInv, Types, Blocks, Reader, Pollers
<1>2. Quiet /\ UNCHANGED <<len, sinceIn, sinceOut, sinceT, flags, server>>
  <2>1. UNCHANGED request
    BY DEF Available, Then, Call, Store
  <2> QED
    BY <2>1 DEF Available, Quiet, Still, Local, Other, socket, block, request, modem, peer
<1>3. waited' \in Nat
  <2>1. waited' \in {0, waited}
    BY DEF Available
  <2> QED
    BY <2>1 DEF CInv, Types
<1>4. CASE result > 0
  <2>1. at' = "MQTTClient_readByte" /\ stack' = stack /\ result' = 0 /\ packet' = packet /\ rd' = rd
    BY <1>4 DEF Available, Then, reader
  <2>2. Landed("MQTTClient_readByte", "MQTTClient_readByte", Main)
    BY <1>0, <2>1, StepLands DEF Reading
  <2>3. Proper("MQTTClient_readByte", "MQTTClient_readByte")
    BY <1>1 DEF Proper, Routines, Entries, Askers, Pollers, Stops, Reading
  <2>4. Requests' /\ Numbered' /\ Blocks' /\ Sockets'
    BY <1>0, <1>2, <2>2, <2>3, QuietKeeps
  <2>5. Types'
    BY <1>2, <1>3, <2>1 DEF CInv, Types, Quiet, flags, server
  <2>6. Reader'
    BY <1>1, <2>1, <2>2 DEF Reader, Landed, Reading
  <2> QED
    BY <2>2, <2>4, <2>5, <2>6 DEF CInv, Landed
<1>5. CASE ~(result > 0) /\ waited > ReadTimeout /\ Late
  <2>1. Store(0, TRUE)
    BY <1>5 DEF Available
  <2>2. /\ packet' = <<>> /\ at' = Head(stack) /\ stack' = Tail(stack) /\ result' = Len(packet')
        /\ rd' = NoPacket /\ packet' \in Seq(Nat) /\ rd' \in Reads
    BY <1>1, <2>1, StoreDoes
  <2>3. Landed(Main, Main, Main) /\ Main \in {"welcomed", "dispatch"}
    BY <1>0, <2>2, ReturnLands, AtReading
  <2>4. Proper(Main, Main)
    BY <1>1, <2>3 DEF Proper, Routines, Entries, Askers, Pollers, Stops, Reading
  <2>5. Requests' /\ Numbered' /\ Blocks' /\ Sockets'
    BY <1>0, <1>2, <2>3, <2>4, QuietKeeps
  <2>6. Types'
    BY <1>2, <1>3, <2>2 DEF CInv, Types, Quiet, flags, server
  <2>7. Reader'
    BY <1>1, <2>2, <2>3 DEF Reader, Landed, Reading
  <2> QED
    BY <2>3, <2>5, <2>6, <2>7 DEF CInv, Landed
<1>6. CASE ~(result > 0) /\ ~(waited > ReadTimeout /\ Late)
  <2>1. Enter("TCPCheckStatus", "available") /\ packet' = packet /\ rd' = rd /\ result' = 0
    BY <1>6 DEF Available, Call, Enter, reader
  <2>2. /\ "TCPCheckStatus" \in Routines /\ "available" \in Reading
        /\ Calls("available", "TCPCheckStatus")
    BY DEF Reading, Calls, Pollers, Routines
  <2>3. Landed("TCPCheckStatus", "available", Main)
    BY <1>0, <2>1, <2>2, InnerCallLands
  <2>4. Proper("TCPCheckStatus", "available")
    BY <1>1 DEF Proper, Routines, Entries, Askers, Pollers, Stops, Reading
  <2>5. Requests' /\ Numbered' /\ Blocks' /\ Sockets'
    BY <1>0, <1>2, <2>3, <2>4, QuietKeeps
  <2>6. Types'
    BY <1>2, <1>3, <2>1 DEF CInv, Types, Quiet, flags, server
  <2>7. Reader'
    BY <1>1, <2>1, <2>3 DEF Reader, Landed, Reading
  <2> QED
    BY <2>3, <2>5, <2>6, <2>7 DEF CInv, Landed
<1> QED
  BY <1>4, <1>5, <1>6

LEMMA MQTTClient_readByteKeeps ==
  ASSUME Ordinary, CInv, MQTTClient_readByte PROVE CInv'
<1>0. at = "MQTTClient_readByte" /\ at \in Reading /\ at \notin Routines /\ Here = at
  BY AtReading, Disjoint DEF MQTTClient_readByte, Reading
<1>1. /\ size \in Nat /\ idx \in Nat /\ size + idx <= TCP_MAX_BUF_SIZE
      /\ (size > 0 => number) /\ packet \in Seq(Nat) /\ rd \in Reads
      /\ buff \in [0 .. TCP_MAX_BUF_SIZE - 1 -> Nat] /\ (rd.part = "header" => size > 0)
  BY <1>0 DEF CInv, Types, Blocks, Reader
<1>2. waited' = 0 /\ UNCHANGED <<modem, peer, faults, socket, tick, sinceIn, sinceOut, sinceT, flags, server>>
  BY DEF MQTTClient_readByte, Local, Other
<1>3. CASE size > 0
  <2>1. Take /\ Store(buff[idx], FALSE)
    BY <1>3 DEF MQTTClient_readByte
  <2>2. idx \in 0 .. TCP_MAX_BUF_SIZE - 1 /\ buff[idx] \in Nat
    BY <1>1, <1>3, BlockSize
  <2>3. /\ size' = size - 1 /\ idx' = (IF size = 1 THEN 0 ELSE idx + 1)
        /\ buff' = [buff EXCEPT ![idx] = 0]
    BY <2>1 DEF Take, Ordinary
  <2>4. size' \in Nat /\ idx' \in Nat /\ size' + idx' <= TCP_MAX_BUF_SIZE
    BY <1>1, <1>3, <2>3, BlockSize
  <2>5. buff' \in [0 .. TCP_MAX_BUF_SIZE - 1 -> Nat]
    BY <1>1, <2>2, <2>3
  <2>6. /\ packet' \in Seq(Nat) /\ rd' \in Reads /\ UNCHANGED request
        /\ \/ at' = "MQTTClient_readByte" /\ stack' = stack /\ result' = result /\ rd'.part # "header"
           \/ /\ at' = Head(stack) /\ stack' = Tail(stack) /\ result' = Len(packet')
              /\ rd' = NoPacket
    BY <2>1, <2>2, StoreDoes
  <2>7. Types'
    <3>1. result' \in Int
      BY <2>6 DEF CInv, Types
    <3> QED
      BY <1>2, <2>4, <2>5, <2>6, <3>1 DEF CInv, Types, modem, peer, socket, flags, server, request
  <2>8. number /\ call = "none" /\ verdict = "success" /\ UNCHANGED <<number, rxLen, hwFault, session, sessions, link, rcv, wire>>
    BY <1>0, <1>1, <1>2, <1>3 DEF CInv, Requests, CallOf, modem, peer, socket
  <2>9. CASE at' = "MQTTClient_readByte" /\ stack' = stack /\ rd'.part # "header"
    <3>1. Landed("MQTTClient_readByte", "MQTTClient_readByte", Main)
      BY <1>0, <2>9, StepLands DEF Reading
    <3>2. at' = "MQTTClient_readByte" /\ Here' = "MQTTClient_readByte"
      BY <3>1 DEF Landed
    <3>3. Requests' /\ Numbered' /\ Blocks'
      BY <2>6, <2>8, <3>2 DEF Requests, CallOf, Numbered, Blocks, Failing, Askers, Pollers, Writers, Reading, request
    <3>4. Sockets' /\ Reader'
      BY <2>8, <2>9, <3>2 DEF CInv, Sockets, Reader, Reading
    <3> QED
      BY <2>7, <3>1, <3>3, <3>4 DEF CInv, Landed
  <2>10. CASE at' = Head(stack) /\ stack' = Tail(stack) /\ result' = Len(packet') /\ rd' = NoPacket
    <3>1. Landed(Main, Main, Main) /\ Main \in {"welcomed", "dispatch"}
      BY <1>0, <2>10, ReturnLands, AtReading
    <3>2. at' = Main /\ Here' = Main
      BY <3>1 DEF Landed
    <3>3. Requests' /\ Numbered' /\ Blocks'
      BY <2>6, <2>8, <3>1, <3>2 DEF Requests, CallOf, Numbered, Blocks, Failing, Askers, Pollers, Writers, Reading, request
    <3>4. Sockets' /\ Reader'
      BY <2>8, <2>10, <3>1, <3>2 DEF CInv, Sockets, Reader, Reading
    <3> QED
      BY <2>7, <3>1, <3>3, <3>4 DEF CInv, Landed
  <2> QED
    BY <2>6, <2>9, <2>10
<1>4. CASE ~(size > 0)
  <2>1. Enter("TCPCheckStatus", "available") /\ packet' = packet /\ rd' = rd /\ result' = 0
    BY <1>4 DEF MQTTClient_readByte, Call, Enter, reader
  <2>2. /\ "TCPCheckStatus" \in Routines /\ "available" \in Reading
        /\ Calls("available", "TCPCheckStatus")
    BY DEF Reading, Calls, Pollers, Routines
  <2>3. Landed("TCPCheckStatus", "available", Main)
    BY <1>0, <2>1, <2>2, InnerCallLands
  <2>4. Proper("TCPCheckStatus", "available")
    BY <1>1 DEF Proper, Routines, Entries, Askers, Pollers, Stops, Reading
  <2>5. Quiet /\ len' = len
    BY <1>2, <1>4 DEF Quiet, MQTTClient_readByte, Call, request, block, modem, peer, socket
  <2>6. Requests' /\ Numbered' /\ Blocks' /\ Sockets'
    BY <1>0, <2>3, <2>4, <2>5, QuietKeeps
  <2>7. Types'
    BY <1>2, <2>1, <2>5 DEF CInv, Types, Quiet, flags, server
  <2>8. Reader'
    BY <1>1, <1>4, <2>1, <2>3 DEF Reader, Landed, Reading
  <2> QED
    BY <2>3, <2>6, <2>7, <2>8 DEF CInv, Landed
<1> QED
  BY <1>3, <1>4

----------------------------------------------------------------------------
(* The modem, the network, the server and time leave FlyportTask where it   *)
(* is.                                                                      *)
LEMMA StaysPut ==
  ASSUME CInv, UNCHANGED <<at, stack>>
  PROVE  Here' = Here /\ Under' = Under /\ Main' = Main /\ Nest(at, stack)'
BY DEF CInv, Here, Under, Main

(* Where it is while the modem works at a request.                          *)
LEMMA Waits ==
  ASSUME CInv
  PROVE  /\ call = "TCPRead" => at = "TCPRead" /\ Here \in Askers \cup Pollers
         /\ call = "TCPWrite" => at = "TCPWrite" /\ Here \in Writers
         /\ call = "TCPRxFlush" => at = "TCPRxFlush" /\ Here = "top"
         /\ call = "APNConfig" => at = "APNConfig" /\ Here = "hello"
         /\ call = "TCPClientOpen" => at = "TCPClientOpen" /\ Here = "hello"
         /\ call = "TCPClientClose" =>
              at = "closing" /\ Here \in Askers \cup Pollers \cup Writers \cup {"top"} \cup Stops
         /\ call = "none" => verdict = "success" /\ at \notin {"TCPRead", "TCPWrite", "TCPRxFlush",
              "APNConfig", "TCPClientOpen", "closing"}
<1>1. /\ call = "TCPRead" => at = "TCPRead"
      /\ call = "TCPWrite" => at = "TCPWrite"
      /\ call = "TCPRxFlush" => at = "TCPRxFlush"
      /\ call = "APNConfig" => at = "APNConfig"
      /\ call = "TCPClientOpen" => at = "TCPClientOpen"
      /\ call = "TCPClientClose" => at = "closing"
      /\ call = "none" => verdict = "success" /\ at \notin {"TCPRead", "TCPWrite", "TCPRxFlush",
              "APNConfig", "TCPClientOpen", "closing"}
  BY DEF CInv, Requests, CallOf
<1> QED
  BY <1>1, Places DEF Calls, Routines, Askers, Pollers, Writers, Stops, Failing

(* A step that only settles the request.                                    *)
LEMMA VerdictKeeps ==
  ASSUME CInv, Pending(call), call # "none", verdict' \in {"success", "failure"},
         UNCHANGED <<call, len, at, stack, result, number, rxLen, notif, buff, size, idx, tick,
                     hwFault, registered, session, link, rcv, wire, packet, rd>>,
         UNCHANGED <<flags, timers, garbled>>, granted' \in BOOLEAN, faults' \in 0 .. MaxFaults,
         sessions' \in 0 .. MaxSessions, sessions' >= sessions,
         call = "TCPClientOpen" => ~number,
         call = "TCPClientClose" => ~session
  PROVE  CInv'
<1>1. Here' = Here /\ Nest(at, stack)'
  BY StaysPut
<1>2. Types'
  BY DEF CInv, Types, flags, timers
<1>3. Requests' /\ Numbered'
  BY <1>1, Waits DEF CInv, Requests, CallOf, Numbered, Pending
<1>4. Blocks'
  BY <1>1 DEF CInv, Blocks
<1>6. Sockets'
  <2>1. at = "closing" => ~session
    BY DEF CInv, Requests, CallOf
  <2> QED
    BY <1>1, <2>1 DEF CInv, Types, Sockets, Pending
<1>5. Reader'
  BY <1>1 DEF CInv, Reader
<1> QED
  BY <1>1, <1>2, <1>3, <1>4, <1>5, <1>6 DEF CInv

LEMMA Unopened ==
  ASSUME CInv, Pending("TCPClientOpen") PROVE ~number /\ Here = "hello" /\ at = "TCPClientOpen" /\ rxLen = 0
<1>1. at = "TCPClientOpen" /\ Here = "hello"
  BY Waits DEF Pending
<1> QED
  BY <1>1 DEF CInv, Numbered, Sockets, Pending

(* The one or two digits of a length below 256 are read as that length.     *)
LEMMA DecodesTo ==
  ASSUME Ordinary, NEW n \in Nat, n < 2 * Base
  PROVE  Decoded(lenBuf(n)) = n
<1>1. Base \in Nat /\ Base >= 4
  BY MqttAssumption DEF Ordinary
<1>2. n % (2 * Base) = n
  BY <1>1
<1>3. CASE n < Base
  <2>1. lenBuf(n) = <<n>>
    BY <1>2, <1>3 DEF lenBuf
  <2>2. n % Base = n /\ ~(n >= Base)
    BY <1>1, <1>3
  <2> QED
    BY <2>1, <2>2 DEF Decoded, Digit, Marked
<1>4. CASE ~(n < Base)
  <2>1. n % Base = n - Base /\ n \div Base = 1
    BY <1>1, <1>4
  <2>2. lenBuf(n) = <<n, 1>>
    BY <1>1, <1>2, <1>4, <2>1 DEF lenBuf
  <2>3. n >= Base
    BY <1>1, <1>4
  <2> QED
    BY <1>1, <2>1, <2>2, <2>3 DEF Decoded, Digit, Marked
<1> QED
  BY <1>3, <1>4

LEMMA VerdictsKeep ==
  ASSUME Ordinary, CInv,
         \/ WriteReaches
         \/ (ConfigDone \/ OpenLeaks \/ WriteDone(FALSE) \/ CallFails) /\ UNCHANGED mqttVars
  PROVE  CInv'
<1>0. /\ faults \in 0 .. MaxFaults /\ MaxFaults \in Nat /\ sessions \in 0 .. MaxSessions
      /\ MaxSessions \in Nat /\ granted \in BOOLEAN
  BY TcpAssumption DEF CInv, Types
<1>1. CASE WriteReaches
  <2>1. /\ Pending("TCPWrite") /\ verdict' = "success" /\ UNCHANGED <<call, len, granted>>
        /\ UNCHANGED <<at, stack, result, number, rxLen, notif, buff, size, idx, tick, hwFault,
                       registered, sessions, session, link, rcv, wire, packet, rd, faults>>
        /\ UNCHANGED <<flags, timers>>
    BY <1>1 DEF WriteReaches, WriteDone, Verdict, control, reader, socket, block, modem, peer
  <2>2. garbled' = garbled
    <3>1. len < 2 * Base /\ len \in Nat
      BY <2>1, Waits DEF CInv, Requests, Types, Pending
    <3>2. Decoded(lenBuf(len)) = len
      BY <3>1, DecodesTo
    <3> QED
      BY <1>1, <3>2 DEF WriteReaches, CInv, Types
  <2> QED
    BY <1>0, <2>1, <2>2, VerdictKeeps DEF Pending
<1>2. CASE ConfigDone /\ UNCHANGED mqttVars
  <2>1. /\ Pending("APNConfig") /\ verdict' = "success" /\ UNCHANGED <<call, len, granted>>
        /\ UNCHANGED <<at, stack, result, number, rxLen, notif, buff, size, idx, tick, hwFault,
                       registered, sessions, session, link, rcv, wire, packet, rd, faults>>
        /\ UNCHANGED <<flags, timers, garbled>>
    BY <1>2 DEF ConfigDone, Verdict, control, reader, flags, timers, server, socket, block, request, modem, peer, mqttVars
  <2> QED
    BY <1>0, <2>1, VerdictKeeps DEF Pending
<1>3. CASE OpenLeaks /\ UNCHANGED mqttVars
  <2>1. /\ Pending("TCPClientOpen") /\ verdict' \in {"success", "failure"} /\ UNCHANGED <<call, len, granted>>
        /\ UNCHANGED <<at, stack, result, rxLen, notif, buff, size, idx, tick, hwFault,
                       registered, session, link, rcv, wire, packet, rd>>
        /\ UNCHANGED <<flags, timers, garbled>>
        /\ number' = FALSE /\ faults < MaxFaults /\ faults' = faults + 1
        /\ sessions < MaxSessions /\ sessions' = sessions + 1
    BY <1>3 DEF OpenLeaks, Verdict, Fault, control, reader, flags, timers, server, socket, block, request, modem, peer, mqttVars
  <2>2. ~number /\ number \in BOOLEAN
    BY <2>1, Unopened DEF CInv, Types
  <2>3. number' = number
    BY <2>1, <2>2
  <2>4. faults' \in 0 .. MaxFaults /\ sessions' \in 0 .. MaxSessions
    BY <1>0, <2>1
  <2> QED
    BY <1>0, <2>1, <2>2, <2>3, <2>4, VerdictKeeps DEF Pending
<1>4. CASE WriteDone(FALSE) /\ UNCHANGED mqttVars
  <2>1. /\ Pending("TCPWrite") /\ verdict' = "success" /\ UNCHANGED <<call, len, granted>>
        /\ UNCHANGED <<at, stack, result, number, rxLen, notif, buff, size, idx, tick, hwFault,
                       registered, sessions, session, link, rcv, wire, packet, rd, faults>>
        /\ UNCHANGED <<flags, timers, garbled>>
    BY <1>4 DEF WriteDone, Verdict, control, reader, flags, timers, server, socket, block, request, modem, peer, mqttVars
  <2> QED
    BY <1>0, <2>1, VerdictKeeps DEF Pending
<1>5. CASE CallFails /\ UNCHANGED mqttVars
  <2>1. /\ verdict' = "failure" /\ UNCHANGED <<call, len, granted>>
        /\ UNCHANGED <<at, stack, result, number, rxLen, notif, buff, size, idx, tick, hwFault,
                       registered, sessions, session, link, rcv, wire, packet, rd>>
        /\ UNCHANGED <<flags, timers, garbled>>
    BY <1>5 DEF CallFails, Verdict, control, reader, flags, timers, server, socket, block, request, modem, peer, mqttVars
  <2>2. Pending(call) /\ call # "none" /\ (call = "TCPClientClose" => ~session)
    BY <1>5 DEF CallFails, CannotDo, Fault, Ordinary, Pending
  <2>3. faults' \in 0 .. MaxFaults
    <3>1. faults' = faults \/ (faults < MaxFaults /\ faults' = faults + 1)
      BY <1>5 DEF CallFails, Fault
    <3> QED
      BY <1>0, <3>1
  <2>4. call = "TCPClientOpen" => ~number
    BY <2>2, Unopened
  <2> QED
    BY <1>0, <2>1, <2>2, <2>3, <2>4, VerdictKeeps
<1> QED
  BY <1>1, <1>2, <1>3, <1>4, <1>5

(* The modem opens, reads, empties and closes the socket.                   *)
LEMMA NewConnectionKeeps ==
  ASSUME CInv, NewConnection PROVE CInv'
<1>1. /\ Pending("TCPClientOpen") /\ verdict' = "success" /\ UNCHANGED <<call, len>>
      /\ number' = TRUE /\ session' = TRUE /\ link' = TRUE /\ rcv' = <<>> /\ wire' = <<>>
      /\ sessions < MaxSessions /\ sessions' = sessions + 1 /\ granted' = FALSE
      /\ UNCHANGED <<at, stack, result, rxLen, notif, buff, size, idx, tick, hwFault, registered,
                     faults, packet, rd, garbled>>
      /\ UNCHANGED <<flags, timers>>
  BY DEF NewConnection, OpenDone, Verdict, control, reader, flags, timers, server, socket, block, request, modem, peer, mqttVars
<1>2. ~number /\ Here = "hello" /\ at = "TCPClientOpen" /\ rxLen = 0
  BY <1>1, Unopened
<1>3. Here' = Here /\ Nest(at, stack)'
  BY <1>1, StaysPut
<1>4. <<>> \in Seq(Nat) /\ Len(<<>>) = 0
  OBVIOUS
<1>5. Types'
  <2>1. number' \in BOOLEAN /\ session' \in BOOLEAN /\ link' \in BOOLEAN /\ granted' \in BOOLEAN
    BY <1>1
  <2>2. sessions' \in 0 .. MaxSessions
    BY <1>1, TcpAssumption DEF CInv, Types
  <2>3. rcv' \in Seq(Nat) /\ wire' \in Seq(Nat)
    BY <1>1, <1>4
  <2>4. verdict' \in {"pending", "success", "failure"}
    BY <1>1
  <2> QED
    BY <1>1, <2>1, <2>2, <2>3, <2>4 DEF CInv, Types, flags, timers
<1>6. Requests' /\ Numbered' /\ Blocks'
  BY <1>1, <1>2, <1>3 DEF CInv, Requests, CallOf, Numbered, Blocks, Askers, Pollers, Writers, Failing, Reading
<1>7. Sockets' /\ Reader'
  BY <1>1, <1>2, <1>3, <1>4, TcpAssumption DEF CInv, Types, Sockets, Reader
<1> QED
  BY <1>3, <1>5, <1>6, <1>7 DEF CInv

LEMMA ReadDoneKeeps ==
  ASSUME CInv, ReadDone, UNCHANGED mqttVars PROVE CInv'
<1> DEFINE k == Least(len, Len(rcv))
           b == [i \in DOMAIN buff |-> IF i < k THEN rcv[i + 1] ELSE buff[i]]
           r == SubSeq(rcv, k + 1, Len(rcv))
<1>1. /\ Pending("TCPRead") /\ verdict' = "success" /\ UNCHANGED <<call, len>>
      /\ buff' = b /\ rcv' = r /\ rxLen' = Len(rcv) - k /\ notif' = ~link
      /\ session
      /\ UNCHANGED <<at, stack, result, number, size, idx, tick, hwFault, registered, sessions,
                     session, link, wire, faults, packet, rd, garbled, granted>>
      /\ UNCHANGED <<flags, timers>>
  BY DEF ReadDone, Verdict, control, reader, flags, timers, server, socket, block, request, modem, peer, mqttVars
<1>2. at = "TCPRead" /\ number
  BY <1>1, Waits DEF CInv, Numbered, Pending
<1>3. Here' = Here /\ Nest(at, stack)'
  BY <1>1, StaysPut
<1>4. rcv \in Seq(Nat) /\ len \in Nat /\ Len(rcv) \in Nat /\ k \in 0 .. Len(rcv)
  BY DEF CInv, Types, Least
<1>5. r \in Seq(Nat) /\ Len(r) = Len(rcv) - k
  BY <1>4, SuffixIs
<1>6. b \in [0 .. TCP_MAX_BUF_SIZE - 1 -> Nat]
  <2>1. buff \in [0 .. TCP_MAX_BUF_SIZE - 1 -> Nat]
    BY DEF CInv, Types
  <2> QED
    BY <1>4, <2>1, BlockSize
<1> HIDE DEF k, b, r
<1>7. Types'
  <2>1. rxLen' \in Nat /\ notif' \in BOOLEAN /\ verdict' \in {"pending", "success", "failure"}
    BY <1>1, <1>4 DEF CInv, Types
  <2> QED
    BY <1>1, <1>5, <1>6, <2>1 DEF CInv, Types, flags, timers
<1>8. Requests' /\ Numbered' /\ Blocks'
  BY <1>1, <1>2, <1>3 DEF CInv, Requests, CallOf, Numbered, Blocks
<1>9. Sockets' /\ Reader'
  BY <1>1, <1>2, <1>3, <1>5 DEF CInv, Sockets, Reader
<1> QED
  BY <1>3, <1>7, <1>8, <1>9 DEF CInv

LEMMA FlushDoneKeeps ==
  ASSUME CInv, FlushDone, UNCHANGED mqttVars PROVE CInv'
<1>1. /\ Pending("TCPRxFlush") /\ verdict' = "success" /\ UNCHANGED <<call, len>>
      /\ rcv' = <<>> /\ rxLen' = 0 /\ notif' = ~link /\ session
      /\ UNCHANGED <<at, stack, result, number, buff, size, idx, tick, hwFault, registered, sessions,
                     session, link, wire, faults, packet, rd, garbled, granted>>
      /\ UNCHANGED <<flags, timers>>
  BY DEF FlushDone, Verdict, control, reader, flags, timers, server, socket, block, request, modem, peer, mqttVars
<1>2. at = "TCPRxFlush" /\ number
  BY <1>1, Waits DEF CInv, Numbered, Pending
<1>3. Here' = Here /\ Nest(at, stack)'
  BY <1>1, StaysPut
<1>4. <<>> \in Seq(Nat) /\ Len(<<>>) = 0
  OBVIOUS
<1>5. Types'
  <2>1. rxLen' \in Nat /\ notif' \in BOOLEAN /\ verdict' \in {"pending", "success", "failure"}
    BY <1>1 DEF CInv, Types
  <2>2. rcv' \in Seq(Nat)
    BY <1>1, <1>4
  <2> QED
    BY <1>1, <2>1, <2>2 DEF CInv, Types, flags, timers
<1>6. Requests' /\ Numbered' /\ Blocks'
  BY <1>1, <1>2, <1>3 DEF CInv, Requests, CallOf, Numbered, Blocks
<1>7. Sockets' /\ Reader'
  BY <1>1, <1>2, <1>3, <1>4 DEF CInv, Sockets, Reader
<1> QED
  BY <1>3, <1>5, <1>6, <1>7 DEF CInv

LEMMA CloseDoneKeeps ==
  ASSUME CInv, CloseDone, UNCHANGED mqttVars PROVE CInv'
<1>1. /\ Pending("TCPClientClose") /\ verdict' = "success" /\ UNCHANGED <<call, len>>
      /\ session' = FALSE /\ link' = FALSE /\ rcv' = <<>> /\ wire' = <<>> /\ number' = FALSE
      /\ sessions' = sessions - 1 /\ session
      /\ UNCHANGED <<at, stack, result, rxLen, notif, buff, size, idx, tick, hwFault, registered,
                     faults, packet, rd, garbled, granted>>
      /\ UNCHANGED <<flags, timers>>
  BY DEF CloseDone, NoSocket, Verdict, control, reader, flags, timers, server, socket, block, request, modem, peer, mqttVars
<1>2. at = "closing" /\ Here \in Askers \cup Pollers \cup Writers \cup {"top"} \cup Stops
  BY <1>1, Waits DEF Pending
<1>3. Here' = Here /\ Nest(at, stack)'
  BY <1>1, StaysPut
<1>4. <<>> \in Seq(Nat)
  OBVIOUS
<1>5. Types'
  <2>1. /\ verdict' \in {"pending", "success", "failure"} /\ number' \in BOOLEAN
        /\ session' \in BOOLEAN /\ link' \in BOOLEAN
    BY <1>1
  <2>2. rcv' \in Seq(Nat) /\ wire' \in Seq(Nat)
    BY <1>1, <1>4
  <2>3. sessions' \in 0 .. MaxSessions
    BY <1>1, TcpAssumption DEF CInv, Sockets, Types
  <2> QED
    BY <1>1, <2>1, <2>2, <2>3 DEF CInv, Types, flags, timers
<1>6. Requests' /\ Numbered' /\ Blocks'
  BY <1>1, <1>2, <1>3 DEF CInv, Requests, CallOf, Numbered, Blocks, Failing, Askers, Pollers, Writers, Stops, Reading
<1>7. Sockets' /\ Reader'
  BY <1>1, <1>2, <1>3 DEF CInv, Sockets, Reader, Failing, Askers, Pollers, Writers, Stops
<1> QED
  BY <1>3, <1>5, <1>6, <1>7 DEF CInv

(* What happens to the modem, the link and the other end.                   *)
LEMMA ModemResetKeeps ==
  ASSUME CInv, ModemReset, UNCHANGED mqttVars PROVE CInv'
<1>1. /\ hwFault' = FALSE /\ registered' = FALSE /\ sessions' = 0 /\ hwFault
      /\ session' = FALSE /\ link' = FALSE /\ rcv' = <<>> /\ wire' = <<>>
      /\ UNCHANGED <<at, stack, result, number, rxLen, notif, buff, size, idx, tick, faults,
                     packet, rd, garbled, granted, call, len>>
      /\ UNCHANGED <<flags, timers>>
      /\ verdict' = (IF call # "none" THEN "success" ELSE verdict)
  BY DEF ModemReset, NoSocket, Verdict, control, reader, flags, timers, server, socket, block, request, modem, peer, mqttVars
<1>2. call = "none" => verdict = "success"
  BY DEF CInv, Requests
<1>3. Here' = Here /\ Nest(at, stack)'
  BY <1>1, StaysPut
<1>4. <<>> \in Seq(Nat)
  OBVIOUS
<1>5. verdict' = "success"
  BY <1>1, <1>2
<1>6. Types'
  <2>1. /\ hwFault' \in BOOLEAN /\ registered' \in BOOLEAN
        /\ session' \in BOOLEAN /\ link' \in BOOLEAN
    BY <1>1
  <2>2. rcv' \in Seq(Nat) /\ wire' \in Seq(Nat)
    BY <1>1, <1>4
  <2>3. sessions' \in 0 .. MaxSessions /\ verdict' \in {"pending", "success", "failure"}
    BY <1>1, <1>5, TcpAssumption
  <2> QED
    BY <1>1, <2>1, <2>2, <2>3 DEF CInv, Types, flags, timers
<1>7. Requests' /\ Numbered'
  BY <1>1, <1>3, <1>5 DEF CInv, Requests, CallOf, Numbered
<1>8. Blocks' /\ Sockets' /\ Reader'
  BY <1>1, <1>3, <1>5 DEF CInv, Blocks, Sockets, Reader
<1> QED
  BY <1>3, <1>6, <1>7, <1>8 DEF CInv

LEMMA BreakKeeps ==
  ASSUME Ordinary, CInv, Break, UNCHANGED mqttVars PROVE CInv'
<1>1. /\ hwFault' = TRUE /\ ~hwFault /\ call # "TCPRead"
      /\ faults < MaxFaults /\ faults' = faults + 1
      /\ UNCHANGED <<at, stack, result, number, rxLen, notif, buff, size, idx, tick,
                     packet, rd, garbled, granted, call, len, registered, sessions,
                     session, link, rcv, wire>>
      /\ UNCHANGED <<flags, timers>>
      /\ verdict' = (IF call # "none" /\ verdict = "pending" THEN "failure" ELSE verdict)
  BY DEF Break, Fault, Verdict, Ordinary, control, reader, flags, timers, server, socket, block, request, modem, peer, mqttVars
<1>2. call = "none" => verdict = "success"
  BY DEF CInv, Requests
<1>3. Here' = Here /\ Nest(at, stack)'
  BY <1>1, StaysPut
<1>4. at # "TCPRead"
  BY <1>1 DEF CInv, Requests, CallOf
<1>5. Types'
  <2>1. hwFault' \in BOOLEAN
    BY <1>1
  <2>2. faults' \in 0 .. MaxFaults /\ verdict' \in {"pending", "success", "failure"}
    BY <1>1, TcpAssumption DEF CInv, Types
  <2> QED
    BY <1>1, <2>1, <2>2 DEF CInv, Types, flags, timers
<1>6. Requests' /\ Numbered'
  BY <1>1, <1>2, <1>3, <1>4 DEF CInv, Requests, CallOf, Numbered
<1>7. Blocks' /\ Sockets' /\ Reader'
  BY <1>1, <1>3, <1>4 DEF CInv, Blocks, Sockets, Reader
<1> QED
  BY <1>3, <1>5, <1>6, <1>7 DEF CInv

LEMMA ArriveKeeps ==
  ASSUME CInv, Arrive, UNCHANGED mqttVars PROVE CInv'
<1> DEFINE n == Least(Segment, Len(wire))
           a == SubSeq(wire, 1, n)
           w == SubSeq(wire, n + 1, Len(wire))
           r == rcv \o a
<1>1. /\ session /\ ~hwFault /\ wire # <<>> /\ rcv' = r /\ rxLen' = Len(rcv) + n /\ wire' = w
      /\ UNCHANGED <<at, stack, result, number, notif, buff, size, idx, tick, faults,
                     packet, rd, garbled, granted, call, verdict, len, hwFault, registered, sessions,
                     session, link>>
      /\ UNCHANGED <<flags, timers>>
  BY DEF Arrive, control, reader, flags, timers, server, socket, block, request, modem, peer, mqttVars
<1>2. Here' = Here /\ Nest(at, stack)'
  BY <1>1, StaysPut
<1>3. rcv \in Seq(Nat) /\ wire \in Seq(Nat) /\ link \in BOOLEAN
  BY DEF CInv, Types
<1>4. n \in 0 .. Len(wire)
  BY <1>3, TcpAssumption DEF Least
<1>5. a \in Seq(Nat) /\ Len(a) = n /\ w \in Seq(Nat)
  BY <1>3, <1>4, SuffixIs
<1>6. r \in Seq(Nat) /\ Len(r) = Len(rcv) + n
  BY <1>3, <1>5, ConcatIs
<1>7. link
  BY <1>1 DEF CInv, Sockets
<1> HIDE DEF n, a, w, r
<1>8. Types'
  <2>1. rxLen' \in Nat
    BY <1>1, <1>3, <1>4
  <2> QED
    BY <1>1, <1>5, <1>6, <2>1 DEF CInv, Types, flags, timers
<1>9. Requests' /\ Numbered' /\ Blocks' /\ Reader'
  BY <1>1, <1>2 DEF CInv, Requests, CallOf, Numbered, Blocks, Reader
<1>10. Sockets'
  <2>1. Here = "hello" => number
    BY <1>1 DEF CInv, Sockets
  <2>2. Len(rcv) <= Len(r)
    BY <1>3, <1>4, <1>6
  <2>3. at = "TCPRead" /\ verdict = "pending" => len <= Len(r)
    BY <1>1, <1>3, <1>6, <2>2 DEF CInv, Sockets, Types
  <2> QED
    BY <1>1, <1>2, <1>6, <1>7, <2>1, <2>3 DEF CInv, Sockets
<1> QED
  BY <1>2, <1>8, <1>9, <1>10 DEF CInv

(* A step of the server or of time.                                         *)
LEMMA SendKeeps ==
  ASSUME CInv, NEW s \in Seq(Nat), wire' = wire \o s, link,
         UNCHANGED <<at, stack, result, number, rxLen, notif, buff, size, idx, tick,
                     packet, rd, garbled, call, verdict, len, hwFault, registered, sessions,
                     session, link, rcv>>,
         faults' \in 0 .. MaxFaults, granted' \in BOOLEAN,
         UNCHANGED <<flags, timers>>
  PROVE  CInv'
<1>1. Here' = Here /\ Nest(at, stack)'
  BY StaysPut
<1>2. wire' \in Seq(Nat)
  BY ConcatType DEF CInv, Types
<1>3. Types'
  BY <1>2 DEF CInv, Types, flags, timers
<1>4. Requests' /\ Numbered' /\ Blocks' /\ Reader'
  BY <1>1 DEF CInv, Requests, CallOf, Numbered, Blocks, Reader
<1>5. session
  BY DEF CInv, Sockets
<1>6. Sockets'
  BY <1>1, <1>5 DEF CInv, Sockets
<1> QED
  BY <1>1, <1>3, <1>4, <1>6 DEF CInv

LEMMA BytesType ==
  /\ CONNACK \in Nat /\ PUBLISH \in Nat /\ SUBACK \in Nat /\ PINGREQ \in Nat /\ PINGRESP \in Nat
  /\ <<CONNACK, 2, 0, 0>> \in Seq(Nat) /\ <<CONNACK, 2, 0, 5>> \in Seq(Nat)
  /\ <<SUBACK, 3, 0, 6, 0>> \in Seq(Nat) /\ <<PINGRESP, 0>> \in Seq(Nat) /\ <<PINGREQ, 0>> \in Seq(Nat)
BY DEF CONNACK, PUBLISH, SUBACK, PINGREQ, PINGRESP

LEMMA DivIs ==
  ASSUME NEW n \in Nat, NEW m \in Nat \ {0}
  PROVE  n \div m \in Nat /\ n % m \in 0 .. m - 1 /\ n % m = n - m * (n \div m)
<1> DEFINE q == n \div m
           r == n % m
           x == m * q
<1>1. q \in Int /\ r \in 0 .. m - 1
  OBVIOUS
<1>2. r = n - x
  OBVIOUS
<1>3. x \in Int
  BY <1>1
<1>4. q >= 0
  <2> SUFFICES ASSUME q + 1 <= 0 PROVE FALSE
    BY <1>1
  <2> HIDE DEF q, r
  <2>1. x <= -m
    BY <1>1
  <2> HIDE DEF x
  <2> QED
    BY <1>1, <1>2, <1>3, <2>1
<1> HIDE DEF q, r, x
<1>5. q \in Nat /\ n = x + r
  BY <1>1, <1>2, <1>3, <1>4
<1>6. n \div m \in Nat
  BY <1>5 DEF q
<1>7. n % m \in 0 .. m - 1
  BY <1>1 DEF r
<1>8. n % m = n - m * (n \div m)
  OBVIOUS
<1> QED
  BY <1>6, <1>7, <1>8

LEMMA HeaderType ==
  ASSUME NEW t \in Nat, NEW n \in Nat
  PROVE  Header(t, n) \in Seq(Nat)
<1>1. Base \in Nat \ {0}
  BY MqttAssumption
<1>2. n \div Base \in Nat /\ n % Base \in Nat /\ (n % Base) + Base \in Nat
  BY <1>1, DivIs
<1>3. <<n>> \in Seq(Nat) /\ <<(n % Base) + Base, n \div Base>> \in Seq(Nat) /\ <<t>> \in Seq(Nat)
  BY <1>2
<1> QED
  BY <1>3 DEF Header

LEMMA EncodedType ==
  ASSUME Ordinary, NEW m \in Messages PROVE Encoded(m) \in Seq(Nat)
<1>1. m.topic \in Seq(Nat) /\ m.payload \in Seq(Nat) /\ Base \in Nat \ {0}
  BY MqttAssumption
<1>2. Len(m.topic) \in Nat /\ Len(m.payload) \in Nat /\ 2 * Base \in Nat \ {0}
  BY <1>1
<1>3. Len(m.topic) \div (2 * Base) \in Nat /\ Len(m.topic) % (2 * Base) \in Nat
  <2> DEFINE n == Len(m.topic)
             b == 2 * Base
  <2> HIDE DEF n, b
  <2>1. n \in Nat /\ b \in Nat \ {0}
    BY <1>2 DEF n, b
  <2>2. n \div b \in Nat /\ n % b \in Nat
    BY <2>1, DivIs
  <2> QED
    BY <2>2 DEF n, b
<1>4. <<Len(m.topic) \div (2 * Base), Len(m.topic) % (2 * Base)>> \in Seq(Nat)
  BY <1>3
<1>5. Header(PUBLISH, 2 + Len(m.topic) + Len(m.payload)) \in Seq(Nat)
  <2> DEFINE a == Len(m.topic)
             b == Len(m.payload)
  <2>0. a \in Nat /\ b \in Nat
    BY <1>2
  <2> HIDE DEF a, b
  <2>1. 2 + a + b \in Nat
    BY <2>0
  <2> USE DEF a, b
  <2> QED
    BY <2>1, HeaderType, BytesType
<1> DEFINE h == Header(PUBLISH, 2 + Len(m.topic) + Len(m.payload))
           d == <<Len(m.topic) \div (2 * Base), Len(m.topic) % (2 * Base)>>
<1> HIDE DEF h, d
<1>6. h \o d \in Seq(Nat)
  BY <1>4, <1>5, ConcatType DEF h, d
<1>7. h \o d \o m.topic \in Seq(Nat)
  BY <1>1, <1>6, ConcatType
<1>8. h \o d \o m.topic \o m.payload \in Seq(Nat)
  BY <1>1, <1>7, ConcatType
<1> QED
  BY <1>8 DEF Encoded, h, d

LEMMA OlderType ==
  ASSUME NEW n \in Nat, NEW l \in Nat PROVE Older(n, l) \in Nat
BY DEF Older, Least

LEMMA TickKeeps ==
  ASSUME CInv, Tick PROVE CInv'
<1>1. UNCHANGED <<at, stack, result, number, rxLen, notif, buff, size, idx, wire,
                  packet, rd, garbled, call, verdict, len, hwFault, registered, sessions,
                  session, link, rcv, granted, connected, topics, pingOutstanding>>
  BY DEF Tick, control, reader, flags, timers, server, socket, block, request, modem, peer, mqttVars
<1>2. {MQTT_KEEPALIVE, ReadTimeout, ResetAfter, MaxFaults} \subseteq Nat
  BY MqttAssumption, TcpAssumption
<1>3. /\ sinceIn \in Nat /\ sinceOut \in Nat /\ sinceT \in Nat /\ waited \in Nat /\ tick \in Nat
      /\ faults \in 0 .. MaxFaults
  BY DEF CInv, Types
<1>4. sinceIn' \in Nat /\ sinceOut' \in Nat
  BY <1>2, <1>3, OlderType DEF Tick
<1>5. sinceT' \in Nat /\ waited' \in Nat
  BY <1>2, <1>3, OlderType DEF Tick
<1>6. tick' \in Nat
  BY <1>2, <1>3, OlderType DEF Tick
<1>7. faults' \in 0 .. MaxFaults
  BY <1>2, <1>3 DEF Tick, Fault
<1>8. Here' = Here /\ Nest(at, stack)'
  BY <1>1, StaysPut
<1>9. Types'
  BY <1>1, <1>4, <1>5, <1>6, <1>7 DEF CInv, Types
<1> QED
  BY <1>1, <1>8, <1>9 DEF CInv, Requests, Numbered, Blocks, Sockets, Reader

LEMMA ServerKeeps ==
  ASSUME Ordinary, CInv, Answers \/ Publishes \/ Pings PROVE CInv'
<1>0. faults \in 0 .. MaxFaults /\ MaxFaults \in Nat /\ granted \in BOOLEAN
  BY TcpAssumption DEF CInv, Types
<1>1. ASSUME NEW t, NEW m, NEW s \in Seq(Nat), Sends(t, m, s), MaySend,
             faults' \in 0 .. MaxFaults, granted' \in BOOLEAN
      PROVE  CInv'
  BY <1>1, SendKeeps DEF Sends, MaySend, control, reader, flags, timers, server, socket, block, request, modem, peer, mqttVars
<1>2. CASE Answers
  <2>1. faults' \in 0 .. MaxFaults
    BY <1>0, <1>2 DEF Answers, Fault
  <2>2. granted' = granted \/ granted' = TRUE
    BY <1>2 DEF Answers
  <2>3. granted' \in BOOLEAN
    BY <1>0, <2>2
  <2>4. \E t, m : \E s \in Seq(Nat) : Sends(t, m, s)
    BY <1>2, BytesType DEF Answers
  <2> QED
    BY <1>1, <1>2, <2>1, <2>3, <2>4 DEF Answers
<1>3. CASE Publishes
  <2>1. PICK m \in Messages : Sends(PUBLISH, m, Encoded(m))
    BY <1>3 DEF Publishes
  <2>2. Encoded(m) \in Seq(Nat)
    BY EncodedType
  <2> QED
    BY <1>0, <1>1, <1>3, <2>1, <2>2 DEF Publishes
<1>4. CASE Pings
  BY <1>0, <1>1, <1>4, BytesType DEF Pings
<1> QED
  BY <1>2, <1>3, <1>4

LEMMA NetworkKeeps ==
  ASSUME CInv, Register \/ PeerNotice \/ LinkDown, UNCHANGED mqttVars PROVE CInv'
<1>0. faults \in 0 .. MaxFaults /\ MaxFaults \in Nat
  BY TcpAssumption DEF CInv, Types
<1>1. UNCHANGED <<at, stack, result, number, rxLen, buff, size, idx, tick, packet, rd, garbled, call,
                  verdict, len, hwFault, sessions, session, rcv, granted, connected, topics,
                  pingOutstanding, sinceIn, sinceOut, sinceT, waited>>
  BY DEF Register, PeerNotice, LinkDown, control, reader, flags, timers, server, socket, block, request, modem, peer, mqttVars
<1>2. Here' = Here /\ Nest(at, stack)'
  BY <1>1, StaysPut
<1>3. Requests' /\ Numbered' /\ Blocks' /\ Reader'
  BY <1>1, <1>2 DEF CInv, Requests, Numbered, Blocks, Reader
<1>4. CASE Register \/ PeerNotice
  <2>1. UNCHANGED <<link, wire, faults>>
    BY <1>4 DEF Register, PeerNotice, peer
  <2>2. registered' \in BOOLEAN /\ notif' \in BOOLEAN
    <3>1. registered' = TRUE \/ registered' = registered
      BY <1>4 DEF Register, PeerNotice, modem
    <3>2. notif' = TRUE \/ notif' = notif
      BY <1>4 DEF Register, PeerNotice, socket
    <3> QED
      BY <3>1, <3>2 DEF CInv, Types
  <2> QED
    BY <1>1, <1>2, <1>3, <2>1, <2>2 DEF CInv, Types, Sockets
<1>5. CASE LinkDown
  <2>1. link /\ link' = FALSE /\ wire' = <<>> /\ faults' = faults + 1 /\ faults < MaxFaults
        /\ UNCHANGED <<notif, registered>>
    BY <1>5 DEF LinkDown, Fault, socket, modem
  <2>2. link' \in BOOLEAN /\ wire' \in Seq(Nat) /\ faults' \in 0 .. MaxFaults
    <3>1. <<>> \in Seq(Nat)
      OBVIOUS
    <3>2. faults' \in 0 .. MaxFaults
      BY <1>0, <2>1
    <3>3. link' \in BOOLEAN /\ wire' \in Seq(Nat)
      BY <2>1, <3>1
    <3> QED
      BY <3>2, <3>3
  <2>3. Types'
    BY <1>1, <2>1, <2>2 DEF CInv, Types
  <2>4. Sockets'
    BY <1>1, <1>2, <2>1 DEF CInv, Sockets
  <2> QED
    BY <1>2, <1>3, <2>3, <2>4 DEF CInv
<1> QED
  BY <1>4, <1>5

----------------------------------------------------------------------------
LEMMA InitControl == Init => CInv
<1> SUFFICES ASSUME Init PROVE CInv
  OBVIOUS
<1>1. at = "down" /\ stack = <<>>
  BY DEF Init, TcpInit
<1>2. Nest(at, stack) /\ Here = "down"
  <2>1. <<>> \in Seq(Addresses) /\ "down" \in Mains
    BY DEF Mains
  <2> QED
    BY <1>1, <2>1, Disjoint, PlainNest DEF Home, Here
<1>3. Types
  <2>1. /\ number \in BOOLEAN /\ notif \in BOOLEAN /\ hwFault \in BOOLEAN
        /\ session \in BOOLEAN /\ link \in BOOLEAN /\ registered \in BOOLEAN
    BY DEF Init, TcpInit
  <2>2. sessions \in 0 .. MaxSessions /\ faults \in 0 .. MaxFaults
    BY TcpAssumption DEF Init, TcpInit
  <2>3. /\ rxLen \in Nat /\ size \in Nat /\ idx \in Nat /\ tick \in Nat /\ len \in Nat
        /\ size + idx <= TCP_MAX_BUF_SIZE /\ result \in Int
        /\ verdict \in {"pending", "success", "failure"}
    BY BlockSize DEF Init, TcpInit
  <2>4. connected \in BOOLEAN /\ pingOutstanding \in BOOLEAN /\ garbled \in BOOLEAN /\ granted \in BOOLEAN
    BY DEF Init
  <2>5. /\ topics \in 0 .. Topics /\ sinceIn \in Nat /\ sinceOut \in Nat /\ sinceT \in Nat
        /\ waited \in Nat
    BY MqttAssumption DEF Init
  <2>6. buff \in [0 .. TCP_MAX_BUF_SIZE - 1 -> Nat]
    BY DEF Init, TcpInit
  <2>7. rcv \in Seq(Nat) /\ wire \in Seq(Nat) /\ packet \in Seq(Nat)
    <3>1. <<>> \in Seq(Nat)
      OBVIOUS
    <3> QED
      BY <3>1 DEF Init, TcpInit
  <2>8. rd \in Reads
    BY DEF Init, Reads, NoPacket
  <2> QED
    BY <2>1, <2>2, <2>3, <2>4, <2>5, <2>6, <2>7, <2>8 DEF Types
<1>4. ~number /\ ~session /\ ~link /\ rcv = <<>> /\ wire = <<>> /\ size = 0 /\ packet = <<>> /\ rd = NoPacket
      /\ call = "none" /\ verdict = "success" /\ rxLen = 0
  BY DEF Init, TcpInit
<1>5. Requests /\ Numbered /\ Blocks
  BY <1>1, <1>2, <1>4 DEF Requests, CallOf, Numbered, Blocks, Askers, Pollers, Writers, Failing, Reading
<1>6. Sockets /\ Reader
  BY <1>1, <1>2, <1>4 DEF Sockets, Reader, Reading
<1> QED
  BY <1>2, <1>3, <1>5, <1>6 DEF CInv

LEMMA FlyportTaskKeeps ==
  ASSUME Ordinary, CInv, FlyportTask PROVE CInv'
<1>1. CASE PlainStep
  BY <1>1, PlainKeeps
<1>2. CASE Tcp /\ UNCHANGED mqttVars
  BY <1>2, TcpKeeps
<1>3. CASE MQTTClient_readPacket \/ MQTTClient_readByte \/ Available
  BY <1>3, MQTTClient_readPacketKeeps, MQTTClient_readByteKeeps, AvailableKeeps
<1>4. CASE MQTTClient_connect \/ Wrote \/ MQTTClient_publish
  BY <1>4, MQTTClient_connectKeeps, WriteStepsKeep
<1> QED
  BY <1>1, <1>2, <1>3, <1>4 DEF FlyportTask, PlainStep

LEMMA GSMTaskKeeps ==
  ASSUME Ordinary, CInv, GSMTask PROVE CInv'
<1>1. CASE \/ WriteReaches
           \/ (ConfigDone \/ OpenLeaks \/ WriteDone(FALSE) \/ CallFails) /\ UNCHANGED mqttVars
  BY <1>1, VerdictsKeep
<1>2. CASE NewConnection
  BY <1>2, NewConnectionKeeps
<1>3. CASE (ReadDone \/ FlushDone \/ CloseDone) /\ UNCHANGED mqttVars
  BY <1>3, ReadDoneKeeps, FlushDoneKeeps, CloseDoneKeeps
<1>4. CASE ModemReset /\ UNCHANGED mqttVars
  BY <1>4, ModemResetKeeps
<1> QED
  BY <1>1, <1>2, <1>3, <1>4 DEF GSMTask

LEMMA OthersKeep ==
  ASSUME Ordinary, CInv, Arrives \/ Registers \/ Ticks \/ Serves \/ Surroundings PROVE CInv'
<1>1. CASE Arrives
  BY <1>1, ArriveKeeps DEF Arrives
<1>2. CASE Registers
  BY <1>2, NetworkKeeps DEF Registers
<1>3. CASE Ticks
  BY <1>3, TickKeeps DEF Ticks
<1>4. CASE Serves
  BY <1>4, ServerKeeps DEF Serves
<1>5. CASE Surroundings
  BY <1>5, ServerKeeps, BreakKeeps, NetworkKeeps DEF Surroundings
<1> QED
  BY <1>1, <1>2, <1>3, <1>4, <1>5

LEMMA StutterKeeps ==
  ASSUME CInv, UNCHANGED vars PROVE CInv'
<1>1. UNCHANGED <<at, stack, result, number, rxLen, notif, buff, size, idx, wire,
                  packet, rd, garbled, call, verdict, len, hwFault, registered, sessions,
                  session, link, rcv, granted, connected, topics, pingOutstanding, tick, faults,
                  sinceIn, sinceOut, sinceT, waited>>
  BY DEF control, reader, flags, timers, server, socket, block, request, modem, peer, mqttVars, tcpVars, vars
<1>2. Here' = Here /\ Nest(at, stack)'
  BY <1>1, StaysPut
<1>3. Types' /\ Requests' /\ Numbered'
  BY <1>1, <1>2 DEF CInv, Types, Requests, Numbered
<1>4. Blocks' /\ Sockets' /\ Reader'
  BY <1>1, <1>2 DEF CInv, Blocks, Sockets, Reader
<1> QED
  BY <1>2, <1>3, <1>4 DEF CInv

(* Control, the request to the modem and the socket fit each other: where   *)
(* FlyportTask is tells what it waits for, whether it has a socket and how  *)
(* much of the block is left (TCPClient.c:41-225, MQTTClient.c:41-235).     *)
THEOREM ControlHolds == Ordinary => (Spec => []CInv)
<1> SUFFICES ASSUME Ordinary PROVE Spec => []CInv
  OBVIOUS
<1>1. Init => CInv
  BY InitControl
<1>2. CInv /\ [Next]_vars => CInv'
  BY FlyportTaskKeeps, GSMTaskKeeps, OthersKeep, StutterKeeps DEF Next
<1> QED
  BY <1>1, <1>2, PTL DEF Spec

(***************************************************************************)
(* What the server sends: well-formed packets, one for each entry of log.  *)
(***************************************************************************)
HdrLen(f)  == IF f[2] < Base THEN 2 ELSE 3
BodyLen(f) == IF f[2] < Base THEN f[2] ELSE Digit(f[2]) + f[3] * Base

Framing(f) ==
  /\ f \in Seq(Nat) /\ Len(f) >= 2 /\ f[2] < 2 * Base
  /\ f[2] >= Base => Len(f) >= 3 /\ f[3] \in 1 .. Base - 1
  /\ Len(f) = HdrLen(f) + BodyLen(f)
  /\ Len(f) <= MQTT_MAX_PACKET_SIZE

FrameOf(e, f) ==
  /\ Framing(f) /\ f[1] = e.type
  /\ e.type = PUBLISH => f = Encoded(e.msg)

Stream(l, s) ==
  \E F \in [1 .. Len(l) -> Seq(Nat)], T \in [1 .. Len(l) + 1 -> Seq(Nat)] :
    /\ T[1] = s /\ T[Len(l) + 1] = <<>>
    /\ \A k \in 1 .. Len(l) : FrameOf(l[k], F[k]) /\ T[k] = F[k] \o T[k + 1]

LEMMA StreamType ==
  ASSUME NEW S, NEW l \in Seq(S), NEW s, Stream(l, s) PROVE s \in Seq(Nat)
<1>1. 1 \in 1 .. Len(l) + 1
  OBVIOUS
<1> QED
  BY <1>1 DEF Stream

LEMMA NothingSent ==
  Stream(<<>>, <<>>) /\ \A s : Stream(<<>>, s) => s = <<>>
<1>1. Stream(<<>>, <<>>)
  <2> DEFINE F == [k \in 1 .. 0 |-> <<>>]
             T == [k \in 1 .. 1 |-> <<>>]
             e == <<>>
  <2>1. e \in Seq(Nat) /\ Len(e) = 0
    OBVIOUS
  <2>2. F \in [1 .. Len(e) -> Seq(Nat)] /\ T \in [1 .. Len(e) + 1 -> Seq(Nat)] /\ T[1] = e
    BY <2>1
  <2>3. Stream(e, e)
    <3> HIDE DEF F, T, e
    <3>1. T[Len(e) + 1] = T[1] /\ 1 .. Len(e) = {}
      BY <2>1
    <3> QED
      BY <2>1, <2>2, <3>1, Zenon DEF Stream, e
  <2> QED
    BY <2>3
<1>2. ASSUME NEW s, Stream(<<>>, s) PROVE s = <<>>
  <2> DEFINE e == <<>>
  <2>1. Len(e) + 1 = 1
    OBVIOUS
  <2>2. Stream(e, s)
    BY <1>2
  <2> HIDE DEF e
  <2>3. s = <<>>
    BY <2>1, <2>2 DEF Stream
  <2> QED
    BY <2>3
<1> QED
  BY <1>1, <1>2

(* The first packet, and the stream behind it.                              *)
LEMMA FirstSent ==
  ASSUME NEW S, NEW l \in Seq(S), l # <<>>, NEW s, Stream(l, s)
  PROVE  \E f, t \in Seq(Nat) :
            FrameOf(l[1], f) /\ s = f \o t /\ Stream(Tail(l), t)
<1> DEFINE n == Len(l)
           r == Tail(l)
<1>1. n \in Nat \ {0} /\ r \in Seq(S) /\ Len(r) = n - 1 /\ \A k \in 1 .. n - 1 : r[k] = l[k + 1]
  BY TailType
<1>2. PICK F \in [1 .. n -> Seq(Nat)], T \in [1 .. n + 1 -> Seq(Nat)] :
          /\ T[1] = s /\ T[n + 1] = <<>>
          /\ \A k \in 1 .. n : FrameOf(l[k], F[k]) /\ T[k] = F[k] \o T[k + 1]
  BY DEF Stream
<1> DEFINE G == [k \in 1 .. n - 1 |-> F[k + 1]]
           U == [k \in 1 .. (n - 1) + 1 |-> T[k + 1]]
<1> HIDE DEF n, r
<1>3. G \in [1 .. Len(r) -> Seq(Nat)] /\ U \in [1 .. Len(r) + 1 -> Seq(Nat)]
  BY <1>1
<1>4. U[1] = T[2] /\ U[Len(r) + 1] = <<>>
  BY <1>1, <1>2
<1>5. ASSUME NEW k \in 1 .. Len(r) PROVE FrameOf(r[k], G[k]) /\ U[k] = G[k] \o U[k + 1]
  <2>1. k \in 1 .. n - 1 /\ k + 1 \in 1 .. n /\ (k + 1) + 1 = k + 2 /\ k \in 1 .. (n - 1) + 1 /\ k + 1 \in 1 .. (n - 1) + 1
    BY <1>1
  <2>2. r[k] = l[k + 1] /\ G[k] = F[k + 1] /\ U[k] = T[k + 1] /\ U[k + 1] = T[(k + 1) + 1]
    BY <1>1, <2>1
  <2> QED
    BY <1>2, <2>1, <2>2
<1> HIDE DEF G, U
<1>6. Stream(r, T[2])
  BY <1>3, <1>4, <1>5 DEF Stream
<1>7. 1 \in 1 .. n /\ 1 + 1 = 2 /\ 2 \in 1 .. n + 1
  BY <1>1
<1>8. FrameOf(l[1], F[1]) /\ s = F[1] \o T[2] /\ F[1] \in Seq(Nat) /\ T[2] \in Seq(Nat)
  BY <1>2, <1>7
<1> QED
  BY <1>6, <1>8 DEF r

LEMMA SentMore ==
  ASSUME NEW S, NEW l \in Seq(S), NEW s, Stream(l, s), NEW e \in S, NEW f, FrameOf(e, f)
  PROVE  Stream(Append(l, e), s \o f)
<1> DEFINE n == Len(l)
           m == Append(l, e)
<1>1. /\ n \in Nat /\ m \in Seq(S) /\ Len(m) = n + 1 /\ m[n + 1] = e
      /\ \A k \in 1 .. n : m[k] = l[k]
  OBVIOUS
<1>2. PICK F \in [1 .. n -> Seq(Nat)], T \in [1 .. n + 1 -> Seq(Nat)] :
          /\ T[1] = s /\ T[n + 1] = <<>>
          /\ \A k \in 1 .. n : FrameOf(l[k], F[k]) /\ T[k] = F[k] \o T[k + 1]
  BY DEF Stream
<1>3. f \in Seq(Nat)
  BY DEF FrameOf, Framing
<1> DEFINE G == [k \in 1 .. n + 1 |-> IF k = n + 1 THEN f ELSE F[k]]
           U == [k \in 1 .. (n + 1) + 1 |-> IF k = n + 2 THEN <<>> ELSE T[k] \o f]
<1> HIDE DEF n, m
<1>4. G \in [1 .. Len(m) -> Seq(Nat)]
  BY <1>1, <1>3
<1>5. U \in [1 .. Len(m) + 1 -> Seq(Nat)]
  <2>1. \A k \in 1 .. n + 1 : T[k] \o f \in Seq(Nat)
    BY <1>1, <1>3, ConcatType
  <2>2. <<>> \in Seq(Nat)
    OBVIOUS
  <2>3. \A k \in 1 .. (n + 1) + 1 : k = n + 2 \/ k \in 1 .. n + 1
    BY <1>1
  <2> QED
    BY <1>1, <2>1, <2>2, <2>3
<1>6. /\ \A k \in 1 .. n + 1 : U[k] = T[k] \o f
      /\ U[n + 2] = <<>> /\ U[Len(m) + 1] = <<>> /\ U[1] = s \o f
  <2>1. \A k \in 1 .. n + 1 : k \in 1 .. (n + 1) + 1 /\ k # n + 2
    BY <1>1
  <2>2. n + 2 \in 1 .. (n + 1) + 1 /\ Len(m) + 1 = n + 2 /\ 1 \in 1 .. n + 1
    BY <1>1
  <2> QED
    BY <1>2, <2>1, <2>2
<1>7. ASSUME NEW k \in 1 .. Len(m) PROVE FrameOf(m[k], G[k]) /\ U[k] = G[k] \o U[k + 1]
  <2>0. k \in 1 .. n + 1
    BY <1>1
  <2>1. CASE k = n + 1
    <3>1. G[k] = f /\ m[k] = e /\ k + 1 = n + 2 /\ k \in 1 .. n + 1
      BY <1>1, <2>1
    <3>2. U[k] = <<>> \o f /\ U[k + 1] = <<>>
      <4>1. T[k] = <<>>
        BY <1>2, <2>1
      <4>2. U[k] = T[k] \o f
        BY <1>6, <3>1
      <4>3. U[k + 1] = <<>>
        BY <1>6, <3>1
      <4> QED
        BY <4>1, <4>2, <4>3
    <3>3. <<>> \o f = f /\ f \o <<>> = f
      BY <1>3, ConcatEmpty
    <3> QED
      BY <3>1, <3>2, <3>3
  <2>2. CASE k \in 1 .. n
    <3>1. m[k] = l[k] /\ G[k] = F[k] /\ k \in 1 .. n + 1 /\ k + 1 \in 1 .. n + 1
      BY <1>1, <2>2
    <3>2. U[k] = T[k] \o f /\ U[k + 1] = T[k + 1] \o f
      BY <1>6, <3>1
    <3>3. T[k] = F[k] \o T[k + 1] /\ F[k] \in Seq(Nat) /\ T[k + 1] \in Seq(Nat) /\ FrameOf(l[k], F[k])
      BY <1>2, <2>2, <3>1
    <3>4. (F[k] \o T[k + 1]) \o f = F[k] \o (T[k + 1] \o f)
      <4> DEFINE a == F[k]
                 b == T[k + 1]
      <4>1. AreLists(a, b, f)
        BY <1>3, <3>3 DEF AreLists
      <4> HIDE DEF a, b
      <4>2. (a \o b) \o f = a \o (b \o f)
        BY <4>1, ListsConcat
      <4> QED
        BY <4>2 DEF a, b
    <3> QED
      BY <3>1, <3>2, <3>3, <3>4
  <2>3. k = n + 1 \/ k \in 1 .. n
    BY <1>1, <2>0
  <2> QED
    BY <2>1, <2>2, <2>3
<1> HIDE DEF G, U
<1>8. Stream(m, s \o f)
  BY <1>4, <1>5, <1>6, <1>7 DEF Stream
<1> QED
  BY <1>8 DEF m
(* A packet is only as long as its length bytes say.                        *)
Agree(a, b) ==
  \A i \in Nat : i \in 1 .. Len(a) /\ i \in 1 .. Len(b) => a[i] = b[i]

LEMMA AgreeOn ==
  ASSUME NEW a \in Seq(Nat), NEW x \in Seq(Nat), NEW b \in Seq(Nat), NEW y \in Seq(Nat),
         a \o x = b \o y
  PROVE  Agree(a, b)
<1> DEFINE l == a \o x
           r == b \o y
<1>1. /\ \A i \in 1 .. Len(a) : l[i] = a[i]
      /\ \A i \in 1 .. Len(b) : r[i] = b[i]
  BY ConcatIs
<1>2. l = r
  OBVIOUS
<1> HIDE DEF l, r
<1> QED
  BY <1>1, <1>2 DEF Agree

LEMMA WholeIs ==
  ASSUME NEW p, NEW f, Framing(p), Framing(f), Agree(p, f)
  PROVE  p = f
<1>0. Base \in Nat \ {0}
  BY MqttAssumption
<1>1. p \in Seq(Nat) /\ f \in Seq(Nat) /\ Len(p) \in Nat /\ Len(f) \in Nat /\ Len(p) >= 2 /\ Len(f) >= 2
  BY DEF Framing
<1>2. p[2] = f[2] /\ p[2] \in Nat
  BY <1>1 DEF Agree
<1>3. f[2] >= Base => p[3] = f[3]
  BY <1>0, <1>1, <1>2 DEF Framing, Agree
<1>4. Len(p) = Len(f)
  BY <1>0, <1>1, <1>2, <1>3 DEF Framing, HdrLen, BodyLen
<1>5. \A i \in 1 .. Len(p) : p[i] = f[i]
  BY <1>1, <1>4 DEF Agree
<1> QED
  BY <1>1, <1>4, <1>5, SeqEqual

Partial(p, r) ==
  /\ p \in Seq(Nat) /\ ~r.err
  /\ \/ p = <<>> /\ r = NoPacket
     \/ /\ Len(p) = 1
        /\ r.part = "digit" /\ r.length = 0 /\ r.multiplier = 1 /\ r.i = 0
     \/ /\ Len(p) = 2 /\ p[2] \in Base .. 2 * Base - 1
        /\ r.part = "digit" /\ r.length = Digit(p[2]) /\ r.multiplier = Base
        /\ r.i = 0
     \/ /\ Len(p) >= 2 /\ p[2] < 2 * Base
        /\ p[2] >= Base => Len(p) >= 3 /\ p[3] \in 1 .. Base - 1
        /\ r.part = "body" /\ r.length = BodyLen(p) /\ r.i = Len(p) - HdrLen(p)
        /\ r.i < r.length /\ r.i >= 0 /\ r.multiplier < 2 * Base

LEMMA PartIs ==
  ASSUME NEW p, NEW r \in [part : {"header", "digit", "body"}, length : Nat, multiplier : Nat,
                           i : Nat, err : BOOLEAN],
         NEW f, Partial(p, r), Framing(f), Agree(p, f)
  PROVE  Len(p) < Len(f)
<1>0. Base \in Nat \ {0}
  BY MqttAssumption
<1>1. p \in Seq(Nat) /\ f \in Seq(Nat) /\ Len(p) \in Nat /\ Len(f) \in Nat /\ Len(f) >= 2
  BY DEF Framing, Partial
<1>2. CASE p = <<>>
  BY <1>1, <1>2
<1>3. CASE Len(p) = 1
  BY <1>1, <1>3
<1>4. CASE Len(p) = 2 /\ p[2] \in Base .. 2 * Base - 1
  <2>1. f[2] = p[2]
    BY <1>1, <1>4 DEF Agree
  <2> QED
    BY <1>0, <1>1, <1>4, <2>1 DEF Framing
<1>5. CASE /\ Len(p) >= 2 /\ p[2] < 2 * Base
           /\ p[2] >= Base => Len(p) >= 3 /\ p[3] \in 1 .. Base - 1
           /\ r.length = BodyLen(p) /\ r.i = Len(p) - HdrLen(p) /\ r.i < r.length
  <2>1. f[2] = p[2] /\ p[2] \in Nat
    BY <1>1, <1>5 DEF Agree
  <2>2. p[2] >= Base => f[3] = p[3]
    BY <1>0, <1>1, <1>5, <2>1 DEF Framing, Agree
  <2>3. HdrLen(f) = HdrLen(p) /\ BodyLen(f) = BodyLen(p) /\ HdrLen(p) \in Nat
    BY <2>1, <2>2, <1>0 DEF HdrLen, BodyLen
  <2>4. BodyLen(p) \in Nat /\ r.i \in Nat
    BY <1>5
  <2>5. Len(f) = HdrLen(f) + BodyLen(f)
    BY DEF Framing
  <2> QED
    BY <1>1, <1>5, <2>3, <2>4, <2>5
<1> QED
  BY <1>2, <1>3, <1>4, <1>5 DEF Partial

LEMMA FourParts ==
  ASSUME NEW h \in Seq(Nat), NEW d \in Seq(Nat), NEW t \in Seq(Nat), NEW q \in Seq(Nat),
         NEW e, e = h \o d \o t \o q
  PROVE  /\ e \in Seq(Nat) /\ Len(e) = Len(h) + Len(d) + Len(t) + Len(q)
         /\ \A i \in 1 .. Len(h) : e[i] = h[i]
         /\ \A i \in 1 .. Len(d) : e[Len(h) + i] = d[i]
         /\ \A i \in 1 .. Len(t) : e[Len(h) + Len(d) + i] = t[i]
         /\ \A i \in 1 .. Len(q) : e[Len(h) + Len(d) + Len(t) + i] = q[i]
<1> DEFINE u == h \o d
           v == u \o t
           a == Len(h)
           b == Len(d)
           c == Len(t)
           z == Len(q)
<1>1. /\ u \in Seq(Nat) /\ Len(u) = a + b
      /\ \A i \in 1 .. a : u[i] = h[i]
      /\ \A i \in 1 .. a + b : i > a => u[i] = d[i - a]
  BY ConcatIs
<1> HIDE DEF u
<1>2. /\ v \in Seq(Nat) /\ Len(v) = Len(u) + c
      /\ \A i \in 1 .. Len(u) : v[i] = u[i]
      /\ \A i \in 1 .. Len(u) + c : i > Len(u) => v[i] = t[i - Len(u)]
  <2>1. u \in Seq(Nat)
    BY <1>1
  <2> QED
    BY <2>1, ConcatIs
<1> HIDE DEF v
<1>3. /\ e \in Seq(Nat) /\ Len(e) = Len(v) + z
      /\ \A i \in 1 .. Len(v) : e[i] = v[i]
      /\ \A i \in 1 .. Len(v) + z : i > Len(v) => e[i] = q[i - Len(v)]
  <2>1. v \in Seq(Nat) /\ e = v \o q
    BY <1>2 DEF u, v
  <2> QED
    BY <2>1, ConcatIs
<1>4. a \in Nat /\ b \in Nat /\ c \in Nat /\ z \in Nat
  OBVIOUS
<1> HIDE DEF a, b, c, z
<1>5. ASSUME NEW i \in 1 .. a PROVE e[i] = h[i]
  <2>1. i \in 1 .. Len(u) /\ i \in 1 .. Len(v)
    BY <1>1, <1>2, <1>4
  <2>2. e[i] = v[i] /\ v[i] = u[i] /\ u[i] = h[i]
    BY <1>1, <1>2, <1>3, <2>1
  <2> QED
    BY <2>2
<1>6. ASSUME NEW i \in 1 .. b PROVE e[a + i] = d[i]
  <2>1. a + i \in 1 .. a + b /\ a + i > a /\ (a + i) - a = i
    BY <1>4
  <2>2. a + i \in 1 .. Len(v)
    BY <1>1, <1>2, <1>4, <2>1
  <2>3. e[a + i] = v[a + i] /\ v[a + i] = u[a + i] /\ u[a + i] = d[(a + i) - a]
    BY <1>1, <1>2, <1>3, <2>1, <2>2
  <2> QED
    BY <2>1, <2>3
<1>7. ASSUME NEW i \in 1 .. c PROVE e[a + b + i] = t[i]
  <2>1. a + b + i \in 1 .. a + b + c /\ a + b + i > a + b /\ (a + b + i) - (a + b) = i
    BY <1>4
  <2>2. a + b + i \in 1 .. Len(v)
    BY <1>1, <1>2, <2>1
  <2>3. e[a + b + i] = v[a + b + i] /\ v[a + b + i] = t[(a + b + i) - (a + b)]
    BY <1>1, <1>2, <1>3, <2>1, <2>2
  <2> QED
    BY <2>1, <2>3
<1>8. ASSUME NEW i \in 1 .. z PROVE e[a + b + c + i] = q[i]
  <2>1. a + b + c + i \in 1 .. a + b + c + z /\ a + b + c + i > a + b + c /\ (a + b + c + i) - (a + b + c) = i
    BY <1>4
  <2>2. e[a + b + c + i] = q[(a + b + c + i) - (a + b + c)]
    BY <1>1, <1>2, <1>3, <2>1
  <2> QED
    BY <2>1, <2>2
<1>9. Len(e) = a + b + c + z
  BY <1>1, <1>2, <1>3
<1> QED
  BY <1>3, <1>5, <1>6, <1>7, <1>8, <1>9 DEF a, b, c, z

----------------------------------------------------------------------------
(* The packets of the server: how they are encoded and what is made of them.*)

LEMMA TwoIs ==
  ASSUME NEW a \in Nat, NEW b \in Nat
  PROVE  <<a>> \o <<b>> = <<a, b>>
<1> DEFINE x == <<a>> \o <<b>>
           y == <<a, b>>
<1>1. /\ x \in Seq(Nat) /\ y \in Seq(Nat) /\ Len(x) = 2 /\ Len(y) = 2
      /\ x[1] = a /\ x[2] = b /\ y[1] = a /\ y[2] = b
  OBVIOUS
<1> HIDE DEF x, y
<1>2. Len(x) = Len(y) /\ \A i \in 1 .. Len(x) : x[i] = y[i]
  BY <1>1
<1>3. x = y
  BY <1>1, <1>2, SeqEqual
<1> QED
  BY <1>3 DEF x, y

LEMMA ThreeIs ==
  ASSUME NEW a \in Nat, NEW b \in Nat, NEW c \in Nat
  PROVE  <<a>> \o <<b, c>> = <<a, b, c>>
<1> DEFINE x == <<a>> \o <<b, c>>
           y == <<a, b, c>>
<1>1. /\ x \in Seq(Nat) /\ y \in Seq(Nat) /\ Len(x) = 3 /\ Len(y) = 3
      /\ x[1] = a /\ x[2] = b /\ x[3] = c /\ y[1] = a /\ y[2] = b /\ y[3] = c
  OBVIOUS
<1> HIDE DEF x, y
<1>2. Len(x) = Len(y) /\ \A i \in 1 .. Len(x) : x[i] = y[i]
  BY <1>1
<1>3. x = y
  BY <1>1, <1>2, SeqEqual
<1> QED
  BY <1>3 DEF x, y

LEMMA PairIs ==
  ASSUME NEW a \in Nat, NEW b \in Nat, NEW c \in Nat
  PROVE  <<a>> \o <<b>> = <<a, b>> /\ <<a>> \o <<b, c>> = <<a, b, c>>
<1>1. <<a>> \o <<b>> = <<a, b>>
  BY TwoIs
<1>2. <<a>> \o <<b, c>> = <<a, b, c>>
  BY ThreeIs
<1> QED
  BY <1>1, <1>2

LEMMA HeaderIs ==
  ASSUME Ordinary, NEW n \in Nat, n < Base * Base
  PROVE  LET h == Header(PUBLISH, n)
         IN  /\ h \in Seq(Nat) /\ h[1] = PUBLISH
             /\ n < Base => Len(h) = 2 /\ h[2] = n
             /\ n >= Base => /\ Len(h) = 3 /\ h[2] = (n % Base) + Base /\ h[3] = n \div Base
                             /\ h[3] \in 1 .. Base - 1 /\ h[2] \in Base .. 2 * Base - 1
                             /\ Digit(h[2]) + h[3] * Base = n
<1> DEFINE q == n \div Base
           r == n % Base
           x == Base * q
<1>1. Base \in Nat \ {0} /\ Base >= 4
  BY MqttAssumption DEF Ordinary
<1>2. q \in Nat /\ r \in 0 .. Base - 1 /\ r = n - x
  BY <1>1, DivIs
<1>3. q < Base
  BY <1>1
<1>4. n >= Base => q >= 1
  BY <1>1
<1>5. (r + Base) % Base = r
  <2> HIDE DEF r
  <2> QED
    BY <1>1, <1>2
<1>6. CASE n < Base
  <2>1. Header(PUBLISH, n) = <<PUBLISH>> \o <<n>>
    BY <1>6 DEF Header
  <2>2. <<PUBLISH>> \o <<n>> = <<PUBLISH, n>>
    BY PairIs, BytesType
  <2> QED
    BY <1>1, <1>6, <2>1, <2>2, BytesType
<1>7. CASE n >= Base
  <2>1. Header(PUBLISH, n) = <<PUBLISH>> \o <<r + Base, q>>
    BY <1>1, <1>7 DEF Header
  <2> HIDE DEF q, r
  <2>3. r + Base \in Nat /\ r + Base \in Base .. 2 * Base - 1 /\ q \in 1 .. Base - 1
    BY <1>1, <1>2, <1>3, <1>4, <1>7
  <2>2. <<PUBLISH>> \o <<r + Base, q>> = <<PUBLISH, r + Base, q>>
    <3> DEFINE z == r + Base
    <3>1. PUBLISH \in Nat /\ z \in Nat /\ q \in Nat
      BY <1>2, <2>3, BytesType
    <3> HIDE DEF z
    <3>2. <<PUBLISH>> \o <<z, q>> = <<PUBLISH, z, q>>
      BY <3>1, ThreeIs
    <3> QED
      BY <3>2 DEF z
  <2>4. <<PUBLISH, r + Base, q>> \in Seq(Nat)
    BY <1>2, <2>3, BytesType
  <2>5. Digit(r + Base) + q * Base = n
    <3>1. q * Base = x
      BY <1>1, <1>2
    <3>2. Digit(r + Base) = r
      BY <1>5 DEF Digit
    <3>3. x \in Nat
      BY <1>1, <1>2
    <3> HIDE DEF x
    <3> QED
      BY <1>2, <3>1, <3>2, <3>3
  <2> DEFINE h == Header(PUBLISH, n)
  <2>6. h = <<PUBLISH, r + Base, q>>
    BY <2>1, <2>2
  <2> HIDE DEF h
  <2>7. Len(h) = 3 /\ h[1] = PUBLISH /\ h[2] = r + Base /\ h[3] = q
    BY <2>6
  <2>8. h \in Seq(Nat)
    BY <2>4, <2>6
  <2>9. Digit(h[2]) + h[3] * Base = n
    BY <2>5, <2>7
  <2>10. h[3] \in 1 .. Base - 1 /\ h[2] \in Base .. 2 * Base - 1
    BY <2>3, <2>7
  <2>11. ~(n < Base)
    BY <1>1, <1>7
  <2> QED
    BY <2>7, <2>8, <2>9, <2>10, <2>11 DEF h, q, r
<1> QED
  BY <1>1, <1>6, <1>7

(* A message as it is sent: well-formed, the topic behind its length.       *)
Place(m) == IF 2 + Len(m.topic) + Len(m.payload) < Base THEN 4 ELSE 5

LEMMA EncodedIs ==
  ASSUME Ordinary, NEW m \in Messages
  PROVE  /\ Framing(Encoded(m)) /\ Encoded(m)[1] = PUBLISH
         /\ Place(m) \in {4, 5} /\ Len(m.topic) \in 1 .. 2 * Base - 1 /\ Len(m.payload) \in Nat
         /\ Len(Encoded(m)) = Place(m) + Len(m.topic) + Len(m.payload)
         /\ Encoded(m)[Place(m) - 1] = 0 /\ Encoded(m)[Place(m)] = Len(m.topic)
         /\ \A i \in 1 .. Len(m.topic) : Encoded(m)[Place(m) + i] = m.topic[i]
         /\ \A i \in 1 .. Len(m.payload) : Encoded(m)[Place(m) + Len(m.topic) + i] = m.payload[i]
<1> DEFINE t == m.topic
           q == m.payload
           k == Len(t)
           z == Len(q)
           n == 2 + k + z
           h == Header(PUBLISH, n)
           d == <<k \div (2 * Base), k % (2 * Base)>>
           e == h \o d \o t \o q
           o == Place(m)
<1>1. Base \in Nat \ {0} /\ Base >= 4 /\ t \in Seq(Nat) /\ q \in Seq(Nat)
  BY MqttAssumption DEF Ordinary
<1>2. /\ t # <<>> /\ k < 2 * Base /\ n < Base * Base
      /\ Len(Encoded(m)) <= MQTT_MAX_PACKET_SIZE
  BY DEF Ordinary, Fits
<1>3. k \in Nat /\ k >= 1 /\ z \in Nat
  BY <1>1, <1>2
<1>4. Encoded(m) = e
  BY DEF Encoded
<1> HIDE DEF k, z
<1>5. n \in Nat /\ (n < Base \/ n >= Base)
  BY <1>1, <1>3
<1> HIDE DEF n
<1>6. /\ h \in Seq(Nat) /\ h[1] = PUBLISH
      /\ n < Base => Len(h) = 2 /\ h[2] = n
      /\ n >= Base => /\ Len(h) = 3
                      /\ h[3] \in 1 .. Base - 1 /\ h[2] \in Base .. 2 * Base - 1
                      /\ Digit(h[2]) + h[3] * Base = n
  BY <1>2, <1>5, HeaderIs
<1>7. d = <<0, k>> /\ d \in Seq(Nat) /\ Len(d) = 2 /\ d[1] = 0 /\ d[2] = k
  <2>1. k \div (2 * Base) = 0 /\ k % (2 * Base) = k
    <3> DEFINE b == 2 * Base
    <3>1. b \in Nat \ {0} /\ k < b
      BY <1>1, <1>2
    <3> HIDE DEF b
    <3>2. k \div b = 0 /\ k % b = k
      BY <1>3, <3>1
    <3> QED
      BY <3>2 DEF b
  <2> QED
    BY <1>3, <2>1
<1> HIDE DEF h, d
<1>8. o = Len(h) + 2 /\ o \in {4, 5}
  <2>1. o = IF n < Base THEN 4 ELSE 5
    BY DEF Place, n, k, z
  <2>2. (n < Base => Len(h) = 2) /\ (n >= Base => Len(h) = 3) /\ (n >= Base => ~(n < Base))
    BY <1>1, <1>5, <1>6
  <2> HIDE DEF o
  <2>3. CASE n < Base
    <3>1. o = 4 /\ Len(h) = 2
      BY <2>1, <2>2, <2>3
    <3> QED
      BY <3>1
  <2>4. CASE n >= Base
    <3>1. o = 5 /\ Len(h) = 3
      BY <2>1, <2>2, <2>4
    <3> QED
      BY <3>1
  <2> QED
    BY <1>5, <2>3, <2>4
<1> HIDE DEF t, q, o
<1>9. /\ e \in Seq(Nat) /\ Len(e) = Len(h) + Len(d) + Len(t) + Len(q)
      /\ \A i \in 1 .. Len(h) : e[i] = h[i]
      /\ \A i \in 1 .. Len(d) : e[Len(h) + i] = d[i]
      /\ \A i \in 1 .. Len(t) : e[Len(h) + Len(d) + i] = t[i]
      /\ \A i \in 1 .. Len(q) : e[Len(h) + Len(d) + Len(t) + i] = q[i]
  <2>1. t \in Seq(Nat) /\ q \in Seq(Nat) /\ h \in Seq(Nat) /\ d \in Seq(Nat)
    BY <1>1, <1>6, <1>7 DEF t, q
  <2>2. e = h \o d \o t \o q
    OBVIOUS
  <2> HIDE DEF t, q, e
  <2> QED
    BY <2>1, <2>2, FourParts
<1> HIDE DEF e
<1>10. Len(h) \in {2, 3} /\ Len(t) = k /\ Len(q) = z
  BY <1>5, <1>6 DEF k, z
<1>11. Len(e) = o + k + z
  BY <1>3, <1>7, <1>8, <1>9, <1>10
<1>12. e[o - 1] = 0 /\ e[o] = k
  <2>1. e[Len(h) + 1] = d[1] /\ e[Len(h) + 2] = d[2]
    BY <1>7, <1>9
  <2>2. o - 1 = Len(h) + 1 /\ o = Len(h) + 2
    BY <1>8, <1>10
  <2> QED
    BY <1>7, <2>1, <2>2
<1>13. /\ \A i \in 1 .. k : e[o + i] = t[i]
       /\ \A i \in 1 .. z : e[o + k + i] = q[i]
  BY <1>7, <1>8, <1>9, <1>10
<1>14. e[1] = h[1] /\ e[2] = h[2] /\ (Len(h) = 3 => e[3] = h[3])
  BY <1>9, <1>10
<1>15. Framing(e)
  <2>1. Len(e) <= MQTT_MAX_PACKET_SIZE
    BY <1>2, <1>4
  <2>2. Len(e) = Len(h) + n
    BY <1>3, <1>8, <1>10, <1>11 DEF n
  <2>3. CASE n < Base
    <3>1. e[2] = n /\ Len(h) = 2 /\ ~(e[2] >= Base)
      BY <1>1, <1>5, <1>6, <1>14, <2>3
    <3>2. HdrLen(e) = 2 /\ BodyLen(e) = n
      BY <2>3, <3>1 DEF HdrLen, BodyLen
    <3> QED
      BY <1>1, <1>5, <1>9, <2>1, <2>2, <2>3, <3>1, <3>2 DEF Framing
  <2>4. CASE n >= Base
    <3>1. /\ e[2] \in Base .. 2 * Base - 1 /\ e[3] \in 1 .. Base - 1 /\ Len(h) = 3
          /\ Digit(e[2]) + e[3] * Base = n
      BY <1>6, <1>14, <2>4
    <3>2. ~(e[2] < Base) /\ e[2] < 2 * Base
      BY <1>1, <3>1
    <3>3. HdrLen(e) = 3 /\ BodyLen(e) = n
      BY <3>1, <3>2 DEF HdrLen, BodyLen
    <3>4. Len(e) >= 3 /\ Len(e) = HdrLen(e) + BodyLen(e)
      BY <1>5, <2>2, <3>1, <3>3
    <3> QED
      BY <1>9, <2>1, <3>1, <3>2, <3>4 DEF Framing
  <2> QED
    BY <1>5, <2>3, <2>4
<1>16. e[1] = PUBLISH
  BY <1>6, <1>14
<1>17. k \in 1 .. 2 * Base - 1
  BY <1>1, <1>2, <1>3
<1> QED
  BY <1>3, <1>4, <1>8, <1>11, <1>12, <1>13, <1>15, <1>16, <1>17 DEF k, z, t, q, o

LEMMA ShortFrames ==
  ASSUME Ordinary
  PROVE  /\ FrameOf([type |-> CONNACK, msg |-> NoMsg], <<CONNACK, 2, 0, 0>>)
         /\ FrameOf([type |-> CONNACK, msg |-> NoMsg], <<CONNACK, 2, 0, 5>>)
         /\ FrameOf([type |-> SUBACK, msg |-> NoMsg], <<SUBACK, 3, 0, 6, 0>>)
         /\ FrameOf([type |-> PINGRESP, msg |-> NoMsg], <<PINGRESP, 0>>)
         /\ FrameOf([type |-> PINGREQ, msg |-> NoMsg], <<PINGREQ, 0>>)
<1>1. Base \in Nat /\ Base >= 4 /\ MQTT_MAX_PACKET_SIZE \in Nat /\ MQTT_MAX_PACKET_SIZE >= 5
  BY MqttAssumption DEF Ordinary
<1>2. ASSUME NEW f \in Seq(Nat), NEW t, f[1] = t, t # PUBLISH, f[2] \in Nat, f[2] < 4,
             Len(f) = 2 + f[2]
      PROVE  FrameOf([type |-> t, msg |-> NoMsg], f)
  <2>1. f[2] < Base /\ ~(f[2] >= Base) /\ f[2] < 2 * Base
    BY <1>1, <1>2
  <2>2. HdrLen(f) = 2 /\ BodyLen(f) = f[2]
    BY <2>1 DEF HdrLen, BodyLen
  <2>3. Len(f) >= 2 /\ Len(f) <= MQTT_MAX_PACKET_SIZE
    BY <1>1, <1>2
  <2>4. Framing(f)
    BY <1>2, <2>1, <2>2, <2>3 DEF Framing
  <2> QED
    BY <1>2, <2>4 DEF FrameOf
<1>3. /\ <<CONNACK, 2, 0, 0>> \in Seq(Nat) /\ <<CONNACK, 2, 0, 5>> \in Seq(Nat)
      /\ <<SUBACK, 3, 0, 6, 0>> \in Seq(Nat) /\ <<PINGRESP, 0>> \in Seq(Nat) /\ <<PINGREQ, 0>> \in Seq(Nat)
  BY BytesType
<1>4. CONNACK # PUBLISH /\ SUBACK # PUBLISH /\ PINGRESP # PUBLISH /\ PINGREQ # PUBLISH
  BY DEF CONNACK, PUBLISH, SUBACK, PINGREQ, PINGRESP
<1>5. FrameOf([type |-> CONNACK, msg |-> NoMsg], <<CONNACK, 2, 0, 0>>)
  <2> DEFINE f == <<CONNACK, 2, 0, 0>>
  <2>1. f \in Seq(Nat) /\ f[1] = CONNACK /\ f[2] = 2 /\ Len(f) = 4
    BY <1>3
  <2> HIDE DEF f
  <2>3. f[2] \in Nat /\ f[2] < 4 /\ Len(f) = 2 + f[2]
    BY <2>1
  <2>2. FrameOf([type |-> CONNACK, msg |-> NoMsg], f)
    BY <1>2, <1>4, <2>1, <2>3
  <2> QED
    BY <2>2 DEF f
<1>6. FrameOf([type |-> CONNACK, msg |-> NoMsg], <<CONNACK, 2, 0, 5>>)
  <2> DEFINE f == <<CONNACK, 2, 0, 5>>
  <2>1. f \in Seq(Nat) /\ f[1] = CONNACK /\ f[2] = 2 /\ Len(f) = 4
    BY <1>3
  <2> HIDE DEF f
  <2>3. f[2] \in Nat /\ f[2] < 4 /\ Len(f) = 2 + f[2]
    BY <2>1
  <2>2. FrameOf([type |-> CONNACK, msg |-> NoMsg], f)
    BY <1>2, <1>4, <2>1, <2>3
  <2> QED
    BY <2>2 DEF f
<1>7. FrameOf([type |-> SUBACK, msg |-> NoMsg], <<SUBACK, 3, 0, 6, 0>>)
  <2> DEFINE f == <<SUBACK, 3, 0, 6, 0>>
  <2>1. f \in Seq(Nat) /\ f[1] = SUBACK /\ f[2] = 3 /\ Len(f) = 5
    BY <1>3
  <2> HIDE DEF f
  <2>3. f[2] \in Nat /\ f[2] < 4 /\ Len(f) = 2 + f[2]
    BY <2>1
  <2>2. FrameOf([type |-> SUBACK, msg |-> NoMsg], f)
    BY <1>2, <1>4, <2>1, <2>3
  <2> QED
    BY <2>2 DEF f
<1>8. FrameOf([type |-> PINGRESP, msg |-> NoMsg], <<PINGRESP, 0>>)
  <2> DEFINE f == <<PINGRESP, 0>>
  <2>1. f \in Seq(Nat) /\ f[1] = PINGRESP /\ f[2] = 0 /\ Len(f) = 2
    BY <1>3
  <2> HIDE DEF f
  <2>3. f[2] \in Nat /\ f[2] < 4 /\ Len(f) = 2 + f[2]
    BY <2>1
  <2>2. FrameOf([type |-> PINGRESP, msg |-> NoMsg], f)
    BY <1>2, <1>4, <2>1, <2>3
  <2> QED
    BY <2>2 DEF f
<1>9. FrameOf([type |-> PINGREQ, msg |-> NoMsg], <<PINGREQ, 0>>)
  <2> DEFINE f == <<PINGREQ, 0>>
  <2>1. f \in Seq(Nat) /\ f[1] = PINGREQ /\ f[2] = 0 /\ Len(f) = 2
    BY <1>3
  <2> HIDE DEF f
  <2>3. f[2] \in Nat /\ f[2] < 4 /\ Len(f) = 2 + f[2]
    BY <2>1
  <2>2. FrameOf([type |-> PINGREQ, msg |-> NoMsg], f)
    BY <1>2, <1>4, <2>1, <2>3
  <2> QED
    BY <2>2 DEF f
<1> QED
  BY <1>5, <1>6, <1>7, <1>8, <1>9

LEMMA MessageFrame ==
  ASSUME Ordinary, NEW m \in Messages
  PROVE  FrameOf([type |-> PUBLISH, msg |-> m], Encoded(m))
BY EncodedIs DEF FrameOf

(* The callback gets the message, or the topic is longer than its buffer.   *)
LEMMA MessageIs ==
  ASSUME Ordinary, NEW m \in Messages, packet = Encoded(m), result = Len(packet),
         tl <= MQTT_MAX_TOPIC_LEN
  PROVE  Message = m
<1> DEFINE t == m.topic
           q == m.payload
           k == Len(t)
           z == Len(q)
           o == Place(m)
<1>1. /\ Base \in Nat \ {0} /\ Base >= 4 /\ t \in Seq(Nat) /\ q \in Seq(Nat)
      /\ MQTT_MAX_TOPIC_LEN \in Nat /\ MQTT_MAX_TOPIC_LEN < 2 * Base
  BY MqttAssumption DEF Ordinary
<1>2. /\ packet \in Seq(Nat) /\ o \in {4, 5} /\ k \in 1 .. 2 * Base - 1 /\ z \in Nat
      /\ Len(packet) = o + k + z /\ packet[o - 1] = 0 /\ packet[o] = k
      /\ \A i \in 1 .. k : packet[o + i] = t[i]
      /\ \A i \in 1 .. z : packet[o + k + i] = q[i]
  BY EncodedIs DEF Framing
<1>3. o = IF 2 + k + z < Base THEN 4 ELSE 5
  BY DEF Place
<1> HIDE DEF t, q, k, z, o
<1>4. \A i \in Nat : i \in 1 .. Len(packet) => At(i) = packet[i]
  BY DEF At
<1>5. Offset = IF result < Base THEN 4 ELSE 5
  BY DEF Offset
<1>6. Offset = o
  <2> SUFFICES ASSUME Offset # o PROVE FALSE
    OBVIOUS
  <2>1. Offset = 5 /\ o = 4
    BY <1>1, <1>2, <1>3, <1>5
  <2>2. At(4) = k
    BY <1>2, <1>4, <2>1
  <2>3. At(5) \in Nat
    BY <1>2, <1>4, <2>1
  <2> DEFINE y == At(5)
             x == k * 2 * Base
  <2>4. tl = x + y
    BY <2>1, <2>2 DEF tl
  <2>5. x >= 2 * Base /\ x \in Nat
    BY <1>1, <1>2
  <2> HIDE DEF x, y
  <2>6. y \in Nat
    BY <2>3 DEF y
  <2> QED
    BY <1>1, <2>4, <2>5, <2>6
<1>7. tl = k
  <2>1. At(o - 1) = 0 /\ At(o) = k
    BY <1>2, <1>4
  <2>2. 0 * 2 * Base = 0
    BY <1>1
  <2> QED
    BY <1>2, <1>6, <2>1, <2>2 DEF tl
<1> DEFINE u == Part(o + 1, o + k)
           v == Part(o + k + 1, result)
<1>8. u = [i \in 1 .. k |-> At(o + i)]
  <2>1. ~(o + k < o + 1) /\ (o + k) - (o + 1) + 1 = k
    BY <1>2
  <2>2. \A i \in 1 .. k : (o + 1) + i - 1 = o + i
    BY <1>2
  <2> QED
    BY <2>1, <2>2 DEF Part
<1>9. v = [i \in 1 .. z |-> At(o + k + i)]
  <2>1. (IF result < o + k + 1 THEN 0 ELSE result - (o + k + 1) + 1) = z
    BY <1>2
  <2>2. \A i \in 1 .. z : (o + k + 1) + i - 1 = o + k + i
    BY <1>2
  <2> QED
    BY <2>1, <2>2 DEF Part
<1>10. \A i \in 1 .. k : At(o + i) = t[i] /\ o + i \in 1 .. Len(packet) /\ o + i \in Nat
  BY <1>2, <1>4
<1>11. \A i \in 1 .. z : At(o + k + i) = q[i]
  BY <1>2, <1>4
<1>12. Len(t) = k /\ Len(q) = z
  BY DEF k, z
<1>13. u = t
  <2>1. t \in [1 .. k -> Nat]
    BY <1>1, <1>12
  <2>2. u = [i \in 1 .. k |-> t[i]]
    BY <1>8, <1>10
  <2> QED
    BY <2>1, <2>2
<1>14. v = q
  <2>1. q \in [1 .. z -> Nat]
    BY <1>1, <1>12
  <2>2. v = [i \in 1 .. z |-> q[i]]
    BY <1>9, <1>11
  <2> QED
    BY <2>1, <2>2
<1>15. Message = [topic |-> u, payload |-> v]
  BY <1>6, <1>7 DEF Message
<1>16. m = [topic |-> t, payload |-> q]
  BY DEF Ordinary, Fits, t, q
<1> QED
  BY <1>13, <1>14, <1>15, <1>16

----------------------------------------------------------------------------
(* readPacket byte by byte: what it has read is the beginning of a packet. *)

(* The arithmetic of the length bytes.                                      *)
LEMMA FirstDigit ==
  ASSUME Ordinary, NEW b \in Nat, b < 2 * Base
  PROVE  /\ Digit(b) \in Nat /\ Digit(b) < Base
         /\ (0 + Digit(b) * 1) % (4 * Base * Base) = Digit(b)
         /\ (1 * Base) % (2 * Base) = Base
         /\ b < Base => Digit(b) = b
<1> DEFINE d == Digit(b)
           m == 4 * Base * Base
<1>1. Base \in Nat \ {0} /\ Base >= 4
  BY MqttAssumption DEF Ordinary
<1>2. d \in Nat /\ d < Base /\ (b < Base => d = b)
  BY <1>1 DEF Digit
<1>3. m \in Nat \ {0} /\ Base < m
  BY <1>1
<1>4. (1 * Base) % (2 * Base) = Base
  BY <1>1
<1>5. (0 + d * 1) % m = d
  <2> HIDE DEF d, m
  <2>1. 0 + d * 1 = d /\ d < m
    BY <1>1, <1>2, <1>3
  <2>2. d % m = d
    BY <1>2, <1>3, <2>1
  <2> QED
    BY <2>1, <2>2
<1> QED
  BY <1>2, <1>4, <1>5

LEMMA SecondDigit ==
  ASSUME Ordinary, NEW a \in Nat, a < Base, NEW b \in 1 .. Base - 1
  PROVE  /\ (a + Digit(b) * Base) % (4 * Base * Base) = a + b * Base
         /\ a + b * Base \in Nat \ {0} /\ ~Marked(b)
         /\ (Base * Base) % (2 * Base) < 2 * Base /\ (Base * Base) % (2 * Base) \in Nat
<1> DEFINE m == 4 * Base * Base
           x == b * Base
           y == Base * Base
           z == 2 * Base
<1>1. Base \in Nat \ {0} /\ Base >= 4
  BY MqttAssumption DEF Ordinary
<1>2. b \in Nat /\ Digit(b) = b /\ ~Marked(b)
  BY <1>1 DEF Digit, Marked
<1>3. x \in Nat /\ x >= Base /\ x <= y - Base /\ y \in Nat
  <2>1. (Base - 1) * Base = y - Base
    BY <1>1
  <2>2. b * Base <= (Base - 1) * Base
    BY <1>1
  <2>3. b * Base >= Base
    BY <1>1
  <2>4. y \in Nat /\ x \in Nat
    BY <1>1
  <2> QED
    BY <2>1, <2>2, <2>3, <2>4
<1>4. m = 4 * y /\ z \in Nat \ {0}
  BY <1>1
<1>5. y % z \in 0 .. z - 1
  <2> HIDE DEF y, z
  <2> QED
    BY <1>3, <1>4, ModIs
<1> HIDE DEF m, x, y, z
<1>6. a + x < m /\ a + x \in Nat \ {0} /\ m \in Nat \ {0}
  BY <1>1, <1>3, <1>4
<1>7. (a + x) % m = a + x
  BY <1>6
<1>8. y % z < z /\ y % z \in Nat
  BY <1>4, <1>5
<1> QED
  BY <1>2, <1>6, <1>7, <1>8 DEF m, x, y, z

(* What is behind a packet that is read on.                                 *)
Grown == Partial(packet', rd') \/ (Framing(packet') /\ rd' = NoPacket)

LEMMA AppendAgrees ==
  ASSUME NEW p \in Seq(Nat), NEW b \in Nat, NEW f \in Seq(Nat), Agree(p, f),
         Len(p) < Len(f), f[Len(p) + 1] = b
  PROVE  /\ Append(p, b) \in Seq(Nat) /\ Len(Append(p, b)) = Len(p) + 1
         /\ Agree(Append(p, b), f)
         /\ \A i \in 1 .. Len(p) : Append(p, b)[i] = p[i] /\ p[i] = f[i]
         /\ Append(p, b)[Len(p) + 1] = b
<1> DEFINE q == Append(p, b)
<1>1. /\ q \in Seq(Nat) /\ Len(q) = Len(p) + 1 /\ Len(p) \in Nat /\ Len(f) \in Nat
      /\ \A i \in 1 .. Len(p) : q[i] = p[i]
      /\ q[Len(p) + 1] = b
  OBVIOUS
<1> HIDE DEF q
<1>2. \A i \in 1 .. Len(p) : p[i] = f[i]
  BY <1>1 DEF Agree
<1>3. \A i \in 1 .. Len(q) : i \in 1 .. Len(p) \/ i = Len(p) + 1
  BY <1>1
<1>4. Agree(q, f)
  BY <1>1, <1>2, <1>3 DEF Agree
<1> QED
  BY <1>1, <1>2, <1>4 DEF q

LEMMA ReadHeader ==
  ASSUME Ordinary, NEW b \in Nat, packet = <<>>, rd = NoPacket, Store(b, FALSE)
  PROVE  packet' = Append(packet, b) /\ Partial(packet', rd')
<1>1. HeaderByte(b, FALSE)
  BY DEF Store, NoPacket
<1>2. packet' = <<b>> /\ rd' = [rd EXCEPT !.part = "digit", !.err = FALSE]
  BY <1>1 DEF HeaderByte
<1>3. /\ rd'.part = "digit" /\ rd'.length = 0 /\ rd'.multiplier = 1 /\ rd'.i = 0 /\ rd'.err = FALSE
  BY <1>2 DEF NoPacket
<1>4. <<b>> \in Seq(Nat) /\ Len(<<b>>) = 1 /\ Append(<<>>, b) = <<b>>
  OBVIOUS
<1> QED
  BY <1>2, <1>3, <1>4 DEF Partial

LEMMA LengthDoes ==
  ASSUME NEW b \in Nat, ~rd.err, rd.part = "digit", rd \in Reads, Store(b, FALSE),
         NEW n, n = (rd.length + Digit(b) * rd.multiplier) % (4 * Base * Base)
  PROVE  /\ packet' = Append(packet, b)
         /\ ~Marked(b) /\ n = 0 => rd' = NoPacket
         /\ ~(~Marked(b) /\ n = 0) =>
              /\ rd'.length = n /\ rd'.multiplier = (rd.multiplier * Base) % (2 * Base)
              /\ rd'.i = rd.i /\ ~rd'.err
              /\ rd'.part = IF Marked(b) THEN "digit" ELSE "body"
<1>1. LengthByte(b, FALSE \/ rd.err)
  BY DEF Store
<1>2. /\ packet' = Append(packet, b)
      /\ ~Marked(b) /\ n = 0 => rd' = NoPacket
      /\ ~(~Marked(b) /\ n = 0) =>
           rd' = [rd EXCEPT !.length = n,
                            !.multiplier = (@ * Base) % (2 * Base),
                            !.part = IF Marked(b) THEN "digit" ELSE "body"]
  BY <1>1 DEF LengthByte
<1> DEFINE k == (rd.multiplier * Base) % (2 * Base)
<1>3. ~(~Marked(b) /\ n = 0) =>
           rd' = [rd EXCEPT !.length = n, !.multiplier = k,
                            !.part = IF Marked(b) THEN "digit" ELSE "body"]
  BY <1>2
<1> HIDE DEF k
<1>4. ~(~Marked(b) /\ n = 0) =>
           /\ rd'.length = n /\ rd'.multiplier = k /\ rd'.i = rd.i /\ rd'.err = rd.err
           /\ rd'.part = IF Marked(b) THEN "digit" ELSE "body"
  BY <1>3 DEF Reads
<1> QED
  BY <1>2, <1>4 DEF k

LEMMA FramingStarts ==
  ASSUME NEW p \in Seq(Nat), NEW f, Framing(f), Agree(p, f), Len(p) >= 2,
         p[2] >= Base => Len(p) >= 3
  PROVE  /\ p[2] = f[2] /\ p[2] \in Nat /\ p[2] < 2 * Base
         /\ p[2] >= Base => p[3] = f[3] /\ p[3] \in 1 .. Base - 1
         /\ HdrLen(p) = HdrLen(f) /\ BodyLen(p) = BodyLen(f) /\ HdrLen(p) \in {2, 3}
         /\ HdrLen(p) <= Len(p)
<1>0. Base \in Nat \ {0}
  BY MqttAssumption
<1>1. f \in Seq(Nat) /\ Len(p) \in Nat /\ Len(f) \in Nat /\ Len(f) >= 2
  BY DEF Framing
<1>2. p[2] = f[2] /\ p[2] \in Nat /\ p[2] < 2 * Base
  BY <1>0, <1>1 DEF Agree, Framing
<1>3. p[2] >= Base => p[3] = f[3] /\ p[3] \in 1 .. Base - 1
  BY <1>0, <1>1, <1>2 DEF Agree, Framing
<1>4. HdrLen(p) = HdrLen(f) /\ HdrLen(p) \in {2, 3} /\ HdrLen(p) <= Len(p)
  BY <1>0, <1>1, <1>2 DEF HdrLen
<1>5. BodyLen(p) = BodyLen(f)
  BY <1>0, <1>2, <1>3 DEF BodyLen
<1> QED
  BY <1>2, <1>3, <1>4, <1>5

LEMMA ReadLength ==
  ASSUME Ordinary, NEW b \in Nat, packet \in Seq(Nat), rd \in Reads, Len(packet) = 1,
         rd.part = "digit", ~rd.err, rd.length = 0, rd.multiplier = 1, rd.i = 0, Store(b, FALSE),
         NEW f, Framing(f), Agree(packet, f), f[2] = b
  PROVE  packet' = Append(packet, b) /\ Grown
<1> DEFINE p == Append(packet, b)
           n == (rd.length + Digit(b) * rd.multiplier) % (4 * Base * Base)
<1>0. Base \in Nat \ {0} /\ f \in Seq(Nat) /\ Len(f) >= 2 /\ Len(f) \in Nat /\ b < 2 * Base
      /\ Len(f) <= MQTT_MAX_PACKET_SIZE /\ MQTT_MAX_PACKET_SIZE \in Nat
  BY MqttAssumption DEF Framing
<1>1. p \in Seq(Nat) /\ Len(p) = 2 /\ Agree(p, f) /\ p[2] = b
  <2>1. Len(packet) < Len(f) /\ Len(packet) + 1 = 2 /\ f[Len(packet) + 1] = b
    BY <1>0
  <2>2. /\ p \in Seq(Nat) /\ Len(p) = Len(packet) + 1 /\ Agree(p, f)
        /\ p[Len(packet) + 1] = b
    BY <1>0, <2>1, AppendAgrees, SMTT(20)
  <2> QED
    BY <2>1, <2>2
<1>2. /\ Digit(b) \in Nat /\ Digit(b) < Base /\ n = Digit(b) /\ (b < Base => Digit(b) = b)
      /\ (rd.multiplier * Base) % (2 * Base) = Base
  BY <1>0, FirstDigit
<1>3. /\ packet' = p
      /\ ~Marked(b) /\ n = 0 => rd' = NoPacket
      /\ ~(~Marked(b) /\ n = 0) =>
              /\ rd'.length = n /\ rd'.multiplier = (rd.multiplier * Base) % (2 * Base)
              /\ rd'.i = rd.i /\ ~rd'.err
              /\ rd'.part = IF Marked(b) THEN "digit" ELSE "body"
  BY LengthDoes
<1> HIDE DEF p, n
<1>4. CASE Marked(b)
  <2>1. /\ rd'.length = Digit(b) /\ rd'.multiplier = Base /\ rd'.i = 0 /\ ~rd'.err
        /\ rd'.part = "digit"
    BY <1>2, <1>3, <1>4
  <2>2. p[2] \in Base .. 2 * Base - 1
    BY <1>0, <1>1, <1>4 DEF Marked
  <2>3. Partial(p, rd')
    BY <1>1, <2>1, <2>2 DEF Partial
  <2> QED
    BY <1>3, <2>3 DEF Grown, p
<1>5. CASE ~Marked(b)
  <2>1. b < Base /\ ~(b >= Base)
    BY <1>0, <1>5 DEF Marked
  <2>2. HdrLen(p) = 2 /\ BodyLen(p) = b
    BY <1>1, <2>1 DEF HdrLen, BodyLen
  <2>3. CASE b = 0
    <3>1. rd' = NoPacket
      BY <1>2, <1>3, <1>5, <2>1, <2>3
    <3>2. Len(p) = HdrLen(p) + BodyLen(p) /\ Len(p) <= MQTT_MAX_PACKET_SIZE /\ Len(p) >= 2
      BY <1>0, <1>1, <2>2, <2>3
    <3>3. Framing(p)
      BY <1>0, <1>1, <2>1, <3>2 DEF Framing
    <3> QED
      BY <1>3, <3>1, <3>3 DEF Grown, p
  <2>4. CASE b # 0
    <3>1. /\ rd'.length = b /\ rd'.multiplier = Base /\ rd'.i = 0 /\ ~rd'.err
          /\ rd'.part = "body"
      BY <1>2, <1>3, <1>5, <2>1, <2>4
    <3>2. rd'.i < rd'.length /\ rd'.i >= 0 /\ rd'.multiplier < 2 * Base /\ rd'.i = Len(p) - HdrLen(p)
      BY <1>0, <1>1, <2>2, <2>4, <3>1
    <3>3. Partial(p, rd')
      BY <1>0, <1>1, <2>1, <2>2, <3>1, <3>2 DEF Partial
    <3> QED
      BY <1>3, <3>3 DEF Grown, p
  <2> QED
    BY <2>3, <2>4
<1> QED
  BY <1>4, <1>5

LEMMA ReadSecond ==
  ASSUME Ordinary, NEW b \in Nat, packet \in Seq(Nat), rd \in Reads, Len(packet) = 2,
         packet[2] \in Base .. 2 * Base - 1,
         rd.part = "digit", ~rd.err, rd.length = Digit(packet[2]), rd.multiplier = Base, rd.i = 0,
         Store(b, FALSE), NEW f, Framing(f), Agree(packet, f), Len(f) > 2, f[3] = b
  PROVE  packet' = Append(packet, b) /\ Grown
<1> DEFINE p == Append(packet, b)
           n == (rd.length + Digit(b) * rd.multiplier) % (4 * Base * Base)
           a == Digit(packet[2])
           x == b * Base
<1>0. Base \in Nat \ {0} /\ f \in Seq(Nat) /\ Len(f) \in Nat
  BY MqttAssumption DEF Framing
<1>1. p \in Seq(Nat) /\ Len(p) = 3 /\ Agree(p, f) /\ p[2] = packet[2] /\ p[3] = b
  <2>1. Len(packet) < Len(f) /\ f[Len(packet) + 1] = b /\ Len(packet) + 1 = 3 /\ 2 \in 1 .. Len(packet)
    BY <1>0
  <2>2. /\ p \in Seq(Nat) /\ Len(p) = Len(packet) + 1 /\ Agree(p, f)
        /\ \A i \in 1 .. Len(packet) : p[i] = packet[i] /\ packet[i] = f[i]
        /\ p[Len(packet) + 1] = b
    BY <1>0, <2>1, AppendAgrees
  <2> HIDE DEF p
  <2> QED
    BY <2>1, <2>2
<1>2. p[2] >= Base /\ ~(p[2] < Base) /\ p[2] \in Nat /\ p[2] < 2 * Base
  BY <1>0, <1>1
<1>3. p[2] = f[2] /\ p[3] = f[3] /\ b \in 1 .. Base - 1 /\ HdrLen(p) = 3
  <2>1. p[2] >= Base => Len(p) >= 3
    BY <1>1
  <2>2. Len(p) >= 2
    BY <1>1
  <2>3. p[2] = f[2] /\ (p[2] >= Base => p[3] = f[3] /\ p[3] \in 1 .. Base - 1)
    BY <1>1, <2>1, <2>2, FramingStarts
  <2> QED
    BY <1>1, <1>2, <2>3 DEF HdrLen
<1>4. a \in Nat /\ a < Base
  BY <1>0, <1>1, <1>2, FirstDigit
<1>5. /\ n = a + x /\ n \in Nat \ {0} /\ ~Marked(b)
      /\ (Base * Base) % (2 * Base) < 2 * Base
  <2> HIDE DEF a
  <2>1. /\ (a + Digit(b) * Base) % (4 * Base * Base) = a + b * Base
        /\ a + b * Base \in Nat \ {0} /\ ~Marked(b)
        /\ (Base * Base) % (2 * Base) < 2 * Base
    BY <1>3, <1>4, SecondDigit
  <2>2. n = (a + Digit(b) * Base) % (4 * Base * Base)
    BY DEF a
  <2> QED
    BY <2>1, <2>2
<1>6. BodyLen(p) = a + x
  BY <1>1, <1>2 DEF BodyLen
<1>7. /\ packet' = p
      /\ ~(~Marked(b) /\ n = 0) =>
              /\ rd'.length = n /\ rd'.multiplier = (rd.multiplier * Base) % (2 * Base)
              /\ rd'.i = rd.i /\ ~rd'.err
              /\ rd'.part = IF Marked(b) THEN "digit" ELSE "body"
  BY LengthDoes
<1> HIDE DEF p, n, a, x
<1>8. n # 0
  BY <1>5
<1>9. /\ rd'.length = n /\ rd'.multiplier < 2 * Base /\ rd'.i = 0 /\ ~rd'.err
      /\ rd'.part = "body"
  BY <1>5, <1>7, <1>8
<1>10. rd'.i < rd'.length /\ rd'.i >= 0 /\ rd'.i = Len(p) - HdrLen(p) /\ rd'.length = BodyLen(p)
  BY <1>1, <1>3, <1>5, <1>6, <1>9
<1>11. Partial(p, rd')
  BY <1>1, <1>2, <1>3, <1>9, <1>10 DEF Partial
<1> QED
  BY <1>7, <1>11 DEF Grown, p

LEMMA ReadBody ==
  ASSUME Ordinary, NEW b \in Nat, packet \in Seq(Nat), rd \in Reads,
         Len(packet) >= 2, packet[2] >= Base => Len(packet) >= 3,
         rd.part = "body", ~rd.err, rd.length = BodyLen(packet), rd.i = Len(packet) - HdrLen(packet),
         rd.i < rd.length, rd.i >= 0, rd.multiplier < 2 * Base,
         Store(b, FALSE), NEW f, Framing(f), Agree(packet, f), Len(packet) < Len(f),
         f[Len(packet) + 1] = b
  PROVE  packet' = Append(packet, b) /\ Grown
<1> DEFINE p == Append(packet, b)
<1>0. /\ Base \in Nat \ {0} /\ f \in Seq(Nat) /\ Len(f) \in Nat /\ Len(packet) \in Nat
      /\ Len(f) <= MQTT_MAX_PACKET_SIZE /\ MQTT_MAX_PACKET_SIZE \in Nat
      /\ Len(f) = HdrLen(f) + BodyLen(f)
  BY MqttAssumption DEF Framing
<1>1. /\ p \in Seq(Nat) /\ Len(p) = Len(packet) + 1 /\ Agree(p, f)
      /\ \A i \in 1 .. Len(packet) : p[i] = packet[i]
  BY <1>0, AppendAgrees
<1>2. /\ packet[2] = f[2] /\ HdrLen(packet) = HdrLen(f) /\ BodyLen(packet) = BodyLen(f)
  BY FramingStarts
<1>3. Len(p) >= 2 /\ p[2] = packet[2] /\ (p[2] >= Base => Len(p) >= 3)
  BY <1>0, <1>1
<1>4. /\ p[2] \in Nat /\ p[2] < 2 * Base /\ (p[2] >= Base => p[3] \in 1 .. Base - 1)
      /\ HdrLen(p) = HdrLen(f) /\ BodyLen(p) = BodyLen(f) /\ HdrLen(p) \in {2, 3}
  BY <1>1, <1>3, FramingStarts
<1>5. Room /\ BodyByte(b, FALSE)
  <2>1. Room
    BY <1>0 DEF Room
  <2>2. BodyByte(b, FALSE)
    BY DEF Store
  <2> QED
    BY <2>1, <2>2
<1>6. /\ packet' = p
      /\ rd.i + 1 = rd.length => rd' = NoPacket
      /\ rd.i + 1 # rd.length => rd' = [rd EXCEPT !.i = @ + 1]
  BY <1>5 DEF BodyByte
<1>7. rd.i \in Nat /\ rd.length \in Nat /\ rd.length = BodyLen(p)
      /\ rd.i + 1 = Len(p) - HdrLen(p)
  <2>1. rd.i \in Nat /\ rd.length \in Nat
    BY DEF Reads
  <2>2. rd.length = BodyLen(p) /\ rd.i = Len(packet) - HdrLen(p) /\ HdrLen(p) \in {2, 3}
    BY <1>2, <1>4
  <2> PICK i, n, k, h : i = rd.i /\ n = Len(packet) /\ k = Len(p) /\ h = HdrLen(p)
    OBVIOUS
  <2>3. n \in Nat /\ k = n + 1
    BY <1>0, <1>1
  <2>4. i = n - h /\ h \in {2, 3}
    BY <2>2
  <2> HIDE DEF p
  <2>5. i + 1 = k - h
    BY <2>3, <2>4
  <2> QED
    BY <2>1, <2>2, <2>5
<1> HIDE DEF p
<1>8. CASE rd.i + 1 = rd.length
  <2>1. Len(p) = HdrLen(p) + BodyLen(p) /\ Len(p) <= MQTT_MAX_PACKET_SIZE
    <3>1. Len(p) = HdrLen(p) + rd.length
      BY <1>1, <1>4, <1>7, <1>8
    <3>2. Len(p) <= Len(f)
      BY <1>0, <1>1
    <3> QED
      BY <1>0, <1>1, <1>7, <3>1, <3>2
  <2>2. Framing(p)
    BY <1>1, <1>3, <1>4, <2>1 DEF Framing
  <2> QED
    BY <1>6, <1>8, <2>2 DEF Grown, p
<1>9. CASE rd.i + 1 # rd.length
  <2>1. /\ rd'.part = "body" /\ rd'.i = rd.i + 1 /\ rd'.length = rd.length
        /\ rd'.multiplier = rd.multiplier /\ ~rd'.err
    BY <1>6, <1>9 DEF Reads
  <2>2. rd'.i < rd'.length /\ rd'.i >= 0
    BY <1>7, <1>9, <2>1
  <2>3. Partial(p, rd')
    BY <1>1, <1>3, <1>4, <1>7, <2>1, <2>2 DEF Partial
  <2> QED
    BY <1>6, <2>3 DEF Grown, p
<1> QED
  BY <1>8, <1>9

(* A byte of the stream takes the reading on: to the whole packet it is in  *)
(* the middle of, or further into it.                                       *)
LEMMA ReadOn ==
  ASSUME Ordinary, NEW b \in Nat, packet \in Seq(Nat), rd \in Reads, Partial(packet, rd),
         Store(b, FALSE), NEW f, Framing(f), Agree(packet, f), Len(packet) < Len(f),
         f[Len(packet) + 1] = b
  PROVE  packet' = Append(packet, b) /\ Grown /\ Len(packet') <= MQTT_MAX_PACKET_SIZE
<1>0. /\ Base \in Nat \ {0} /\ f \in Seq(Nat) /\ Len(f) \in Nat /\ Len(packet) \in Nat
      /\ Len(f) <= MQTT_MAX_PACKET_SIZE /\ MQTT_MAX_PACKET_SIZE \in Nat
  BY MqttAssumption DEF Framing
<1>1. packet' = Append(packet, b) /\ Grown
  <2>1. CASE packet = <<>> /\ rd = NoPacket
    <3>1. packet' = Append(packet, b) /\ Partial(packet', rd')
      BY <2>1, ReadHeader
    <3> QED
      BY <3>1 DEF Grown
  <2>2. CASE Len(packet) = 1
    <3>1. rd.part = "digit" /\ rd.length = 0 /\ rd.multiplier = 1 /\ rd.i = 0 /\ ~rd.err
      <4>1. packet # <<>>
        <5>1. Len(<<>>) # 1
          OBVIOUS
        <5> QED
          BY <2>2, <5>1
      <4>2. ~(Len(packet) >= 2) /\ Len(packet) # 2
        BY <1>0, <2>2
      <4> QED
        BY <4>1, <4>2 DEF Partial
    <3>2. f[2] = b
      BY <2>2
    <3> QED
      BY <2>2, <3>1, <3>2, ReadLength
  <2>3. CASE /\ Len(packet) = 2 /\ packet[2] \in Base .. 2 * Base - 1 /\ rd.part = "digit"
             /\ rd.length = Digit(packet[2]) /\ rd.multiplier = Base /\ rd.i = 0 /\ ~rd.err
    <3>1. Len(f) > 2 /\ f[3] = b
      BY <1>0, <2>3
    <3> QED
      BY <2>3, <3>1, ReadSecond
  <2>4. CASE /\ Len(packet) >= 2 /\ packet[2] < 2 * Base
             /\ packet[2] >= Base => Len(packet) >= 3 /\ packet[3] \in 1 .. Base - 1
             /\ rd.part = "body" /\ rd.length = BodyLen(packet) /\ rd.i = Len(packet) - HdrLen(packet)
             /\ rd.i < rd.length /\ rd.i >= 0 /\ rd.multiplier < 2 * Base /\ ~rd.err
    BY <2>4, ReadBody
  <2> QED
    BY <2>1, <2>2, <2>3, <2>4 DEF Partial
<1>2. Len(packet') <= MQTT_MAX_PACKET_SIZE
  <2>1. Len(Append(packet, b)) = Len(packet) + 1
    BY AppendType
  <2> QED
    BY <1>0, <1>1, <2>1
<1> QED
  BY <1>1, <1>2

----------------------------------------------------------------------------
(* The stream of bytes between the server and the packet being read.       *)

(* What is left of it in the client, the modem and the network: everything  *)
(* while the link holds, a beginning of it when it is down.                 *)
In(l, s, k) == \E rest \in Seq(Nat) : Stream(l, s \o rest) /\ (k => rest = <<>>)

LEMMA Nothing == <<>> \in Seq(Nat) /\ Len(<<>>) = 0
OBVIOUS

LEMMA InNone == ASSUME NEW k PROVE In(<<>>, <<>>, k)
<1> DEFINE e == <<>>
<1>1. e \in Seq(Nat) /\ e \o e = e /\ Stream(e, e)
  BY NothingSent, Nothing, ConcatEmpty
<1>2. e = <<>>
  OBVIOUS
<1> HIDE DEF e
<1>3. In(e, e, k)
  BY <1>1, <1>2 DEF In
<1> QED
  BY <1>3 DEF e

LEMMA InNothing ==
  ASSUME NEW s \in Seq(Nat), NEW k, In(<<>>, s, k) PROVE s = <<>>
<1>1. PICK rest \in Seq(Nat) : Stream(<<>>, s \o rest)
  BY DEF In
<1>2. s \o rest = <<>>
  BY <1>1, NothingSent
<1>3. Len(s \o rest) = Len(s) + Len(rest) /\ Len(s) \in Nat /\ Len(rest) \in Nat
  BY ConcatIs
<1>4. Len(s) = 0
  BY <1>2, <1>3, Nothing
<1> QED
  BY <1>4, EmptySeq

LEMMA InCut ==
  ASSUME NEW l, NEW s \in Seq(Nat), NEW t \in Seq(Nat), NEW k, In(l, s \o t, k)
  PROVE  In(l, s, FALSE)
<1>1. PICK rest \in Seq(Nat) : Stream(l, (s \o t) \o rest)
  BY DEF In
<1>2. (s \o t) \o rest = s \o (t \o rest) /\ t \o rest \in Seq(Nat)
  <2>1. AreLists(s, t, rest)
    BY DEF AreLists
  <2>2. (s \o t) \o rest = s \o (t \o rest)
    BY <2>1, ListsConcat
  <2>3. t \o rest \in Seq(Nat)
    BY ConcatType
  <2> QED
    BY <2>2, <2>3
<1> QED
  BY <1>1, <1>2 DEF In

LEMMA InMore ==
  ASSUME NEW S, NEW l \in Seq(S), NEW s \in Seq(Nat), In(l, s, TRUE), NEW e \in S,
         NEW f, FrameOf(e, f), NEW k
  PROVE  In(Append(l, e), s \o f, k)
<1>1. Stream(l, s)
  <2>1. PICK rest \in Seq(Nat) : Stream(l, s \o rest) /\ rest = <<>>
    BY DEF In
  <2>2. s \o rest = s
    BY <2>1, ConcatEmpty
  <2> QED
    BY <2>1, <2>2
<1>2. f \in Seq(Nat)
  BY DEF FrameOf, Framing
<1> DEFINE g == s \o f
           e0 == <<>>
<1>3. Stream(Append(l, e), g)
  BY <1>1, SentMore
<1>4. g \o e0 = g /\ e0 \in Seq(Nat) /\ e0 = <<>>
  BY <1>2, ConcatType, ConcatEmpty, Nothing
<1> HIDE DEF g, e0
<1>5. In(Append(l, e), g, k)
  BY <1>3, <1>4 DEF In
<1> QED
  BY <1>5 DEF g

LEMMA InWhole ==
  ASSUME NEW S, NEW l \in Seq(S), NEW p, NEW u \in Seq(Nat), Framing(p), NEW k, In(l, p \o u, k)
  PROVE  l # <<>> /\ FrameOf(l[1], p) /\ In(Tail(l), u, k)
<1>0. p \in Seq(Nat) /\ Len(p) >= 2 /\ Len(p) \in Nat
  BY DEF Framing
<1>1. PICK rest \in Seq(Nat) : Stream(l, (p \o u) \o rest) /\ (k => rest = <<>>)
  BY DEF In
<1> DEFINE w == u \o rest
<1>2. (p \o u) \o rest = p \o w /\ w \in Seq(Nat)
  <2>1. AreLists(p, u, rest)
    BY <1>0 DEF AreLists
  <2>2. (p \o u) \o rest = p \o (u \o rest)
    BY <2>1, ListsConcat
  <2>3. u \o rest \in Seq(Nat)
    BY ConcatType
  <2> QED
    BY <2>2, <2>3
<1>3. w = u \o rest
  OBVIOUS
<1> HIDE DEF w
<1>4. Stream(l, p \o w)
  BY <1>1, <1>2
<1>5. l # <<>>
  <2> SUFFICES ASSUME l = <<>> PROVE FALSE
    OBVIOUS
  <2>1. p \o w = <<>>
    BY <1>4, NothingSent
  <2>2. Len(p \o w) = Len(p) + Len(w) /\ Len(w) \in Nat
    BY <1>0, <1>2, ConcatIs
  <2> QED
    BY <1>0, <2>1, <2>2, Nothing
<1>6. PICK f, t \in Seq(Nat) : FrameOf(l[1], f) /\ p \o w = f \o t /\ Stream(Tail(l), t)
  BY <1>4, <1>5, FirstSent
<1>7. Agree(p, f)
  BY <1>0, <1>2, <1>6, AgreeOn
<1>8. p = f
  BY <1>6, <1>7, WholeIs DEF FrameOf
<1>9. w = t
  BY <1>0, <1>2, <1>6, <1>8, ConcatCancel
<1>10. In(Tail(l), u, k)
  BY <1>1, <1>3, <1>6, <1>9 DEF In
<1> QED
  BY <1>5, <1>6, <1>8, <1>10

(* After the beginning p of a packet comes the byte b.                      *)
NextByte(S, l, p, u, v, b, r, k) ==
  /\ l \in Seq(S) /\ p \in Seq(Nat) /\ u \in Seq(Nat) /\ v \in Seq(Nat)
  /\ b \in Nat /\ u = <<b>> \o v
  /\ r \in Reads /\ Partial(p, r) /\ In(l, p \o u, k)

LEMMA InByte ==
  ASSUME NEW S, NEW l, NEW p, NEW u, NEW v, NEW b, NEW r, NEW k,
         NextByte(S, l, p, u, v, b, r, k)
  PROVE  \E f : Framing(f) /\ Agree(p, f) /\ Len(p) < Len(f) /\ f[Len(p) + 1] = b
<1> USE DEF NextByte
<1>0. Len(p) \in Nat /\ Len(u) \in Nat /\ Len(u) >= 1 /\ u[1] = b
  OBVIOUS
<1>1. PICK rest \in Seq(Nat) : Stream(l, (p \o u) \o rest)
  BY DEF In
<1> DEFINE w == u \o rest
<1>2. (p \o u) \o rest = p \o w /\ w \in Seq(Nat)
  <2>1. AreLists(p, u, rest)
    BY DEF AreLists
  <2>2. (p \o u) \o rest = p \o (u \o rest)
    BY <2>1, ListsConcat
  <2>3. u \o rest \in Seq(Nat)
    BY ConcatType
  <2> QED
    BY <2>2, <2>3
<1>3. Len(w) \in Nat /\ Len(w) >= 1 /\ w[1] = b
  <2>1. /\ Len(w) = Len(u) + Len(rest) /\ Len(rest) \in Nat
        /\ \A i \in 1 .. Len(u) : w[i] = u[i]
    BY ConcatIs
  <2>2. 1 \in 1 .. Len(u)
    BY <1>0
  <2> HIDE DEF w
  <2> QED
    BY <1>0, <2>1, <2>2
<1> HIDE DEF w
<1>4. Stream(l, p \o w)
  BY <1>1, <1>2
<1>5. /\ Len(p \o w) = Len(p) + Len(w)
      /\ \A i \in 1 .. Len(p) + Len(w) : i > Len(p) => (p \o w)[i] = w[i - Len(p)]
  BY <1>2, ConcatIs
<1>6. l # <<>>
  <2> SUFFICES ASSUME l = <<>> PROVE FALSE
    OBVIOUS
  <2>1. p \o w = <<>>
    BY <1>4, NothingSent
  <2> QED
    BY <1>0, <1>3, <1>5, <2>1, Nothing
<1>7. PICK f, t \in Seq(Nat) : FrameOf(l[1], f) /\ p \o w = f \o t /\ Stream(Tail(l), t)
  BY <1>4, <1>6, FirstSent
<1>8. Agree(p, f) /\ Framing(f) /\ Len(f) \in Nat
  <2>1. Agree(p, f)
    BY <1>2, <1>7, AgreeOn
  <2>2. Framing(f)
    BY <1>7 DEF FrameOf
  <2> QED
    BY <1>7, <2>1, <2>2
<1>9. Len(p) < Len(f)
  BY <1>8, PartIs DEF Reads
<1>10. f[Len(p) + 1] = b
  <2> DEFINE n == Len(p) + 1
  <2>1. n \in 1 .. Len(p) + Len(w) /\ n > Len(p) /\ n - Len(p) = 1 /\ n \in 1 .. Len(f)
    BY <1>0, <1>3, <1>8, <1>9
  <2> HIDE DEF n
  <2>2. (p \o w)[n] = b
    BY <1>3, <1>5, <2>1
  <2>3. (f \o t)[n] = f[n]
    BY <2>1, ConcatIs
  <2> QED
    BY <1>7, <2>2, <2>3 DEF n
<1> QED
  BY <1>8, <1>9, <1>10

LEMMA InStuck ==
  ASSUME NEW S, NEW l \in Seq(S), NEW p \in Seq(Nat), p # <<>>, NEW r \in Reads, Partial(p, r),
         NEW k, In(l, p, k)
  PROVE  ~k
<1> SUFFICES ASSUME k PROVE FALSE
  OBVIOUS
<1>1. Stream(l, p)
  <2>1. PICK rest \in Seq(Nat) : Stream(l, p \o rest) /\ rest = <<>>
    BY DEF In
  <2>2. p \o rest = p
    BY <2>1, ConcatEmpty
  <2> QED
    BY <2>1, <2>2
<1>2. l # <<>>
  <2> SUFFICES ASSUME l = <<>> PROVE FALSE
    OBVIOUS
  <2> QED
    BY <1>1, NothingSent
<1>3. PICK f, t \in Seq(Nat) : FrameOf(l[1], f) /\ p = f \o t /\ Stream(Tail(l), t)
  BY <1>1, <1>2, FirstSent
<1> DEFINE e == <<>>
<1>4. p \o e = f \o t /\ e \in Seq(Nat)
  BY <1>3, ConcatEmpty, Nothing
<1> HIDE DEF e
<1>5. Agree(p, f) /\ Framing(f)
  <2>1. Agree(p, f)
    BY <1>3, <1>4, AgreeOn
  <2>2. Framing(f)
    BY <1>3 DEF FrameOf
  <2> QED
    BY <2>1, <2>2
<1>6. Len(p) < Len(f)
  BY <1>5, PartIs DEF Reads
<1>7. Len(p) = Len(f) + Len(t) /\ Len(t) \in Nat /\ Len(f) \in Nat /\ Len(p) \in Nat
  BY <1>3, ConcatIs
<1> QED
  BY <1>6, <1>7

LEMMA InTail ==
  ASSUME NEW S, NEW l \in Seq(S), NEW k, In(l, <<>>, k), l # <<>>
  PROVE  In(Tail(l), <<>>, FALSE)
<1> DEFINE e == <<>>
<1>1. \A s \in Seq(Nat) : e \o s = s
  BY ConcatEmpty
<1>2. In(l, e, k) /\ e \in Seq(Nat)
  BY Nothing
<1> HIDE DEF e
<1>3. PICK s \in Seq(Nat) : Stream(l, s)
  BY <1>1, <1>2 DEF In
<1>4. PICK t \in Seq(Nat) : Stream(Tail(l), t)
  BY <1>3, FirstSent
<1>5. In(Tail(l), e, FALSE)
  BY <1>1, <1>4 DEF In
<1> QED
  BY <1>5 DEF e

----------------------------------------------------------------------------
(* A stretch of the block.                                                  *)
Bytes(b, j, n) == [i \in 1 .. n |-> b[j + i - 1]]

LEMMA BytesAre ==
  ASSUME NEW M \in Nat, NEW b \in [0 .. M - 1 -> Nat], NEW j \in Nat, NEW n \in Nat, j + n <= M
  PROVE  Bytes(b, j, n) \in Seq(Nat) /\ Len(Bytes(b, j, n)) = n
<1>1. \A i \in 1 .. n : b[j + i - 1] \in Nat
  <2> SUFFICES ASSUME NEW i \in 1 .. n PROVE b[j + i - 1] \in Nat
    OBVIOUS
  <2>1. j + i - 1 \in 0 .. M - 1
    OBVIOUS
  <2> QED
    BY <2>1
<1> QED
  BY <1>1 DEF Bytes

LEMMA NoBytes == ASSUME NEW b, NEW j PROVE Bytes(b, j, 0) = <<>>
<1>1. Bytes(b, j, 0) = [i \in 1 .. 0 |-> b[j + i - 1]]
  BY DEF Bytes
<1>2. 1 .. 0 = {}
  OBVIOUS
<1>3. [i \in {} |-> b[j + i - 1]] = <<>>
  OBVIOUS
<1> QED
  BY <1>1, <1>2, <1>3

(* Of n bytes from j on, c has forgotten the first.                         *)
Forgets(M, b, j, n, c, z, y) ==
  /\ M \in Nat /\ b \in [0 .. M - 1 -> Nat] /\ j \in Nat /\ n \in Nat \ {0} /\ j + n <= M
  /\ c = [b EXCEPT ![j] = 0] /\ z = j + 1 /\ y = n - 1

LEMMA FirstByte ==
  ASSUME NEW M, NEW b, NEW j, NEW n, NEW c, NEW z, NEW y, Forgets(M, b, j, n, c, z, y)
  PROVE  b[j] \in Nat /\ Bytes(b, j, n) = <<b[j]>> \o Bytes(c, z, y)
<1> USE DEF Forgets
<1> DEFINE u == Bytes(b, j, n)
           v == Bytes(c, z, y)
           x == b[j]
           h == <<x>>
           w == h \o v
<1>1. j \in 0 .. M - 1 /\ x \in Nat
  OBVIOUS
<1>2. c \in [0 .. M - 1 -> Nat]
  BY <1>1
<1>3. u \in Seq(Nat) /\ Len(u) = n
  BY BytesAre
<1>4. v \in Seq(Nat) /\ Len(v) = n - 1
  <2>1. y \in Nat /\ z \in Nat /\ z + y <= M
    OBVIOUS
  <2> HIDE DEF v
  <2>2. Bytes(c, z, y) \in Seq(Nat) /\ Len(Bytes(c, z, y)) = y
    <3>1. ASSUME NEW i \in 1 .. y PROVE c[z + i - 1] \in Nat
      <4>1. z + i - 1 \in 0 .. M - 1
        BY <2>1
      <4> QED
        BY <1>2, <4>1
    <3> QED
      BY <2>1, <3>1 DEF Bytes
  <2> QED
    BY <2>2 DEF v
<1>5. h \in Seq(Nat) /\ Len(h) = 1 /\ h[1] = x
  BY <1>1
<1>6. ASSUME NEW i \in 1 .. n PROVE u[i] = b[j + i - 1]
  BY DEF Bytes
<1>7. ASSUME NEW i \in 1 .. n - 1 PROVE v[i] = b[j + i]
  <2>1. v[i] = c[(j + 1) + i - 1]
    BY DEF Bytes
  <2>2. (j + 1) + i - 1 = j + i /\ j + i # j /\ j + i \in 0 .. M - 1
    OBVIOUS
  <2> QED
    BY <2>1, <2>2
<1> HIDE DEF u, v, x, h
<1>8. /\ w \in Seq(Nat) /\ Len(w) = Len(h) + Len(v)
      /\ \A i \in 1 .. Len(h) : w[i] = h[i]
      /\ \A i \in 1 .. Len(h) + Len(v) : i > Len(h) => w[i] = v[i - Len(h)]
  BY <1>4, <1>5, ConcatIs
<1> HIDE DEF w
<1>9. Len(w) = n
  BY <1>4, <1>5, <1>8
<1>10. ASSUME NEW i \in 1 .. n PROVE u[i] = w[i]
  <2>1. CASE i = 1
    <3>1. w[1] = h[1]
      BY <1>5, <1>8
    <3>2. u[1] = b[j]
      <4>1. u[i] = b[j + i - 1] /\ j + i - 1 = j
        BY <1>6, <2>1
      <4> QED
        BY <2>1, <4>1
    <3> QED
      BY <1>5, <2>1, <3>1, <3>2 DEF x
  <2>2. CASE i # 1
    <3>1. i - 1 \in 1 .. n - 1 /\ j + (i - 1) = j + i - 1
      BY <2>2
    <3>2. i \in 1 .. Len(h) + Len(v) /\ i > Len(h) /\ i - Len(h) = i - 1
      BY <1>4, <1>5, <2>2
    <3>3. w[i] = v[i - 1]
      BY <1>8, <3>2
    <3>4. v[i - 1] = b[j + (i - 1)]
      BY <1>7, <3>1
    <3>5. u[i] = b[j + i - 1]
      BY <1>6
    <3> QED
      BY <3>1, <3>3, <3>4, <3>5
  <2> QED
    BY <2>1, <2>2
<1>11. u = w
  BY <1>3, <1>8, <1>9, <1>10, SeqEqual
<1> QED
  BY <1>1, <1>11 DEF u, w, h, v, x

(***************************************************************************)
(* The second invariant: the bytes, the packets and the server.            *)
(***************************************************************************)
(* The client has the unread part of its block, or a block that the modem   *)
(* has filled and the client has not counted yet.                           *)
Held ==
  IF at = "TCPRead" /\ verdict = "success" THEN Bytes(buff, 0, len)
  ELSE Bytes(buff, idx, size)
Flow == packet \o (Held \o (rcv \o wire))

(* Nothing is lost, repeated or out of place between the server and the     *)
(* packet that is being read.                                               *)
Sync == number => In(log, Flow, link)

Packets ==
  /\ Len(packet) <= MQTT_MAX_PACKET_SIZE
  /\ Here \in Reading => Partial(packet, rd)
  /\ at \in {"welcomed", "dispatch"} =>
       /\ packet # <<>> => Framing(packet)
       /\ packet = <<>> /\ number => ~link /\ rcv = <<>> /\ size = 0

Sent ==
  [type : {CONNACK, PUBLISH, SUBACK, PINGREQ, PINGRESP}, msg : Messages \cup {NoMsg}]

Served ==
  /\ log \in Seq(Sent) /\ due \in Seq({CONNACK, SUBACK, PINGRESP})
  /\ \A k \in 1 .. Len(log) :
       /\ log[k].type = PUBLISH => log[k].msg \in Messages
       /\ log[k].type # PUBLISH => log[k].msg = NoMsg
       /\ log[k].type = SUBACK => k = Len(log)
  /\ Flushing => log = <<>>

Unwritten ==
  \/ Here = "hello" /\ number
  \/ Here = "greeted" /\ at = "TCPClient_write"
  \/ Here = "greeted" /\ at = "TCPWrite" /\ verdict = "pending"

Welcome ==
  /\ Main \in Handshake \/ (Here = "hello" /\ number) => ~granted
  /\ Unwritten => due = <<>> /\ log = <<>>
  /\ Main \in Handshake =>
       \/ log = <<>> /\ (due = <<>> \/ due = <<CONNACK>>)
       \/ due = <<>> /\ Len(log) = 1 /\ log[1].type = CONNACK
  /\ Main \notin Dialling =>
       /\ \A k \in 1 .. Len(due) : due[k] # CONNACK
       /\ \A k \in 1 .. Len(log) : log[k].type # CONNACK

Handed ==
  /\ Main \in Dialling => ~connected
  /\ handed # NoMsg => at = "callback"
  /\ ~garbled

Answering == Contains(due, PINGRESP) \/ Unread(PINGRESP)
Reached   == (at = "TCPWrite" /\ verdict = "success") \/ (at = "pinged" /\ result # 0)
Pinging ==
  /\ connected /\ pingOutstanding /\ link => Answering
  /\ Here = "pinged" /\ link /\ Reached => Answering

DInv == Sync /\ Packets /\ Served /\ Welcome /\ Handed /\ Pinging

----------------------------------------------------------------------------
LEMMA HeldIs ==
  ASSUME CInv
  PROVE  /\ Held \in Seq(Nat)
         /\ size = 0 /\ ~(at = "TCPRead" /\ verdict = "success") => Held = <<>>
<1>1. /\ size \in Nat /\ idx \in Nat /\ size + idx <= TCP_MAX_BUF_SIZE /\ len \in Nat
      /\ buff \in [0 .. TCP_MAX_BUF_SIZE - 1 -> Nat] /\ TCP_MAX_BUF_SIZE \in Nat
      /\ at = "TCPRead" => len <= TCP_MAX_BUF_SIZE
  BY BlockSize DEF CInv, Types, Requests
<1>2. CASE at = "TCPRead" /\ verdict = "success"
  <2>1. 0 + len <= TCP_MAX_BUF_SIZE /\ 0 \in Nat
    BY <1>1, <1>2
  <2>2. Bytes(buff, 0, len) \in Seq(Nat)
    BY <1>1, <2>1, BytesAre
  <2> QED
    BY <1>2, <2>2 DEF Held
<1>3. CASE ~(at = "TCPRead" /\ verdict = "success")
  <2>1. idx + size <= TCP_MAX_BUF_SIZE
    BY <1>1
  <2>2. Bytes(buff, idx, size) \in Seq(Nat)
    BY <1>1, <2>1, BytesAre
  <2>3. Held = Bytes(buff, idx, size)
    BY <1>3 DEF Held
  <2>4. size = 0 => Held = <<>>
    BY <2>3, NoBytes
  <2> QED
    BY <2>2, <2>3, <2>4
<1> QED
  BY <1>2, <1>3

LEMMA FlowIs ==
  ASSUME CInv
  PROVE  /\ packet \in Seq(Nat) /\ Held \in Seq(Nat) /\ rcv \in Seq(Nat) /\ wire \in Seq(Nat)
         /\ rcv \o wire \in Seq(Nat) /\ Held \o (rcv \o wire) \in Seq(Nat)
         /\ Flow \in Seq(Nat)
<1>1. packet \in Seq(Nat) /\ Held \in Seq(Nat) /\ rcv \in Seq(Nat) /\ wire \in Seq(Nat)
  BY HeldIs DEF CInv, Types
<1> DEFINE h == Held
           f == rcv \o wire
           g == h \o f
<1>2. h \in Seq(Nat) /\ f \in Seq(Nat)
  BY <1>1, ConcatType
<1> HIDE DEF h, f
<1>3. g \in Seq(Nat)
  BY <1>2, ConcatType
<1> HIDE DEF g
<1>4. packet \o g \in Seq(Nat)
  BY <1>1, <1>3, ConcatType
<1> QED
  BY <1>1, <1>2, <1>3, <1>4 DEF Flow, f, g, h

LEMMA SyncStays ==
  ASSUME Sync, number' => number, log' = log, link' = link, packet' = packet,
         Held' = Held, rcv' = rcv, wire' = wire
  PROVE  Sync'
<1>1. Flow' = Flow
  BY DEF Flow
<1> QED
  BY <1>1 DEF Sync

(* What comes is lost when the connection is: the rest of it is behind.     *)
LEMMA SyncCut ==
  ASSUME CInv, Sync, number' => number, log' = log, ~link', packet' = packet,
         Held' = Held, rcv' = <<>> \/ rcv' = rcv, wire' = <<>>
  PROVE  Sync'
<1> SUFFICES ASSUME number' PROVE In(log', Flow', link')
  BY DEF Sync
<1> DEFINE h == Held
           f == rcv \o wire
           e == <<>>
<1>1. packet \in Seq(Nat) /\ h \in Seq(Nat) /\ rcv \in Seq(Nat) /\ wire \in Seq(Nat) /\ f \in Seq(Nat)
  BY FlowIs
<1>2. In(log, packet \o (h \o f), link)
  BY DEF Sync, Flow
<1>3. Flow' = packet \o (h \o (rcv' \o e))
  BY DEF Flow
<1>4. e \in Seq(Nat) /\ \A s \in Seq(Nat) : s \o e = s
  BY ConcatEmpty, Nothing
<1>5. rcv' = e \/ rcv' = rcv
  OBVIOUS
<1>6. f = rcv \o wire
  OBVIOUS
<1> HIDE DEF h, f, e
<1>7. PICK r \in Seq(Nat) : r = rcv' /\ \E t \in Seq(Nat) : f = r \o t
  <2>1. CASE rcv' = rcv
    BY <1>1, <1>6, <2>1
  <2>2. CASE rcv' = e
    <3>1. f = e \o f
      BY <1>1, ConcatEmpty DEF e
    <3> QED
      BY <1>1, <1>4, <2>2, <3>1
  <2> QED
    BY <1>5, <2>1, <2>2
<1>8. PICK t \in Seq(Nat) : f = r \o t
  BY <1>7
<1>9. packet \o (h \o f) = (packet \o (h \o r)) \o t
  <2>1. h \o f = (h \o r) \o t /\ h \o r \in Seq(Nat)
    <3>1. AreLists(h, r, t)
      BY <1>1 DEF AreLists
    <3>2. (h \o r) \o t = h \o (r \o t) /\ h \o r \in Seq(Nat)
      BY <3>1, ListsConcat
    <3> QED
      BY <1>8, <3>2
  <2> DEFINE w == h \o r
  <2> HIDE DEF w
  <2>2. w \in Seq(Nat) /\ h \o f = w \o t
    BY <2>1 DEF w
  <2>3. packet \o (w \o t) = (packet \o w) \o t
    <3>1. AreLists(packet, w, t)
      BY <1>1, <2>2 DEF AreLists
    <3> QED
      BY <3>1, ListsConcat, SMTT(20)
  <2> QED
    BY <2>2, <2>3 DEF w
<1>10. packet \o (h \o r) \in Seq(Nat)
  <2>1. h \o r \in Seq(Nat)
    BY <1>1, ConcatType
  <2> DEFINE w == h \o r
  <2> HIDE DEF w
  <2>2. packet \o w \in Seq(Nat)
    BY <1>1, <2>1, ConcatType DEF w
  <2> QED
    BY <2>2 DEF w
<1>11. In(log, packet \o (h \o r), FALSE)
  <2> DEFINE s == packet \o (h \o r)
  <2> HIDE DEF s
  <2>1. s \in Seq(Nat) /\ In(log, s \o t, link)
    BY <1>2, <1>9, <1>10 DEF s
  <2>2. In(log, s, FALSE)
    BY <1>8, <2>1, InCut
  <2> QED
    BY <2>2 DEF s
<1>12. Flow' = packet \o (h \o r) /\ link' = FALSE
  <2>1. rcv' \o e = r
    BY <1>4, <1>7
  <2>2. link' = FALSE
    OBVIOUS
  <2> QED
    BY <1>3, <2>1, <2>2
<1> QED
  BY <1>11, <1>12

----------------------------------------------------------------------------
(* The steps of the TCP client and of the loop.                            *)

(* The steps that leave log, due and the rest of the server alone.          *)
LEMMA ServerStays ==
  ASSUME Served, Welcome, Handed, Pinging, UNCHANGED <<log, due, granted, connected, handed, garbled>>,
         Main' = Main, Here' = Here, number' => number, link' => link,
         pingOutstanding' => pingOutstanding,
         Flushing' => Flushing, Unwritten' => Unwritten, Here = "pinged" /\ Reached' => Reached,
         at' = at \/ at # "callback"
  PROVE  Served' /\ Welcome' /\ Handed' /\ Pinging'
<1>1. Served'
  BY DEF Served
<1>2. Welcome'
  BY DEF Welcome
<1>3. Handed'
  BY DEF Handed
<1>4. Pinging'
  BY DEF Pinging, Answering, Unread
<1> QED
  BY <1>1, <1>2, <1>3, <1>4

LEMMA TcpDoes ==
  ASSUME CInv, Tcp
  PROVE  /\ Here' = Here /\ Main' = Main /\ UNCHANGED peer /\ (number' => number)
         /\ at \in Routines /\ Calls(Here, at)
         /\ Flushing' => Flushing
         /\ Unwritten' => Unwritten
         /\ Here = "pinged" /\ Reached' => Reached
         /\ at' \in Routines \/ at' = Here
<1>1. Here' = Here /\ Main' = Main
  BY TcpStays DEF Main
<1>2. at \in Routines
  BY DEF Routines, Tcp, TCPCheckStatus, TCPReadEnds, TCPHandleError, TCPClient_stop, Closed, TCPClient_connected, TCPClient_write, TCPWriteEnds, TCPClient_flush, TCPFlushEnds, TCPClient_connect, APNConfigEnds, TCPOpenEnds, Asking
<1>3. Here = Head(stack) /\ Calls(Here, at) /\ Here \notin Routines
  BY <1>2, Places
<1>4. at' \in Routines \/ at' = Here
  BY <1>1, <1>3 DEF Here, HereOf
<1>5. /\ number \in BOOLEAN /\ (at \in Failing /\ Here = "pinged" => result = 0)
      /\ verdict \in {"pending", "success", "failure"}
  BY DEF CInv, Types, Numbered, Writers
<1> DEFINE Effect ==
       /\ UNCHANGED peer /\ (number' => number)
       /\ at' \in {"TCPClient_flush", "TCPRxFlush"} => at \in {"TCPClient_flush", "TCPRxFlush"}
       /\ at' = "TCPClient_write" => at = "TCPClient_write"
       /\ at' = "TCPWrite" => at = "TCPClient_write" /\ verdict' = "pending"
       /\ at' = "pinged" /\ result' # 0 => at = "TCPWrite" /\ verdict = "success"
<1>6. Here \notin {"TCPClient_flush", "TCPRxFlush", "TCPClient_write", "TCPWrite"}
  BY <1>3 DEF Routines
<1>7. Here = "pinged" => at \in {"TCPClient_write", "TCPWrite"} \cup Failing
  BY <1>3 DEF Calls, Askers, Pollers, Stops, Failing
<1>8. Effect
  <2>1. CASE TCPCheckStatus
    BY <1>3, <1>5, <1>6, <1>7, <2>1 DEF TCPCheckStatus, Return, Goto, Local, socket, Failing
  <2>2. CASE TCPReadEnds
    BY <1>3, <1>5, <1>6, <1>7, <2>2 DEF TCPReadEnds, Asking, Return, Goto, Local, socket, Failing
  <2>3. CASE TCPHandleError
    BY <1>3, <1>5, <1>6, <1>7, <2>3 DEF TCPHandleError, Return, Goto, Local, socket, Failing
  <2>4. CASE TCPClient_stop
    BY <1>3, <1>5, <1>6, <1>7, <2>4 DEF TCPClient_stop, Return, Goto, Local, socket, Failing
  <2>5. CASE Closed
    BY <1>3, <1>5, <1>6, <1>7, <2>5 DEF Closed, Asking, Return, Goto, Local, socket, Failing
  <2>6. CASE TCPClient_connected
    BY <1>3, <1>5, <1>6, <1>7, <2>6 DEF TCPClient_connected, Return, Goto, Local, socket, Failing
  <2>7. CASE TCPClient_write
    BY <1>3, <1>5, <1>6, <1>7, <2>7 DEF TCPClient_write, Ask, Return, Goto, Local, socket, Failing
  <2>8. CASE TCPWriteEnds
    BY <1>3, <1>5, <1>6, <1>7, <2>8 DEF TCPWriteEnds, Asking, Return, Goto, Local, socket, Failing
  <2>9. CASE TCPClient_flush
    BY <1>3, <1>5, <1>6, <1>7, <2>9 DEF TCPClient_flush, Return, Goto, Local, socket, Failing
  <2>10. CASE TCPFlushEnds
    BY <1>3, <1>5, <1>6, <1>7, <2>10 DEF TCPFlushEnds, Asking, Return, Goto, Local, socket, Failing
  <2>11. CASE TCPClient_connect
    BY <1>3, <1>5, <1>6, <1>7, <2>11 DEF TCPClient_connect, Return, Goto, Local, socket, control, Failing
  <2>12. CASE APNConfigEnds
    BY <1>3, <1>5, <1>6, <1>7, <2>12 DEF APNConfigEnds, Asking, Return, Goto, Local, socket, Failing
  <2>13. CASE TCPOpenEnds
    BY <1>3, <1>5, <1>6, <1>7, <2>13 DEF TCPOpenEnds, Asking, Return, Goto, Local, socket, Failing
  <2> QED
    BY <2>1, <2>2, <2>3, <2>4, <2>5, <2>6, <2>7, <2>8, <2>9, <2>10, <2>11, <2>12, <2>13 DEF Tcp
<1>9. Unwritten' => Unwritten
  BY <1>1, <1>8 DEF Unwritten
<1>10. Here = "pinged" /\ Reached' => Reached
  BY <1>8 DEF Reached
<1>11. Flushing' => Flushing
  BY <1>8 DEF Flushing
<1> QED
  BY <1>1, <1>2, <1>3, <1>4, <1>8, <1>9, <1>10, <1>11

(* What TCPRead left in the block becomes what the client counts.           *)
LEMMA TcpHolds == ASSUME CInv, Tcp PROVE Held' = Held
<1>1. at \in Routines /\ (at' \in Routines \/ at' = Here) /\ Here = Head(stack) /\ Here \notin Routines
  BY TcpDoes, Places
<1>2. CASE TCPReadEnds /\ verdict = "success"
  <2>1. at = "TCPRead" /\ at' = Here /\ Here # "TCPRead" /\ idx' = 0 /\ size' = len /\ buff' = buff
    BY <1>1, <1>2 DEF TCPReadEnds, Asking, Return, Routines
  <2> QED
    BY <1>2, <2>1 DEF Held
<1>3. CASE TCPReadEnds /\ verdict # "success"
  <2>1. at' = "TCPHandleError" /\ UNCHANGED <<buff, idx, size>>
    BY <1>3 DEF TCPReadEnds, Asking
  <2> QED
    BY <1>3, <2>1 DEF Held
<1>4. CASE ~TCPReadEnds
  <2>1. /\ at # "TCPRead" /\ UNCHANGED <<buff, idx, size>>
        /\ at' = "TCPRead" => verdict' = "pending"
    <3>1. CASE TCPCheckStatus
      BY <1>1, <3>1 DEF TCPCheckStatus, Return, Goto, Ask, block, Routines
    <3>2. CASE TCPHandleError \/ TCPClient_stop \/ Closed \/ TCPClient_connected
      BY <1>1, <3>2 DEF TCPHandleError, TCPClient_stop, Closed, TCPClient_connected, Asking, Return, Goto, Ask, block, Routines
    <3>3. CASE TCPClient_write \/ TCPWriteEnds \/ TCPClient_flush \/ TCPFlushEnds
      BY <1>1, <3>3 DEF TCPClient_write, TCPWriteEnds, TCPClient_flush, TCPFlushEnds, Asking, Return, Goto, Ask, block, Routines
    <3>4. CASE TCPClient_connect \/ APNConfigEnds \/ TCPOpenEnds
      BY <1>1, <3>4 DEF TCPClient_connect, APNConfigEnds, TCPOpenEnds, Asking, Return, Goto, Ask, block, control, Routines
    <3> QED
      BY <1>4, <3>1, <3>2, <3>3, <3>4 DEF Tcp
  <2> QED
    BY <2>1 DEF Held
<1> QED
  BY <1>2, <1>3, <1>4

LEMMA TcpData ==
  ASSUME CInv, DInv, Tcp, UNCHANGED mqttVars PROVE DInv'
<1>1. /\ Here' = Here /\ Main' = Main /\ UNCHANGED peer /\ (number' => number)
      /\ at \in Routines /\ Calls(Here, at)
      /\ (Flushing' => Flushing) /\ (Unwritten' => Unwritten)
      /\ Here = "pinged" /\ Reached' => Reached
      /\ at' \in Routines \/ at' = Here
  BY TcpDoes
<1>2. Sync'
  BY <1>1, TcpHolds, SyncStays DEF DInv, mqttVars, reader, peer
<1>3. Packets'
  <2>1. at' \notin {"welcomed", "dispatch"}
    BY <1>1 DEF Calls, Askers, Pollers, Writers, Stops, Routines
  <2> QED
    BY <1>1, <2>1 DEF DInv, Packets, mqttVars, reader
<1>4. Served' /\ Welcome' /\ Handed' /\ Pinging'
  BY <1>1, ServerStays DEF DInv, mqttVars, flags, server, peer, Routines
<1> QED
  BY <1>2, <1>3, <1>4 DEF DInv

LEMMA PlainDoes ==
  ASSUME Ordinary, CInv, PlainStep
  PROVE  /\ Held' = Held
         /\ at' \notin {"welcomed", "dispatch", "TCPRxFlush", "TCPWrite", "pinged"}
         /\ Here' \notin {"MQTTClient_readByte", "available", "hello"}
         /\ Moves(at', Here', Main')
<1>1. PICK a, p, m : Landed(a, p, m) /\ Proper(a, p) /\ Outside(p) /\ Moves(a, p, m)
  BY PlainLands
<1>2. at' = a /\ Here' = p /\ Main' = m
  BY <1>1 DEF Landed
<1>3. at' \in Routines \/ Here' = at'
  BY DEF Here, HereOf
<1>4. at' \notin {"welcomed", "dispatch", "TCPRxFlush", "TCPWrite", "pinged", "TCPRead"}
  BY <1>1, <1>2, <1>3 DEF Proper, Outside, Entries, Routines
<1>5. at \in Mains /\ at # "TCPRead"
  BY PlainAt DEF Mains
<1>6. Held' = Held
  <2>1. UNCHANGED <<buff, idx, size>>
    BY PlainQuiet DEF Quiet
  <2> QED
    BY <1>4, <1>5, <2>1 DEF Held
<1> QED
  BY <1>1, <1>2, <1>4, <1>6 DEF Proper, Outside

LEMMA NothingRead ==
  ASSUME NEW p, NEW r, p = <<>>, r = NoPacket
  PROVE  Partial(p, r) /\ Len(p) <= MQTT_MAX_PACKET_SIZE
<1>1. p \in Seq(Nat) /\ Len(p) = 0
  OBVIOUS
<1>2. ~r.err
  BY DEF NoPacket
<1>3. MQTT_MAX_PACKET_SIZE \in Nat
  BY MqttAssumption
<1> QED
  BY <1>1, <1>2, <1>3 DEF Partial

LEMMA PlainPackets ==
  ASSUME Ordinary, CInv, PlainStep PROVE Packets'
<1>1. packet' = <<>> /\ rd' = NoPacket
  BY PlainEmpties
<1>2. Partial(packet', rd') /\ Len(packet') <= MQTT_MAX_PACKET_SIZE
  BY <1>1, NothingRead
<1> QED
  BY <1>2, PlainDoes DEF Packets

(* What a step in the loop that takes no packet does.                       *)
LEMMA PlainTakesNone ==
  ASSUME Ordinary, CInv, PlainStep, ~Welcomed, ~Dispatch
  PROVE  /\ log' = log /\ packet' = packet
         /\ at # "welcomed" /\ at' # "TCPClient_flush"
         /\ handed' = NoMsg \/ (handed' = handed /\ at # "callback")
         /\ connected' => connected /\ at # "disconnect"
         /\ pingOutstanding' => pingOutstanding \/ (at = "pinged" /\ result # 0)
<1>1. packet' = <<>> /\ Here = at /\ at \in Mains
  BY PlainEmpties, PlainAt
<1>2. /\ at # "dispatch" /\ at # "welcomed" => packet = <<>>
      /\ at = "dispatch" /\ result = 0 => packet = <<>>
  BY <1>1, Disjoint DEF CInv, Reader, Types
<1>3. at' = "TCPClient_flush" => at = "dispatch"
  BY PlainDoes DEF Moves
<1> DEFINE Effect ==
       /\ log' = log /\ at # "welcomed"
       /\ at = "dispatch" => result = 0 /\ at' = "top"
       /\ handed' = NoMsg \/ (handed' = handed /\ at # "callback")
       /\ connected' => connected /\ at # "disconnect"
       /\ pingOutstanding' => pingOutstanding \/ (at = "pinged" /\ result # 0)
<1>4. Effect
  <2>1. CASE Down \/ Hello \/ Greeted \/ Awaited
    BY <2>1 DEF Down, Hello, Greeted, Awaited, Others, flags
  <2>2. CASE Subscribe \/ MQTTClient_subscribe
    BY <2>2 DEF Subscribe, MQTTClient_subscribe, Others, flags
  <2>3. CASE Top \/ Loop \/ MQTTClient_loop
    BY <2>3 DEF Top, Loop, MQTTClient_loop, Others, flags
  <2>4. CASE Pinged
    BY <2>4 DEF Pinged, Others
  <2>5. CASE Polled \/ Ponged \/ MQTTClient_disconnect
    BY <2>5 DEF Polled, Ponged, MQTTClient_disconnect, Others, flags
  <2>6. CASE Callback
    BY <2>6 DEF Callback, flags
  <2>7. CASE Abandoned
    BY <2>7 DEF Abandoned, Others, flags, Then
  <2>8. CASE Disconnect
    BY <2>8 DEF Disconnect, Others
  <2> QED
    BY <2>1, <2>2, <2>3, <2>4, <2>5, <2>6, <2>7, <2>8 DEF PlainStep
<1> QED
  BY <1>1, <1>2, <1>3, <1>4

LEMMA PlainData ==
  ASSUME Ordinary, CInv, DInv, PlainStep, ~Welcomed, ~Dispatch PROVE DInv'
<1>1. /\ log' = log /\ packet' = packet
      /\ at # "welcomed" /\ at' # "TCPClient_flush"
      /\ handed' = NoMsg \/ (handed' = handed /\ at # "callback")
      /\ connected' => connected /\ at # "disconnect"
      /\ pingOutstanding' => pingOutstanding \/ (at = "pinged" /\ result # 0)
  BY PlainTakesNone
<1>2. Quiet /\ UNCHANGED <<due, granted, garbled>>
  BY PlainQuiet
<1>3. /\ Held' = Held
      /\ at' \notin {"welcomed", "dispatch", "TCPRxFlush", "TCPWrite", "pinged"}
      /\ Here' # "hello" /\ Moves(at', Here', Main')
  BY PlainDoes
<1>4. at \in Mains /\ Here = at /\ Main = at
  BY PlainAt
<1>5. Sync'
  BY <1>1, <1>2, <1>3, SyncStays DEF DInv, Quiet
<1>6. Packets'
  BY PlainPackets
<1>7. Served'
  BY <1>1, <1>2, <1>3 DEF DInv, Served, Flushing
<1>8. at = "hello" => Unwritten /\ ~granted
  BY <1>4 DEF CInv, Numbered, DInv, Welcome, Unwritten
<1>9. Welcome'
  <2>1. Unwritten' => due = <<>> /\ log = <<>>
    BY <1>3, <1>8 DEF Unwritten, Moves, DInv, Welcome
  <2>2. Main' \in Handshake => /\ ~granted
                               /\ \/ log = <<>> /\ (due = <<>> \/ due = <<CONNACK>>)
                                  \/ due = <<>> /\ Len(log) = 1 /\ log[1].type = CONNACK
    BY <1>3, <1>4, <1>8 DEF Moves, DInv, Welcome
  <2>3. Main' \notin Dialling =>
           /\ \A k \in 1 .. Len(due) : due[k] # CONNACK
           /\ \A k \in 1 .. Len(log) : log[k].type # CONNACK
    BY <1>1, <1>3, <1>4 DEF Moves, DInv, Welcome
  <2> QED
    BY <1>1, <1>2, <1>3, <2>1, <2>2, <2>3 DEF Welcome
<1>10. Handed'
  BY <1>1, <1>2, <1>3, <1>4 DEF Handed, DInv, Moves
<1>11. Pinging'
  <2>1. Answering => Answering'
    BY <1>1, <1>2 DEF Answering, Unread
  <2>2. ~(Here' = "pinged" /\ Reached')
    BY <1>3 DEF Reached
  <2>3. link' = link
    BY <1>2 DEF Quiet
  <2>4. at = "pinged" /\ result # 0 /\ link => Answering
    BY <1>4 DEF DInv, Pinging, Reached
  <2> QED
    BY <1>1, <2>1, <2>2, <2>3, <2>4 DEF DInv, Pinging
<1> QED
  BY <1>5, <1>6, <1>7, <1>9, <1>10, <1>11 DEF DInv

LEMMA ThroughIs ==
  ASSUME NEW S, NEW l \in Seq(S), NEW t, t = SubSeq(l, 2, Len(l))
  PROVE  /\ t \in Seq(S)
         /\ l # <<>> => t = Tail(l)
         /\ l = <<>> => t = l
         /\ \A k \in 1 .. Len(t) : t[k] = l[k + 1] /\ k + 1 \in 1 .. Len(l)
         /\ Len(l) = Len(t) + 1 \/ l = <<>>
<1>1. CASE l = <<>>
  <2>1. Len(l) = 0 /\ l \in Seq(S)
    BY <1>1
  <2>2. t \in Seq(S) /\ Len(t) = 0
    BY <2>1
  <2>3. t = <<>>
    BY <2>2, EmptySeq
  <2> QED
    BY <1>1, <2>2, <2>3
<1>2. CASE l # <<>>
  <2>1. /\ Tail(l) \in Seq(S) /\ Len(l) \in Nat \ {0} /\ Len(Tail(l)) = Len(l) - 1
        /\ \A k \in 1 .. Len(l) - 1 : Tail(l)[k] = l[k + 1]
    BY <1>2, TailType
  <2>2. /\ t \in Seq(S) /\ Len(t) = Len(l) - 1 /\ \A k \in 1 .. Len(l) - 1 : t[k] = l[k + 1]
    BY <2>1
  <2> DEFINE r == Tail(l)
  <2> HIDE DEF r
  <2>3. r \in Seq(S) /\ Len(r) = Len(t) /\ \A k \in 1 .. Len(t) : t[k] = r[k]
    BY <2>1, <2>2 DEF r
  <2>4. t = r
    BY <2>2, <2>3, SeqEqual
  <2>5. t = Tail(l)
    BY <2>4 DEF r
  <2>6. Len(l) = Len(t) + 1 /\ Len(t) \in Nat
    BY <2>1, <2>2
  <2>7. \A k \in 1 .. Len(t) : t[k] = l[k + 1] /\ k + 1 \in 1 .. Len(l)
    BY <2>2, <2>6
  <2> QED
    BY <1>2, <2>2, <2>5, <2>6, <2>7
<1> QED
  BY <1>1, <1>2

(* A packet taken out of the stream is the first that the server sent.      *)
LEMMA TakesFirst ==
  ASSUME CInv, DInv, at \in {"welcomed", "dispatch"}, packet # <<>>
  PROVE  /\ number /\ log # <<>> /\ Framing(packet) /\ FrameOf(log[1], packet)
         /\ In(Tail(log), Held \o (rcv \o wire), link)
<1>1. number /\ Framing(packet)
  <2>1. Here = at
    BY AtMain DEF Mains
  <2> QED
    BY <2>1 DEF CInv, Reader, DInv, Packets
<1>2. log \in Seq(Sent)
  BY DEF DInv, Served
<1> DEFINE u == Held \o (rcv \o wire)
<1>3. u \in Seq(Nat) /\ In(log, packet \o u, link)
  BY <1>1, FlowIs DEF DInv, Sync, Flow
<1> HIDE DEF u
<1>4. log # <<>> /\ FrameOf(log[1], packet) /\ In(Tail(log), u, link)
  BY <1>1, <1>2, <1>3, InWhole
<1> QED
  BY <1>1, <1>4 DEF u

LEMMA ThroughSync ==
  ASSUME CInv, DInv, at \in {"welcomed", "dispatch"}, Through,
         UNCHANGED <<number, link, rcv, wire>>, Held' = Held
  PROVE  Sync'
<1> SUFFICES ASSUME number PROVE In(log', Flow', link)
  BY DEF Sync
<1> DEFINE u == Held \o (rcv \o wire)
           e == <<>>
<1>1. u \in Seq(Nat) /\ log \in Seq(Sent) /\ log' = SubSeq(log, 2, Len(log)) /\ packet' = <<>>
  BY FlowIs DEF DInv, Served, Through
<1>2. Flow' = e \o u
  BY <1>1 DEF Flow
<1>3. e \o u = u
  BY <1>1, ConcatEmpty
<1>4. In(log, packet \o u, link)
  BY DEF DInv, Sync, Flow
<1>5. /\ log' \in Seq(Sent)
      /\ log # <<>> => log' = Tail(log)
      /\ log = <<>> => log' = log
  BY <1>1, ThroughIs
<1> HIDE DEF u
<1>6. CASE packet # <<>>
  <2>1. log # <<>> /\ In(Tail(log), u, link)
    BY <1>6, TakesFirst DEF u
  <2> QED
    BY <1>2, <1>3, <1>5, <2>1
<1>7. CASE packet = <<>>
  <2>1. ~link /\ rcv = <<>> /\ size = 0
    BY <1>7 DEF DInv, Packets
  <2>2. wire = <<>> /\ Held = <<>> /\ at # "TCPRead"
    BY <2>1, HeldIs DEF CInv, Sockets
  <2>3. u = e
    <3>1. e \in Seq(Nat) /\ e \o e = e
      BY ConcatEmpty, Nothing
    <3> QED
      BY <2>1, <2>2, <3>1 DEF u
  <2>4. In(log, e, link)
    BY <1>3, <1>4, <1>7, <2>3
  <2>5. CASE log = <<>>
    BY <1>2, <1>3, <1>5, <2>3, <2>4, <2>5
  <2>6. CASE log # <<>>
    <3>1. In(Tail(log), e, FALSE)
      BY <1>1, <2>4, <2>6, InTail
    <3>2. Flow' = e /\ log' = Tail(log)
      BY <1>2, <1>3, <1>5, <2>3, <2>6
    <3>3. In(log', Flow', FALSE)
      BY <3>1, <3>2
    <3>4. link = FALSE
      BY <2>1 DEF CInv, Types
    <3> QED
      BY <3>3, <3>4
  <2> QED
    BY <2>5, <2>6
<1> QED
  BY <1>6, <1>7

LEMMA ThroughServed ==
  ASSUME Served, Through
  PROVE  /\ log' \in Seq(Sent)
         /\ \A k \in 1 .. Len(log') : log'[k] = log[k + 1] /\ k + 1 \in 1 .. Len(log)
         /\ \A k \in 1 .. Len(log') :
               /\ log'[k].type = PUBLISH => log'[k].msg \in Messages
               /\ log'[k].type # PUBLISH => log'[k].msg = NoMsg
               /\ log'[k].type = SUBACK => k = Len(log')
<1>1. /\ log' \in Seq(Sent)
      /\ \A k \in 1 .. Len(log') : log'[k] = log[k + 1] /\ k + 1 \in 1 .. Len(log)
      /\ Len(log) = Len(log') + 1 \/ log = <<>>
      /\ log = <<>> => log' = log
  <2>0. PICK t : t = SubSeq(log, 2, Len(log))
    OBVIOUS
  <2>1. log \in Seq(Sent) /\ log' = t
    BY <2>0 DEF Served, Through
  <2>2. t \in Seq(Sent) /\ (log = <<>> => t = log)
    BY <2>0, <2>1, ThroughIs
  <2>3. Len(log) = Len(t) + 1 \/ log = <<>>
    BY <2>0, <2>1, ThroughIs
  <2>4. \A k \in 1 .. Len(t) : t[k] = log[k + 1] /\ k + 1 \in 1 .. Len(log)
    BY <2>0, <2>1, ThroughIs
  <2> QED
    BY <2>1, <2>2, <2>3, <2>4
<1>2. ASSUME NEW k \in 1 .. Len(log')
      PROVE  /\ log'[k].type = PUBLISH => log'[k].msg \in Messages
             /\ log'[k].type # PUBLISH => log'[k].msg = NoMsg
             /\ log'[k].type = SUBACK => k = Len(log')
  <2>1. log'[k] = log[k + 1] /\ k + 1 \in 1 .. Len(log) /\ Len(log') \in Nat /\ Len(log) = Len(log') + 1
    BY <1>1
  <2>2. log[k + 1].type = SUBACK => k + 1 = Len(log)
    BY <2>1 DEF Served
  <2> QED
    BY <2>1, <2>2 DEF Served
<1> QED
  BY <1>1, <1>2

LEMMA WelcomedData ==
  ASSUME Ordinary, CInv, DInv, Welcomed PROVE DInv'
<1>0. PlainStep
  BY DEF PlainStep
<1>1. at = "welcomed" /\ Main = at /\ Here = at
  BY <1>0, PlainAt DEF Welcomed
<1>2. Quiet /\ UNCHANGED <<due, granted, garbled, handed>>
  BY <1>0, PlainQuiet DEF Welcomed
<1>3. /\ Held' = Held
      /\ at' \notin {"welcomed", "dispatch", "TCPRxFlush", "TCPWrite", "pinged"}
      /\ Here' # "hello" /\ Moves(at', Here', Main')
  BY <1>0, PlainDoes
<1>4. Through
  BY DEF Welcomed
<1>5. Sync'
  BY <1>1, <1>2, <1>3, <1>4, ThroughSync DEF Quiet
<1>6. Packets'
  BY <1>0, PlainPackets
<1>7. /\ log' \in Seq(Sent)
      /\ \A k \in 1 .. Len(log') : log'[k] = log[k + 1] /\ k + 1 \in 1 .. Len(log)
      /\ \A k \in 1 .. Len(log') :
            /\ log'[k].type = PUBLISH => log'[k].msg \in Messages
            /\ log'[k].type # PUBLISH => log'[k].msg = NoMsg
            /\ log'[k].type = SUBACK => k = Len(log')
  BY <1>4, ThroughServed DEF DInv
<1>8. Served'
  BY <1>1, <1>2, <1>3, <1>7 DEF DInv, Served, Flushing, Moves
<1>9. CASE Accepted
  <2>1. packet # <<>> /\ Main' = "subscribe" /\ Here' = "subscribe" /\ connected' = TRUE /\ pingOutstanding' = FALSE
    <3>1. packet # <<>>
      BY <1>1, <1>9 DEF Accepted, CInv, Reader
    <3>2. at' = "subscribe" /\ stack' = stack
      BY <1>9 DEF Welcomed, Then
    <3>3. at \in Mains /\ "subscribe" \in Mains
      BY <1>1 DEF Mains
    <3>4. Landed("subscribe", "subscribe", "subscribe")
      BY <3>2, <3>3, ThenLands
    <3> QED
      BY <1>9, <3>1, <3>4 DEF Welcomed, Landed
  <2>2. log # <<>> /\ Main \in Handshake
    BY <1>1, <2>1, TakesFirst DEF Handshake
  <2>3. due = <<>> /\ Len(log) = 1
    BY <2>2 DEF DInv, Welcome
  <2>4. Len(log') = 0
    BY <1>7, <2>3
  <2>5. Welcome'
    <3>1. \A k \in 1 .. Len(due) : due[k] # CONNACK
      BY <2>3
    <3>2. \A k \in 1 .. Len(log') : log'[k].type # CONNACK
      BY <2>4
    <3> QED
      BY <1>2, <2>1, <3>1, <3>2 DEF Welcome, Handshake, Dialling, Unwritten
  <2>6. Handed'
    BY <1>1, <1>2, <2>1 DEF Handed, DInv, Dialling, Handshake
  <2>7. Pinging'
    BY <2>1 DEF Pinging
  <2> QED
    BY <1>5, <1>6, <1>8, <2>5, <2>6, <2>7 DEF DInv
<1>10. CASE ~Accepted
  <2>1. Main' = "down" /\ Here' = "down" /\ UNCHANGED <<connected, pingOutstanding>>
    <3>2. Enter("TCPClient_stop", "down")
      BY <1>10 DEF Welcomed, Call
    <3>3. at \in Mains /\ "down" \in Mains /\ Calls("down", "TCPClient_stop") /\ "TCPClient_stop" \in Routines
      BY <1>1 DEF Mains, Calls, Stops, Routines
    <3>4. Landed("TCPClient_stop", "down", "down")
      BY <3>2, <3>3, CallLands
    <3> QED
      BY <1>10, <3>4 DEF Welcomed, Landed, flags
  <2>2. Welcome'
    BY <2>1 DEF Welcome, Handshake, Dialling, Unwritten
  <2>3. ~connected /\ handed = NoMsg
    BY <1>1 DEF DInv, Handed, Dialling, Handshake
  <2>4. Handed'
    BY <1>2, <2>1, <2>3 DEF Handed, DInv
  <2>5. Pinging'
    BY <2>1, <2>3 DEF Pinging
  <2> QED
    BY <1>5, <1>6, <1>8, <2>2, <2>4, <2>5 DEF DInv
<1> QED
  BY <1>9, <1>10

LEMMA DispatchData ==
  ASSUME Ordinary, CInv, DInv, Dispatch PROVE DInv'
<1>0. PlainStep
  BY DEF PlainStep
<1>1. at = "dispatch" /\ Main = at /\ Here = at /\ result > 0
  BY <1>0, PlainAt DEF Dispatch
<1>2. Quiet /\ UNCHANGED <<due, granted, garbled, connected>>
  BY <1>0, PlainQuiet DEF Dispatch
<1>3. /\ Held' = Held
      /\ at' \notin {"welcomed", "dispatch", "TCPRxFlush", "TCPWrite", "pinged"}
      /\ Here' # "hello" /\ Moves(at', Here', Main')
  BY <1>0, PlainDoes
<1>4. Through
  BY DEF Dispatch
<1>5. Sync'
  BY <1>1, <1>2, <1>3, <1>4, ThroughSync DEF Quiet
<1>6. Packets'
  BY <1>0, PlainPackets
<1>7. /\ log' \in Seq(Sent)
      /\ \A k \in 1 .. Len(log') : log'[k] = log[k + 1] /\ k + 1 \in 1 .. Len(log)
      /\ \A k \in 1 .. Len(log') :
            /\ log'[k].type = PUBLISH => log'[k].msg \in Messages
            /\ log'[k].type # PUBLISH => log'[k].msg = NoMsg
            /\ log'[k].type = SUBACK => k = Len(log')
  BY <1>4, ThroughServed DEF DInv
<1>8. packet # <<>> /\ packet \in Seq(Nat)
  BY <1>1 DEF CInv, Reader, Types
<1>9. log # <<>> /\ FrameOf(log[1], packet) /\ log \in Seq(Sent)
  BY <1>1, <1>8, TakesFirst DEF DInv, Served
<1>10. 1 \in 1 .. Len(log) /\ log[1] \in Sent /\ At(1) = log[1].type
  <2>1. Len(log) \in Nat \ {0} /\ Len(packet) \in Nat \ {0}
    BY <1>8, <1>9
  <2>2. 1 \in 1 .. Len(log) /\ 1 <= Len(packet)
    BY <2>1
  <2>3. packet[1] = log[1].type
    BY <1>9 DEF FrameOf
  <2> QED
    BY <1>9, <2>2, <2>3 DEF At
<1>11. Main \notin Dialling /\ Main' \notin Dialling
  BY <1>1, <1>3 DEF Dialling, Handshake, Moves
<1>12. ASSUME OtherPacket PROVE log' = <<>>
  <2>1. log[1].type \in {CONNACK, SUBACK}
    BY <1>10, <1>12 DEF OtherPacket, Sent
  <2>2. log[1].type # CONNACK
    BY <1>10, <1>11 DEF DInv, Welcome
  <2>3. Len(log) = 1
    BY <1>10, <2>1, <2>2 DEF DInv, Served
  <2>4. Len(log') = 0
    BY <1>7, <2>3
  <2> QED
    BY <1>7, <2>4, EmptySeq
<1>13. Served'
  <2>1. Flushing' => log' = <<>>
    BY <1>3, <1>12 DEF Flushing, Moves
  <2> QED
    BY <1>2, <1>7, <2>1 DEF DInv, Served
<1>14. Welcome'
  <2>1. \A k \in 1 .. Len(log') : log'[k].type # CONNACK
    BY <1>7, <1>11 DEF DInv, Welcome
  <2>2. \A k \in 1 .. Len(due) : due[k] # CONNACK
    BY <1>11 DEF DInv, Welcome
  <2>3. ~Unwritten'
    BY <1>1, <1>3 DEF Unwritten, Moves
  <2>4. Main' \notin Handshake
    BY <1>11 DEF Dialling
  <2> QED
    BY <1>2, <1>3, <1>11, <2>1, <2>2, <2>3, <2>4 DEF Welcome
<1>15. Handed'
  <2>1. handed = NoMsg
    BY <1>1 DEF DInv, Handed
  <2>2. handed' # NoMsg => at' = "callback"
    BY <2>1 DEF Dispatch, Deliver, TopicTooLong, AnswerPing, PingAnswered, OtherPacket, Then
  <2> QED
    BY <1>2, <1>11, <2>2 DEF Handed, DInv
<1>16. Pinging'
  <2>1. ASSUME pingOutstanding', Answering PROVE Answering'
    <3>1. At(1) # PINGRESP
      <4> SUFFICES ASSUME At(1) = PINGRESP PROVE FALSE
        OBVIOUS
      <4>1. PingAnswered
        BY DEF Dispatch, Deliver, TopicTooLong, AnswerPing, OtherPacket, PUBLISH, PINGREQ, PINGRESP
      <4> QED
        BY <2>1, <4>1 DEF PingAnswered
    <3>2. CASE Contains(due, PINGRESP)
      BY <1>2, <3>2 DEF Answering
    <3>3. CASE Unread(PINGRESP)
      <4>1. PICK k \in 1 .. Len(log) : log[k].type = PINGRESP
        BY <1>9, <3>3 DEF Unread
      <4>2. k # 1
        BY <1>10, <3>1, <4>1
      <4>3. k - 1 \in 1 .. Len(log') /\ (k - 1) + 1 = k
        BY <1>4, <1>9, <4>1, <4>2, ThroughIs DEF Through
      <4>4. log'[k - 1].type = PINGRESP
        BY <1>7, <4>1, <4>3
      <4> QED
        BY <1>7, <4>3, <4>4 DEF Answering, Unread
    <3> QED
      BY <2>1, <3>2, <3>3 DEF Answering
  <2>2. pingOutstanding' => pingOutstanding
    BY DEF Dispatch, Deliver, TopicTooLong, AnswerPing, PingAnswered, OtherPacket
  <2>3. link' = link /\ ~(Here' = "pinged" /\ Reached')
    BY <1>2, <1>3 DEF Quiet, Reached
  <2> QED
    BY <1>2, <2>1, <2>2, <2>3 DEF DInv, Pinging
<1> QED
  BY <1>5, <1>6, <1>13, <1>14, <1>15, <1>16 DEF DInv

----------------------------------------------------------------------------
(* Reading, dialling and writing.                                          *)

(* The steps that read or write, for what concerns the server.              *)
LEMMA ServerIdle ==
  ASSUME Served, Welcome, Handed, Pinging,
         UNCHANGED <<log, due, granted, connected, handed, garbled, pingOutstanding, link>>,
         Main' = Main \/ (Main \notin Dialling /\ Main' \notin Dialling),
         ~Flushing', Here' \notin {"hello", "greeted", "pinged"}, at # "callback"
  PROVE  Served' /\ Welcome' /\ Handed' /\ Pinging'
<1>1. Served'
  BY DEF Served
<1>2. Welcome'
  BY DEF Welcome, Unwritten, Dialling
<1>3. Handed'
  BY DEF Handed
<1>4. Pinging'
  BY DEF Pinging, Answering, Unread
<1> QED
  BY <1>1, <1>2, <1>3, <1>4

LEMMA MQTTClient_connectData ==
  ASSUME CInv, DInv, MQTTClient_connect PROVE DInv'
<1>0. at = "MQTTClient_connect" /\ at \in Mains /\ Here = at /\ Main = at
  BY AtMain DEF MQTTClient_connect, Mains
<1>1. ~number /\ result = -1
  BY <1>0 DEF CInv, Numbered, Failing, Askers
<1>2. Enter("TCPClient_connect", "hello") /\ TCPClient_init
  BY <1>1 DEF MQTTClient_connect, Call
<1>3. Landed("TCPClient_connect", "hello", "hello")
  <2>1. "TCPClient_connect" \in Routines /\ "hello" \in Mains /\ Calls("hello", "TCPClient_connect")
    BY DEF Mains, Calls, Askers, Pollers, Writers, Stops, Failing, Routines
  <2> QED
    BY <1>0, <1>2, <2>1, CallLands
<1>4. /\ number' = FALSE
      /\ UNCHANGED <<packet, rd, connected, pingOutstanding, due, granted, garbled, log, handed, link>>
  BY <1>1, <1>2 DEF MQTTClient_connect, TCPClient_init, Local, Others, Then, Call, Enter, timers, reader, flags, server, peer
<1>5. at' = "TCPClient_connect" /\ Here' = "hello" /\ Main' = "hello"
  BY <1>3 DEF Landed
<1>6. Sync'
  BY <1>4 DEF Sync
<1>7. Packets'
  BY <1>4, <1>5 DEF DInv, Packets, Reading
<1>8. Served' /\ Welcome'
  BY <1>4, <1>5 DEF DInv, Served, Flushing, Welcome, Unwritten, Handshake, Dialling
<1>9. Handed' /\ Pinging'
  BY <1>0, <1>4, <1>5 DEF DInv, Handed, Pinging, Dialling
<1> QED
  BY <1>6, <1>7, <1>8, <1>9 DEF DInv

LEMMA WriteStepsData ==
  ASSUME Ordinary, CInv, DInv, Wrote \/ MQTTClient_publish PROVE DInv'
<1>0. at \in {"subscribed", "published", "MQTTClient_publish"} /\ Main \notin Dialling
  BY AtMain, AtPublishing DEF Wrote, MQTTClient_publish, Publishing, Mains, Dialling, Handshake
<1>1. PICK a, p, m : /\ Landed(a, p, m) /\ Proper(a, p)
                     /\ p \in Publishing \cup {"subscribe", "loop", "top"}
                     /\ m \in {"subscribe", "loop", "top"}
  BY WriteStepsLand
<1>2. /\ at' = a /\ Here' = p /\ Main' = m /\ Main' \notin Dialling
      /\ a \in Routines \/ a = p
  BY <1>1 DEF Landed, Here, HereOf, Dialling, Handshake
<1>3. /\ UNCHANGED <<number, buff, size, idx, link, rcv, wire>>
      /\ UNCHANGED <<packet, rd, connected, pingOutstanding, due, granted, garbled, log, handed>>
  BY DEF Wrote, MQTTClient_publish, Still, Local, Others, reader, flags, server, socket, block, peer
<1>4. at' \in {"TCPClient_connected", "TCPCheckStatus", "TCPClient_write", "TCPClient_stop"}
                \cup Publishing \cup {"subscribe", "loop", "top"}
  <2>1. at' # "TCPClient_flush"
    <3>1. at \in Publishing => Head(stack) \in {"loop", "top"}
      BY AtPublishing
    <3> QED
      BY <1>0, <3>1 DEF Wrote, MQTTClient_publish, Then, Return, Write, Enter, Publishing
  <2> QED
    BY <1>1, <1>2, <2>1 DEF Proper, Entries
<1>5. Held' = Held
  BY <1>0, <1>3, <1>4 DEF Held, Publishing
<1>6. Sync'
  BY <1>3, <1>5, SyncStays DEF DInv
<1>7. Packets'
  BY <1>1, <1>2, <1>3, <1>4 DEF DInv, Packets, Reading, Publishing
<1>8. Served' /\ Welcome' /\ Handed' /\ Pinging'
  BY <1>0, <1>1, <1>2, <1>3, <1>4, ServerIdle DEF DInv, Flushing, Publishing
<1> QED
  BY <1>6, <1>7, <1>8 DEF DInv

LEMMA MQTTClient_readPacketData ==
  ASSUME CInv, DInv, MQTTClient_readPacket PROVE DInv'
<1>0. at = "MQTTClient_readPacket" /\ at \in Reading /\ Here = at
  BY AtReading DEF MQTTClient_readPacket, Reading
<1>1. at' = "MQTTClient_readByte" /\ stack' = stack /\ packet' = <<>> /\ rd' = NoPacket
  BY DEF MQTTClient_readPacket, Then
<1>2. Landed("MQTTClient_readByte", "MQTTClient_readByte", Main)
  BY <1>0, <1>1, StepLands DEF Reading
<1>3. /\ UNCHANGED <<number, buff, size, idx, link, rcv, wire>>
      /\ UNCHANGED <<connected, pingOutstanding, due, granted, garbled, log, handed>>
  BY DEF MQTTClient_readPacket, Still, Local, Other, flags, server, socket, block, peer
<1>4. packet' = packet /\ Held' = Held
  BY <1>0, <1>1, <1>3 DEF CInv, Reader, Held
<1>5. Sync'
  BY <1>3, <1>4, SyncStays DEF DInv
<1>6. Packets'
  BY <1>1, NothingRead DEF Packets
<1>7. Here' = "MQTTClient_readByte" /\ Main' = Main
  BY <1>2 DEF Landed
<1>8. Served' /\ Welcome' /\ Handed' /\ Pinging'
  BY <1>0, <1>1, <1>3, <1>7, ServerIdle DEF DInv, Flushing
<1> QED
  BY <1>5, <1>6, <1>8 DEF DInv

(* The client moves a byte from its block to the packet.                    *)
LEMMA ByteMoves ==
  ASSUME Ordinary, CInv, at = "MQTTClient_readByte", size > 0, Take
  PROVE  /\ buff[idx] \in Nat
         /\ \E v \in Seq(Nat) :
              /\ Held = <<buff[idx]>> \o v
              /\ at' # "TCPRead" => Held' = v
<1>0. /\ size \in Nat \ {0} /\ idx \in Nat /\ idx + size <= TCP_MAX_BUF_SIZE
      /\ buff \in [0 .. TCP_MAX_BUF_SIZE - 1 -> Nat] /\ TCP_MAX_BUF_SIZE \in Nat
  BY BlockSize DEF CInv, Types
<1>1. /\ size' = size - 1 /\ idx' = (IF size = 1 THEN 0 ELSE idx + 1)
      /\ buff' = [buff EXCEPT ![idx] = 0]
  BY DEF Take, Ordinary
<1>2. /\ buff[idx] \in Nat
      /\ Bytes(buff, idx, size) = <<buff[idx]>> \o Bytes(buff', idx + 1, size - 1)
  <2>0. PICK c, y, z : c = buff' /\ y = size - 1 /\ z = idx + 1
    OBVIOUS
  <2>1. c = [buff EXCEPT ![idx] = 0]
    BY <1>1, <2>0
  <2>2. buff[idx] \in Nat /\ Bytes(buff, idx, size) = <<buff[idx]>> \o Bytes(c, z, y)
    <3>1. Forgets(TCP_MAX_BUF_SIZE, buff, idx, size, c, z, y)
      BY <1>0, <2>0, <2>1 DEF Forgets
    <3> QED
      BY <3>1, FirstByte
  <2> QED
    BY <2>0, <2>2
<1>3. Held = Bytes(buff, idx, size)
  BY DEF Held
<1>4. Bytes(buff', idx', size') = Bytes(buff', idx + 1, size - 1)
  <2>1. CASE size = 1
    <3>1. size' = 0 /\ size - 1 = 0
      BY <1>1, <2>1
    <3>2. Bytes(buff', idx', 0) = <<>> /\ Bytes(buff', idx + 1, 0) = <<>>
      BY NoBytes
    <3> QED
      BY <3>1, <3>2
  <2>2. CASE size # 1
    BY <1>1, <2>2
  <2> QED
    BY <2>1, <2>2
<1>5. at' # "TCPRead" => Held' = Bytes(buff', idx + 1, size - 1)
  BY <1>4 DEF Held
<1>6. Bytes(buff', idx + 1, size - 1) \in Seq(Nat)
  <2> DEFINE y == size - 1
             z == idx + 1
  <2>1. y \in Nat /\ z \in Nat /\ z + y <= TCP_MAX_BUF_SIZE
    BY <1>0
  <2>2. buff' \in [0 .. TCP_MAX_BUF_SIZE - 1 -> Nat]
    BY <1>0, <1>1
  <2> HIDE DEF y, z
  <2>3. \A i \in 1 .. y : buff'[z + i - 1] \in Nat
    <3> SUFFICES ASSUME NEW i \in 1 .. y PROVE buff'[z + i - 1] \in Nat
      OBVIOUS
    <3>1. z + i - 1 \in 0 .. TCP_MAX_BUF_SIZE - 1
      BY <1>0, <2>1
    <3> QED
      BY <2>2, <3>1
  <2>4. Bytes(buff', z, y) \in Seq(Nat)
    BY <2>1, <2>3 DEF Bytes
  <2> QED
    BY <2>4 DEF y, z
<1> QED
  BY <1>2, <1>3, <1>5, <1>6

(* The byte is the next one of the packet the server sent.                  *)
LEMMA ByteExpected ==
  ASSUME CInv, DInv, at = "MQTTClient_readByte", number,
         NEW b \in Nat, NEW v \in Seq(Nat), Held = <<b>> \o v
  PROVE  \E f : /\ Framing(f) /\ Agree(packet, f) /\ Len(packet) < Len(f)
                /\ f[Len(packet) + 1] = b
<1> DEFINE h == <<b>>
           w == rcv \o wire
           x == v \o w
           u == h \o x
<1>1. packet \in Seq(Nat) /\ h \in Seq(Nat) /\ w \in Seq(Nat) /\ rd \in Reads /\ log \in Seq(Sent)
  BY FlowIs DEF CInv, Types, DInv, Served
<1>2. Partial(packet, rd)
  <2>1. Here \in Reading
    BY AtReading DEF Reading
  <2> QED
    BY <2>1 DEF DInv, Packets
<1>3. In(log, packet \o (Held \o w), link)
  BY DEF DInv, Sync, Flow
<1> HIDE DEF h, w
<1>4. x \in Seq(Nat) /\ (h \o v) \o w = h \o (v \o w)
  <2>1. v \o w \in Seq(Nat)
    BY <1>1, ConcatType
  <2>2. (h \o v) \o w = h \o (v \o w)
    <3>1. AreLists(h, v, w)
      BY <1>1 DEF AreLists
    <3> QED
      BY <3>1, ListsConcat
  <2> QED
    BY <2>1, <2>2
<1>5. Held \o w = u
  BY <1>4 DEF h
<1> HIDE DEF x
<1>6. u \in Seq(Nat)
  BY <1>1, <1>4, ConcatType
<1>7. u = <<b>> \o x /\ In(log, packet \o u, link)
  BY <1>3, <1>5 DEF h
<1> HIDE DEF u
<1>8. NextByte(Sent, log, packet, u, x, b, rd, link)
  BY <1>1, <1>2, <1>4, <1>6, <1>7 DEF NextByte
<1> QED
  BY <1>8, InByte

(* And the stream is the same, a byte further.                              *)
LEMMA ByteStays ==
  ASSUME NEW p \in Seq(Nat), NEW b \in Nat, NEW v \in Seq(Nat), NEW w \in Seq(Nat)
  PROVE  Append(p, b) \o (v \o w) = p \o ((<<b>> \o v) \o w)
<1> DEFINE h == <<b>>
           q == Append(p, b)
           x == v \o w
<1>1. AreLists(h, v, w) /\ x \in Seq(Nat) /\ h \in Seq(Nat)
  BY DEF AreLists
<1>2. q = p \o h
  OBVIOUS
<1> HIDE DEF h, q
<1>3. (h \o v) \o w = h \o x
  BY <1>1, ListsConcat
<1> HIDE DEF x
<1>4. AreLists(p, h, x)
  BY <1>1 DEF AreLists
<1>5. (p \o h) \o x = p \o (h \o x)
  BY <1>4, ListsConcat
<1>6. q \o x = p \o ((h \o v) \o w)
  BY <1>2, <1>3, <1>5
<1> QED
  BY <1>6 DEF h, q, x

LEMMA ByteIsRead ==
  ASSUME Ordinary, CInv, DInv, MQTTClient_readByte, size > 0
  PROVE  Sync' /\ Packets' /\ number /\ UNCHANGED number
<1>0. at = "MQTTClient_readByte" /\ at \in Reading /\ Here = at
  BY AtReading DEF MQTTClient_readByte, Reading
<1>1. Take /\ Store(buff[idx], FALSE)
  BY DEF MQTTClient_readByte
<1>2. buff[idx] \in Nat
  BY <1>0, <1>1, ByteMoves
<1>3. PICK v \in Seq(Nat) : Held = <<buff[idx]>> \o v /\ (at' # "TCPRead" => Held' = v)
  BY <1>0, <1>1, ByteMoves
<1>4. number
  BY <1>0 DEF CInv, Blocks
<1>5. PICK b \in Nat : b = buff[idx]
  BY <1>2
<1>6. PICK f : /\ Framing(f) /\ Agree(packet, f) /\ Len(packet) < Len(f)
               /\ f[Len(packet) + 1] = b
  BY <1>0, <1>3, <1>4, <1>5, ByteExpected
<1>7. packet \in Seq(Nat) /\ rd \in Reads /\ Partial(packet, rd)
  BY <1>0 DEF CInv, Types, DInv, Packets
<1>8. packet' = Append(packet, b) /\ Grown /\ Len(packet') <= MQTT_MAX_PACKET_SIZE
  BY <1>1, <1>5, <1>6, <1>7, ReadOn
<1>9. packet' # <<>>
  BY <1>7, <1>8
<1>10. \/ at' = "MQTTClient_readByte" /\ stack' = stack /\ rd'.part # "header"
       \/ at' = Head(stack) /\ stack' = Tail(stack) /\ rd' = NoPacket
  BY <1>1, <1>2, StoreDoes
<1>11. /\ UNCHANGED <<number, link, rcv, wire, log>>
  BY DEF MQTTClient_readByte, Local, Other, socket, peer
<1>12. Head(stack) \in {"welcomed", "dispatch"} /\ Main = Head(stack)
  BY <1>0, AtReading
<1>13. at' # "TCPRead"
  BY <1>10, <1>12
<1>14. Sync'
  <2> DEFINE w == rcv \o wire
  <2>1. w \in Seq(Nat)
    BY FlowIs
  <2>2. Flow' = packet' \o (Held' \o w)
    BY <1>11 DEF Flow
  <2>3. Flow = packet \o (Held \o w)
    BY DEF Flow
  <2> HIDE DEF w
  <2>4. Append(packet, b) \o (v \o w) = packet \o ((<<b>> \o v) \o w)
    BY <1>7, <2>1, ByteStays
  <2>5. Flow' = Flow
    BY <1>3, <1>5, <1>8, <1>13, <2>2, <2>3, <2>4
  <2> QED
    BY <1>11, <2>5 DEF DInv, Sync
<1>15. Packets'
  <2>1. CASE at' = "MQTTClient_readByte" /\ stack' = stack /\ rd'.part # "header"
    <3>1. Partial(packet', rd')
      BY <1>8, <2>1 DEF Grown, NoPacket
    <3> QED
      BY <1>8, <2>1, <3>1 DEF Packets
  <2>2. CASE at' = Head(stack) /\ stack' = Tail(stack) /\ rd' = NoPacket
    <3>1. Landed(Main, Main, Main)
      BY <1>0, <2>2, ReturnLands
    <3>2. Here' \notin Reading
      BY <1>12, <3>1 DEF Landed, Reading
    <3>3. Framing(packet')
      BY <1>8, <1>9, <2>2 DEF Grown, Partial, NoPacket
    <3> QED
      BY <1>8, <1>9, <3>2, <3>3 DEF Packets
  <2> QED
    BY <1>10, <2>1, <2>2
<1> QED
  BY <1>4, <1>11, <1>14, <1>15

LEMMA MQTTClient_readByteData ==
  ASSUME Ordinary, CInv, DInv, MQTTClient_readByte PROVE DInv'
<1>0. at = "MQTTClient_readByte" /\ at \in Reading /\ Here = at
  BY AtReading DEF MQTTClient_readByte, Reading
<1>1. UNCHANGED <<number, link, rcv, wire, connected, pingOutstanding, due, granted, garbled, log, handed>>
  BY DEF MQTTClient_readByte, Local, Other, flags, server, socket, peer
<1>2. Head(stack) \in {"welcomed", "dispatch"} /\ Main = Head(stack)
  BY <1>0, AtReading
<1>3. CASE size > 0
  <2>1. Sync' /\ Packets'
    BY <1>3, ByteIsRead
  <2>2. PICK b \in Nat : Store(b, FALSE)
    BY <1>0, <1>3, ByteMoves DEF MQTTClient_readByte
  <2>3. \/ at' = "MQTTClient_readByte" /\ stack' = stack
        \/ at' = Head(stack) /\ stack' = Tail(stack)
    BY <2>2, StoreDoes
  <2>4. /\ at' = "MQTTClient_readByte" \/ at' = Main
        /\ Here' = at' /\ Main' = Main
    <3>1. CASE at' = "MQTTClient_readByte" /\ stack' = stack
      BY <1>0, <3>1, StepLands DEF Landed, Reading
    <3>2. CASE at' = Head(stack) /\ stack' = Tail(stack)
      BY <1>0, <3>2, ReturnLands DEF Landed
    <3> QED
      BY <2>3, <3>1, <3>2
  <2>5. ~Flushing' /\ Here' \notin {"hello", "greeted", "pinged"} /\ at # "callback"
    BY <1>0, <1>2, <2>4 DEF Flushing
  <2>6. Served' /\ Welcome' /\ Handed' /\ Pinging'
    BY <1>1, <2>4, <2>5, ServerIdle DEF DInv
  <2> QED
    BY <2>1, <2>6 DEF DInv
<1>4. CASE ~(size > 0)
  <2>1. Enter("TCPCheckStatus", "available") /\ packet' = packet /\ rd' = rd /\ UNCHANGED block
    BY <1>4 DEF MQTTClient_readByte, Call, reader
  <2>2. /\ "TCPCheckStatus" \in Routines /\ "available" \in Reading
        /\ Calls("available", "TCPCheckStatus")
    BY DEF Reading, Calls, Pollers, Routines
  <2>3. Landed("TCPCheckStatus", "available", Main)
    BY <1>0, <2>1, <2>2, InnerCallLands
  <2>4. at' = "TCPCheckStatus" /\ Here' = "available" /\ Main' = Main
    BY <2>3 DEF Landed
  <2>5. Held' = Held
    BY <1>0, <2>1, <2>4 DEF Held, block
  <2>6. Sync'
    BY <1>1, <2>1, <2>5, SyncStays DEF DInv
  <2>7. Packets'
    BY <1>0, <2>1, <2>4 DEF DInv, Packets, Reading
  <2>8. Served' /\ Welcome' /\ Handed' /\ Pinging'
    BY <1>0, <1>1, <2>4, ServerIdle DEF DInv, Flushing
  <2> QED
    BY <2>6, <2>7, <2>8 DEF DInv
<1> QED
  BY <1>3, <1>4

(* A packet is given up only when the rest of it is lost.                   *)
LEMMA GivenUp ==
  ASSUME Ordinary, CInv, DInv, at = "available", ~(result > 0), Late, number
  PROVE  ~link /\ rcv = <<>> /\ size = 0
<1>0. at \in Reading /\ Here = at
  BY AtReading DEF Reading
<1>1. wire = <<>> /\ rcv = <<>>
  BY DEF Late, Ordinary
<1>2. size = 0
  BY <1>0 DEF CInv, Blocks, Pollers
<1>3. Held = <<>>
  BY <1>2, HeldIs
<1>4. packet \in Seq(Nat) /\ rd \in Reads /\ Partial(packet, rd) /\ rd.part # "header"
  BY <1>0 DEF CInv, Types, Reader, DInv, Packets
<1>5. packet # <<>>
  <2> SUFFICES ASSUME packet = <<>> PROVE FALSE
    OBVIOUS
  <2>1. Len(packet) = 0
    BY Nothing
  <2>2. rd = NoPacket
    BY <1>4, <2>1 DEF Partial
  <2> QED
    BY <1>4, <2>2 DEF NoPacket
<1>6. Flow = packet
  <2> DEFINE e == <<>>
  <2>1. e \in Seq(Nat) /\ \A s \in Seq(Nat) : s \o e = s
    BY ConcatEmpty, Nothing
  <2>2. Flow = packet \o (e \o (e \o e))
    BY <1>1, <1>3 DEF Flow
  <2> HIDE DEF e
  <2> QED
    BY <1>4, <2>1, <2>2
<1>7. In(log, packet, link) /\ log \in Seq(Sent)
  BY <1>6 DEF DInv, Sync, Served
<1>8. ~link
  BY <1>4, <1>5, <1>7, InStuck
<1> QED
  BY <1>1, <1>2, <1>8

LEMMA AvailableData ==
  ASSUME Ordinary, CInv, DInv, Available PROVE DInv'
<1>0. at = "available" /\ at \in Reading /\ Here = at
  BY AtReading DEF Available, Reading
<1>1. UNCHANGED <<number, buff, size, idx, link, rcv, wire, connected, pingOutstanding, due, granted, garbled, log, handed>>
  BY DEF Available, Still, Local, Other, flags, server, socket, block, peer
<1>2. Head(stack) \in {"welcomed", "dispatch"} /\ Main = Head(stack)
  BY <1>0, AtReading
<1>3. CASE result > 0
  <2>1. at' = "MQTTClient_readByte" /\ stack' = stack /\ packet' = packet /\ rd' = rd
    BY <1>3 DEF Available, Then, reader
  <2>2. Landed("MQTTClient_readByte", "MQTTClient_readByte", Main)
    BY <1>0, <2>1, StepLands DEF Reading
  <2>3. Here' = "MQTTClient_readByte" /\ Main' = Main
    BY <2>2 DEF Landed
  <2>4. Held' = Held
    BY <1>0, <1>1, <2>1 DEF Held
  <2>5. Sync'
    BY <1>1, <2>1, <2>4, SyncStays DEF DInv
  <2>6. Packets'
    BY <1>0, <2>1, <2>3 DEF DInv, Packets, Reading
  <2>7. Served' /\ Welcome' /\ Handed' /\ Pinging'
    BY <1>0, <1>1, <2>1, <2>3, ServerIdle DEF DInv, Flushing
  <2> QED
    BY <2>5, <2>6, <2>7 DEF DInv
<1>4. CASE ~(result > 0) /\ waited > ReadTimeout /\ Late
  <2>1. Store(0, TRUE)
    BY <1>4 DEF Available
  <2>2. /\ packet' = <<>> /\ at' = Head(stack) /\ stack' = Tail(stack) /\ rd' = NoPacket
    BY <1>0, <2>1, StoreDoes DEF CInv, Reader
  <2>3. Landed(Main, Main, Main) /\ Main \in {"welcomed", "dispatch"}
    BY <1>0, <1>2, <2>2, ReturnLands
  <2>4. at' = Main /\ Here' = Main /\ Main' = Main
    BY <2>3 DEF Landed
  <2>5. number => ~link /\ rcv = <<>> /\ size = 0
    BY <1>0, <1>4, GivenUp
  <2>6. Held' = Held
    BY <1>0, <1>1, <1>2, <2>2 DEF Held
  <2>7. Sync'
    <3> SUFFICES ASSUME number PROVE In(log, Flow', link)
      BY <1>1 DEF Sync
    <3>1. packet \in Seq(Nat) /\ Held = <<>> /\ rcv = <<>> /\ wire = <<>> /\ ~link
      BY <1>0, <2>5, HeldIs DEF CInv, Types, Sockets
    <3> DEFINE e == <<>>
               g == e \o (e \o e)
    <3>2. e \in Seq(Nat) /\ \A s \in Seq(Nat) : s \o e = s
      BY ConcatEmpty, Nothing
    <3>3. Flow = packet \o g
      BY <3>1 DEF Flow
    <3>4. Flow' = e \o g
      BY <1>1, <2>2, <2>6, <3>1 DEF Flow
    <3>5. packet = e \o packet
      BY <3>1, ConcatEmpty
    <3> HIDE DEF e
    <3>6. g = e
      BY <3>2
    <3> HIDE DEF g
    <3>7. Flow = e \o packet /\ Flow' = e
      BY <3>1, <3>2, <3>3, <3>4, <3>5, <3>6
    <3>8. In(log, e \o packet, link) /\ log \in Seq(Sent)
      BY <3>7 DEF DInv, Sync, Served
    <3>9. In(log, e, FALSE)
      BY <3>1, <3>2, <3>8, InCut
    <3>10. link = FALSE
      BY <3>1 DEF CInv, Types
    <3> QED
      BY <3>7, <3>9, <3>10
  <2>8. Packets'
    <3>1. Len(packet') <= MQTT_MAX_PACKET_SIZE
      BY <2>2, NothingRead
    <3> QED
      BY <1>1, <2>2, <2>3, <2>4, <2>5, <3>1 DEF Packets, Reading
  <2>9. Served' /\ Welcome' /\ Handed' /\ Pinging'
    BY <1>0, <1>1, <2>3, <2>4, ServerIdle DEF DInv, Flushing
  <2> QED
    BY <2>7, <2>8, <2>9 DEF DInv
<1>5. CASE ~(result > 0) /\ ~(waited > ReadTimeout /\ Late)
  <2>1. Enter("TCPCheckStatus", "available") /\ packet' = packet /\ rd' = rd
    BY <1>5 DEF Available, Call, reader
  <2>2. /\ "TCPCheckStatus" \in Routines /\ "available" \in Reading
        /\ Calls("available", "TCPCheckStatus")
    BY DEF Reading, Calls, Pollers, Routines
  <2>3. Landed("TCPCheckStatus", "available", Main)
    BY <1>0, <2>1, <2>2, InnerCallLands
  <2>4. at' = "TCPCheckStatus" /\ Here' = "available" /\ Main' = Main
    BY <2>3 DEF Landed
  <2>5. Held' = Held
    BY <1>0, <1>1, <2>4 DEF Held
  <2>6. Sync'
    BY <1>1, <2>1, <2>5, SyncStays DEF DInv
  <2>7. Packets'
    BY <1>0, <2>1, <2>4 DEF DInv, Packets, Reading
  <2>8. Served' /\ Welcome' /\ Handed' /\ Pinging'
    BY <1>0, <1>1, <2>4, ServerIdle DEF DInv, Flushing
  <2> QED
    BY <2>6, <2>7, <2>8 DEF DInv
<1> QED
  BY <1>3, <1>4, <1>5

LEMMA FlyportTaskData ==
  ASSUME Ordinary, CInv, DInv, FlyportTask PROVE DInv'
<1>1. CASE Tcp /\ UNCHANGED mqttVars
  BY <1>1, TcpData
<1>2. CASE Welcomed
  BY <1>2, WelcomedData
<1>3. CASE Dispatch
  BY <1>3, DispatchData
<1>4. CASE PlainStep /\ ~Welcomed /\ ~Dispatch
  BY <1>4, PlainData
<1>5. CASE MQTTClient_readPacket
  BY <1>5, MQTTClient_readPacketData
<1>6. CASE MQTTClient_readByte
  BY <1>6, MQTTClient_readByteData
<1>7. CASE Available
  BY <1>7, AvailableData
<1>8. CASE MQTTClient_connect
  BY <1>8, MQTTClient_connectData
<1>9. CASE Wrote \/ MQTTClient_publish
  BY <1>9, WriteStepsData
<1> QED
  BY <1>1, <1>2, <1>3, <1>4, <1>5, <1>6, <1>7, <1>8, <1>9 DEF FlyportTask, PlainStep

----------------------------------------------------------------------------
(* The modem.                                                              *)

----------------------------------------------------------------------------
(* The steps of the others: FlyportTask is where it was.                    *)
LEMMA OthersMove ==
  ASSUME CInv, DInv,
         UNCHANGED <<at, stack, result, size, packet, rd, connected, pingOutstanding,
                     log, due, granted, handed, garbled>>,
         number' => number, link' => link,
         verdict' = "pending" => verdict = "pending",
         at = "TCPWrite" /\ verdict' = "success" => verdict = "success" \/ ~link',
         at \in {"welcomed", "dispatch"} => rcv' = rcv \/ rcv' = <<>>
  PROVE  Packets' /\ Served' /\ Welcome' /\ Handed' /\ Pinging'
<1>0. Here' = Here /\ Main' = Main
  BY StaysPut
<1>1. Packets'
  BY <1>0 DEF DInv, Packets
<1>2. Served'
  BY DEF DInv, Served, Flushing
<1>3. Welcome'
  BY <1>0 DEF DInv, Welcome, Unwritten
<1>4. Handed'
  BY <1>0 DEF DInv, Handed
<1>5. Pinging'
  BY <1>0 DEF DInv, Pinging, Answering, Unread, Reached
<1> QED
  BY <1>1, <1>2, <1>3, <1>4, <1>5

(* The modem settles a request without touching what it has received.       *)
LEMMA VerdictsData ==
  ASSUME Ordinary, CInv, DInv, UNCHANGED mqttVars,
         ConfigDone \/ OpenLeaks \/ WriteDone(FALSE) \/ CallFails
  PROVE  DInv'
<1>1. UNCHANGED <<at, stack, result, buff, size, idx, rcv, wire, link, len, packet, rd, connected,
                  pingOutstanding, log, due, granted, handed, garbled>>
  BY DEF ConfigDone, OpenLeaks, WriteDone, CallFails, Verdict, control, socket, block, request, modem, peer, mqttVars, timers, reader, flags, server
<1>2. number' => number
  BY DEF ConfigDone, OpenLeaks, WriteDone, CallFails, socket
<1>3. verdict' \in {"success", "failure"}
  BY DEF ConfigDone, OpenLeaks, WriteDone, CallFails, Verdict
<1>4. CASE ConfigDone \/ OpenLeaks
  <2>1. at \in {"APNConfig", "TCPClientOpen"}
    BY <1>4, Waits DEF ConfigDone, OpenLeaks, Pending
  <2>2. Held' = Held
    BY <1>1, <2>1 DEF Held
  <2>3. Sync'
    BY <1>1, <1>2, <2>2, SyncStays DEF DInv
  <2> QED
    BY <1>1, <1>2, <1>3, <2>1, <2>3, OthersMove DEF DInv
<1>5. CASE WriteDone(FALSE)
  <2>1. at = "TCPWrite" /\ ~link
    BY <1>5, Waits DEF WriteDone, Pending, CInv, Types
  <2>2. Held' = Held
    BY <1>1, <2>1 DEF Held
  <2>3. Sync'
    BY <1>1, <1>2, <2>2, SyncStays DEF DInv
  <2> QED
    BY <1>1, <1>2, <1>3, <2>1, <2>3, OthersMove DEF DInv
<1>6. CASE CallFails
  <2>1. verdict = "pending" /\ verdict' = "failure"
    BY <1>6 DEF CallFails, CannotDo, Verdict, Pending
  <2>2. Held' = Held
    BY <1>1, <2>1 DEF Held
  <2>3. Sync'
    BY <1>1, <1>2, <2>2, SyncStays DEF DInv
  <2> QED
    BY <1>1, <1>2, <2>1, <2>3, OthersMove DEF DInv
<1> QED
  BY <1>4, <1>5, <1>6

LEMMA SplitIs ==
  ASSUME NEW s \in Seq(Nat), NEW k \in 0 .. Len(s), NEW a \in Seq(Nat), Len(a) = k,
         \A i \in 1 .. k : a[i] = s[i]
  PROVE  SubSeq(s, k + 1, Len(s)) \in Seq(Nat) /\ a \o SubSeq(s, k + 1, Len(s)) = s
<1> DEFINE r == SubSeq(s, k + 1, Len(s))
           t == a \o r
<1>1. /\ r \in Seq(Nat) /\ Len(r) = Len(s) - k
      /\ \A i \in 1 .. Len(s) - k : r[i] = s[i + k]
  BY SuffixIs
<1> HIDE DEF r
<1>2. /\ t \in Seq(Nat) /\ Len(t) = Len(a) + Len(r)
      /\ \A i \in 1 .. Len(a) : t[i] = a[i]
      /\ \A i \in 1 .. Len(a) + Len(r) : i > Len(a) => t[i] = r[i - Len(a)]
  <2>1. r \in Seq(Nat) /\ a \in Seq(Nat)
    BY <1>1
  <2>2. a \o r \in Seq(Nat) /\ Len(a \o r) = Len(a) + Len(r)
    BY <2>1, ConcatIs
  <2>3. \A i \in 1 .. Len(a) : (a \o r)[i] = a[i]
    BY <2>1, ConcatIs
  <2>4. \A i \in 1 .. Len(a) + Len(r) : i > Len(a) => (a \o r)[i] = r[i - Len(a)]
    BY <2>1, ConcatIs
  <2> QED
    BY <2>2, <2>3, <2>4
<1> HIDE DEF t
<1>3. Len(s) \in Nat /\ Len(t) = Len(s)
  BY <1>1, <1>2
<1>4. ASSUME NEW i \in 1 .. Len(s) PROVE t[i] = s[i]
  <2>1. CASE i <= k
    BY <1>2, <2>1
  <2>2. CASE i > k
    <3>1. i - k \in 1 .. Len(s) - k /\ (i - k) + k = i /\ i \in 1 .. Len(a) + Len(r)
      BY <1>1, <1>3, <2>2
    <3>2. t[i] = r[i - k]
      BY <1>2, <2>2, <3>1
    <3>3. r[i - k] = s[(i - k) + k]
      BY <1>1, <3>1
    <3> QED
      BY <3>1, <3>2, <3>3
  <2> QED
    BY <2>1, <2>2
<1>5. t = s
  BY <1>2, <1>3, <1>4, SeqEqual
<1> QED
  BY <1>1, <1>5 DEF t, r

LEMMA ReadDoneData ==
  ASSUME CInv, DInv, ReadDone, UNCHANGED mqttVars PROVE DInv'
<1> DEFINE k == Least(len, Len(rcv))
           b == [i \in DOMAIN buff |-> IF i < k THEN rcv[i + 1] ELSE buff[i]]
<1>1. /\ Pending("TCPRead") /\ verdict' = "success" /\ UNCHANGED <<call, len>>
      /\ buff' = b /\ rcv' = SubSeq(rcv, k + 1, Len(rcv)) /\ session
      /\ UNCHANGED <<at, stack, result, number, size, idx, link, wire, packet, rd, connected,
                     pingOutstanding, log, due, granted, handed, garbled>>
  BY DEF ReadDone, Verdict, control, reader, flags, timers, server, socket, block, request, modem, peer, mqttVars
<1>2. at = "TCPRead" /\ verdict = "pending" /\ number
  BY <1>1, Waits DEF CInv, Numbered, Pending
<1>3. size = 0 /\ len \in 1 .. TCP_MAX_BUF_SIZE /\ len <= Len(rcv) /\ rcv \in Seq(Nat) /\ wire \in Seq(Nat)
      /\ packet \in Seq(Nat) /\ buff \in [0 .. TCP_MAX_BUF_SIZE - 1 -> Nat]
  BY <1>1, <1>2 DEF CInv, Requests, Sockets, Types
<1>4. k = len /\ len \in Nat /\ len \in 0 .. Len(rcv)
  BY <1>3, BlockSize DEF Least
<1> DEFINE h == [i \in 1 .. len |-> b[0 + i - 1]]
<1>5. Held' = h
  BY <1>1, <1>2 DEF Held, Bytes
<1>6. ASSUME NEW i \in 1 .. len PROVE b[0 + i - 1] = rcv[i] /\ rcv[i] \in Nat
  <2>1. 0 + i - 1 \in 0 .. TCP_MAX_BUF_SIZE - 1 /\ (0 + i - 1) + 1 = i /\ 0 + i - 1 < len
    BY <1>3, BlockSize
  <2>2. i \in 1 .. Len(rcv)
    BY <1>3
  <2>3. DOMAIN buff = 0 .. TCP_MAX_BUF_SIZE - 1
    BY <1>3
  <2> HIDE DEF k
  <2>4. b[0 + i - 1] = rcv[(0 + i - 1) + 1]
    BY <1>4, <2>1, <2>3
  <2> QED
    BY <1>3, <2>1, <2>2, <2>4
<1> HIDE DEF b, k
<1>7. h \in Seq(Nat) /\ Len(h) = len /\ \A i \in 1 .. len : h[i] = rcv[i]
  <2>1. \A i \in 1 .. len : b[0 + i - 1] \in Nat
    BY <1>6
  <2>2. h \in Seq(Nat) /\ Len(h) = len
    BY <1>4, <2>1
  <2>3. ASSUME NEW i \in 1 .. len PROVE h[i] = rcv[i]
    <3>1. h[i] = b[0 + i - 1]
      OBVIOUS
    <3> QED
      BY <1>6, <3>1
  <2> QED
    BY <2>2, <2>3
<1> HIDE DEF h
<1> DEFINE r == SubSeq(rcv, len + 1, Len(rcv))
<1>8. r \in Seq(Nat) /\ h \o r = rcv
  BY <1>3, <1>4, <1>7, SplitIs
<1>9. rcv' = r
  BY <1>1, <1>4
<1> HIDE DEF r
<1>10. Held = <<>>
  BY <1>2, <1>3, HeldIs
<1>11. Flow' = Flow
  <2> DEFINE w == rcv \o wire
  <2>1. w \in Seq(Nat)
    BY <1>3, ConcatType
  <2>2. <<>> \o w = w
    BY <2>1, ConcatEmpty
  <2>3. h \o (r \o wire) = (h \o r) \o wire
    <3>1. AreLists(h, r, wire)
      BY <1>3, <1>7, <1>8 DEF AreLists
    <3> QED
      BY <3>1, ListsConcat
  <2>4. Flow' = packet \o (h \o (r \o wire))
    BY <1>1, <1>5, <1>9 DEF Flow
  <2>5. Flow = packet \o (<<>> \o w)
    BY <1>10 DEF Flow
  <2> QED
    BY <1>8, <2>2, <2>3, <2>4, <2>5
<1>12. Sync'
  BY <1>1, <1>11 DEF DInv, Sync
<1> QED
  BY <1>1, <1>2, <1>12, OthersMove DEF DInv

(* The modem empties its buffer: the client asked for it with nothing in it.*)
LEMMA FlushDoneData ==
  ASSUME CInv, DInv, FlushDone, UNCHANGED mqttVars PROVE DInv'
<1>1. /\ Pending("TCPRxFlush") /\ verdict' = "success" /\ rcv' = <<>>
      /\ UNCHANGED <<at, stack, result, number, buff, size, idx, link, wire, len, packet, rd, connected,
                     pingOutstanding, log, due, granted, handed, garbled>>
  BY DEF FlushDone, Verdict, control, reader, flags, timers, server, socket, block, request, modem, peer, mqttVars
<1>2. at = "TCPRxFlush" /\ number
  BY <1>1, Waits DEF CInv, Numbered, Pending
<1>3. log = <<>>
  BY <1>2 DEF DInv, Served, Flushing
<1>4. In(<<>>, Flow, link) /\ Flow \in Seq(Nat)
  BY <1>2, <1>3, FlowIs DEF DInv, Sync
<1>5. Flow = <<>>
  BY <1>4, InNothing
<1>6. rcv = <<>>
  <2> DEFINE h == Held
             w == rcv \o wire
             g == h \o w
  <2>1. packet \in Seq(Nat) /\ h \in Seq(Nat) /\ rcv \in Seq(Nat) /\ wire \in Seq(Nat)
        /\ w \in Seq(Nat) /\ g \in Seq(Nat)
    BY FlowIs
  <2>2. Flow = packet \o g
    BY DEF Flow
  <2>3. Len(w) = Len(rcv) + Len(wire)
    BY <2>1, ConcatIs
  <2> HIDE DEF h, w
  <2>4. Len(g) = Len(h) + Len(w)
    BY <2>1, ConcatIs
  <2> HIDE DEF g
  <2>5. Len(packet \o g) = Len(packet) + Len(g)
    BY <2>1, ConcatIs
  <2>6. Len(packet \o g) = 0
    BY <1>5, <2>2, Nothing
  <2>7. Len(rcv) = 0
    BY <2>1, <2>3, <2>4, <2>5, <2>6
  <2> QED
    BY <2>1, <2>7, EmptySeq
<1>7. Held' = Held
  BY <1>1, <1>2 DEF Held
<1>8. Sync'
  BY <1>1, <1>6, <1>7, SyncStays DEF DInv
<1> QED
  BY <1>1, <1>2, <1>8, OthersMove DEF DInv

LEMMA CloseDoneData ==
  ASSUME CInv, DInv, CloseDone, UNCHANGED mqttVars PROVE DInv'
<1>1. /\ Pending("TCPClientClose") /\ verdict' = "success" /\ link' = FALSE /\ number' = FALSE
      /\ UNCHANGED <<at, stack, result, size, packet, rd, connected,
                     pingOutstanding, log, due, granted, handed, garbled>>
  BY DEF CloseDone, NoSocket, Verdict, control, reader, flags, timers, server, socket, block, request, modem, peer, mqttVars
<1>2. at = "closing"
  BY <1>1, Waits DEF Pending
<1>3. Sync'
  BY <1>1 DEF Sync
<1> QED
  BY <1>1, <1>2, <1>3, OthersMove DEF DInv

LEMMA ModemResetData ==
  ASSUME CInv, DInv, ModemReset, UNCHANGED mqttVars PROVE DInv'
<1>1. /\ hwFault /\ link' = FALSE /\ rcv' = <<>> /\ wire' = <<>>
      /\ verdict' = "success" \/ verdict' = verdict
      /\ UNCHANGED <<at, stack, result, number, buff, size, idx, packet, rd, connected,
                     pingOutstanding, log, due, granted, handed, garbled>>
  BY DEF ModemReset, NoSocket, Verdict, control, reader, flags, timers, server, socket, block, request, modem, peer, mqttVars
<1>2. at # "TCPRead"
  BY <1>1 DEF CInv, Requests
<1>3. Held' = Held
  BY <1>1, <1>2 DEF Held
<1>4. Sync'
  BY <1>1, <1>3, SyncCut DEF DInv
<1> QED
  BY <1>1, <1>4, OthersMove DEF DInv

LEMMA BreakData ==
  ASSUME Ordinary, CInv, DInv, Break, UNCHANGED mqttVars PROVE DInv'
<1>1. /\ call # "TCPRead"
      /\ verdict' \in {"failure", verdict} /\ (verdict = "pending" /\ call # "none" => verdict' = "failure")
      /\ UNCHANGED <<at, stack, result, number, buff, size, idx, link, rcv, wire, packet, rd, connected,
                     pingOutstanding, log, due, granted, handed, garbled>>
  BY DEF Break, Fault, Verdict, Ordinary, control, reader, flags, timers, server, socket, block, request, modem, peer, mqttVars
<1>2. at # "TCPRead"
  BY <1>1 DEF CInv, Requests, CallOf
<1>3. Held' = Held
  BY <1>1, <1>2 DEF Held
<1>4. Sync'
  BY <1>1, <1>3, SyncStays DEF DInv
<1> QED
  BY <1>1, <1>4, OthersMove DEF DInv

LEMMA NetworkData ==
  ASSUME CInv, DInv, Register \/ PeerNotice \/ LinkDown, UNCHANGED mqttVars PROVE DInv'
<1>1. UNCHANGED <<at, stack, result, number, buff, size, idx, verdict, len, rcv, packet, rd, connected,
                  pingOutstanding, log, due, granted, handed, garbled>>
  BY DEF Register, PeerNotice, LinkDown, control, reader, flags, timers, server, socket, block, request, modem, peer, mqttVars
<1>2. Held' = Held
  BY <1>1 DEF Held
<1>3. UNCHANGED <<link, wire>> \/ (~link' /\ wire' = <<>>)
  BY DEF Register, PeerNotice, LinkDown, peer
<1>4. Sync'
  BY <1>1, <1>2, <1>3, SyncStays, SyncCut DEF DInv
<1>5. link' => link
  BY <1>3
<1> QED
  BY <1>1, <1>4, <1>5, OthersMove DEF DInv

LEMMA TickData ==
  ASSUME CInv, DInv, Tick PROVE DInv'
<1>1. UNCHANGED <<at, stack, result, number, buff, size, idx, verdict, len, rcv, link, wire, packet, rd,
                  connected, pingOutstanding, log, due, granted, handed, garbled>>
  BY DEF Tick, control, reader, flags, server, socket, block, request, modem, peer
<1>2. Held' = Held
  BY <1>1 DEF Held
<1>3. Sync'
  BY <1>1, <1>2, SyncStays DEF DInv
<1> QED
  BY <1>1, <1>3, OthersMove DEF DInv

LEMMA StutterData ==
  ASSUME CInv, DInv, UNCHANGED vars PROVE DInv'
<1>1. UNCHANGED <<at, stack, result, number, buff, size, idx, verdict, len, rcv, link, wire, packet, rd,
                  connected, pingOutstanding, log, due, granted, handed, garbled>>
  BY DEF vars, tcpVars, mqttVars, control, reader, flags, server, timers, socket, block, request, modem, peer
<1>2. Held' = Held
  BY <1>1 DEF Held
<1>3. Sync'
  BY <1>1, <1>2, SyncStays DEF DInv
<1> QED
  BY <1>1, <1>3, OthersMove DEF DInv

(* What the network brings was under way.                                   *)
LEMMA ArriveData ==
  ASSUME CInv, DInv, Arrive, UNCHANGED mqttVars, at \notin {"welcomed", "dispatch"} PROVE DInv'
<1> DEFINE n == Least(Segment, Len(wire))
           a == SubSeq(wire, 1, n)
           w == SubSeq(wire, n + 1, Len(wire))
<1>1. /\ rcv' = rcv \o a /\ wire' = w
      /\ UNCHANGED <<at, stack, result, number, buff, size, idx, link, verdict, len, packet, rd, connected,
                     pingOutstanding, log, due, granted, handed, garbled>>
  BY DEF Arrive, control, reader, flags, timers, server, socket, block, request, modem, peer, mqttVars
<1>2. rcv \in Seq(Nat) /\ wire \in Seq(Nat) /\ Len(wire) \in Nat
  BY DEF CInv, Types
<1>3. n \in 0 .. Len(wire)
  BY <1>2, TcpAssumption DEF Least
<1>4. a \in Seq(Nat) /\ Len(a) = n /\ \A i \in 1 .. n : a[i] = wire[i]
  BY <1>2, <1>3
<1> HIDE DEF n, a
<1>5. w \in Seq(Nat) /\ a \o w = wire
  BY <1>2, <1>3, <1>4, SplitIs
<1> HIDE DEF w
<1>6. rcv' \o wire' = rcv \o wire
  <2>1. (rcv \o a) \o w = rcv \o (a \o w)
    <3>1. AreLists(rcv, a, w)
      BY <1>2, <1>4, <1>5 DEF AreLists
    <3> QED
      BY <3>1, ListsConcat
  <2> QED
    BY <1>1, <1>5, <2>1
<1>7. Held' = Held
  BY <1>1 DEF Held
<1>8. Sync'
  BY <1>1, <1>6, <1>7 DEF DInv, Sync, Flow
<1> QED
  BY <1>1, <1>8, OthersMove DEF DInv

(* A request that reaches the server makes it owe an answer.                *)
LEMMA WriteReachesData ==
  ASSUME Ordinary, CInv, DInv, WriteReaches PROVE DInv'
<1> DEFINE o == Owed
<1>1. /\ Pending("TCPWrite") /\ verdict' = "success" /\ link
      /\ UNCHANGED <<at, stack, result, number, buff, size, idx, link, rcv, wire, len, packet, rd,
                     connected, pingOutstanding, log, granted, handed>>
  BY DEF WriteReaches, WriteDone, Verdict, control, reader, flags, socket, block, modem, peer, CInv, Types
<1>2. due' = due \o o
  BY DEF WriteReaches
<1>3. at = "TCPWrite" /\ Here \in Writers /\ Here = Head(stack) /\ verdict = "pending"
  BY <1>1, Waits, Places DEF Pending, Routines
<1>4. Here' = Here /\ Main' = Main
  BY <1>1, StaysPut
<1>5. garbled' = garbled
  <2>1. len < 2 * Base /\ len \in Nat
    BY <1>3 DEF CInv, Requests, Types
  <2>2. Decoded(lenBuf(len)) = len
    BY <2>1, DecodesTo
  <2> QED
    BY <2>2 DEF WriteReaches, CInv, Types
<1>6. Main = Here \/ Main \in {"loop", "top"}
  BY <1>3 DEF CInv, Nest, Home, Main, MainOf, Here, Under, Mains, Reading, Publishing, Writers
<1>7. Main \in Dialling => Here = "greeted"
  BY <1>3, <1>6 DEF Dialling, Handshake, Writers
<1>8. /\ Here = "greeted" => o = <<CONNACK>>
      /\ Here = "pinged" => o = <<PINGRESP>>
      /\ Here = "subscribed" => o = <<SUBACK>>
      /\ Here \notin {"greeted", "pinged", "subscribed"} => o = <<>>
  BY <1>3 DEF Owed
<1>9. /\ o \in Seq({CONNACK, SUBACK, PINGRESP})
      /\ Here # "greeted" => \A k \in 1 .. Len(o) : o[k] # CONNACK
      /\ Here = "pinged" => Len(o) = 1 /\ o[1] = PINGRESP
  <2>1. CASE Here \notin {"greeted", "pinged", "subscribed"}
    <3>1. o = <<>> /\ Len(o) = 0
      BY <1>8, <2>1
    <3> QED
      BY <2>1, <3>1
  <2>2. CASE Here = "greeted"
    <3>1. <<CONNACK>> \in Seq({CONNACK, SUBACK, PINGRESP})
      OBVIOUS
    <3>2. o = <<CONNACK>>
      BY <1>8, <2>2
    <3> HIDE DEF o
    <3> QED
      BY <2>2, <3>1, <3>2
  <2>3. CASE Here = "pinged"
    <3>1. o = <<PINGRESP>> /\ Len(o) = 1 /\ o[1] = PINGRESP /\ o \in Seq({CONNACK, SUBACK, PINGRESP})
      <4>1. /\ <<PINGRESP>> \in Seq({CONNACK, SUBACK, PINGRESP})
            /\ Len(<<PINGRESP>>) = 1 /\ <<PINGRESP>>[1] = PINGRESP
        OBVIOUS
      <4>2. o = <<PINGRESP>>
        BY <1>8, <2>3
      <4> HIDE DEF o
      <4> QED
        BY <4>1, <4>2
    <3>2. PINGRESP # CONNACK
      BY DEF PINGRESP, CONNACK
    <3> HIDE DEF o
    <3> QED
      BY <2>3, <3>1, <3>2
  <2>4. CASE Here = "subscribed"
    <3>1. o = <<SUBACK>> /\ Len(o) = 1 /\ o[1] = SUBACK /\ o \in Seq({CONNACK, SUBACK, PINGRESP})
      <4>1. /\ <<SUBACK>> \in Seq({CONNACK, SUBACK, PINGRESP})
            /\ Len(<<SUBACK>>) = 1 /\ <<SUBACK>>[1] = SUBACK
        OBVIOUS
      <4>2. o = <<SUBACK>>
        BY <1>8, <2>4
      <4> HIDE DEF o
      <4> QED
        BY <4>1, <4>2
    <3>2. SUBACK # CONNACK
      BY DEF SUBACK, CONNACK
    <3> HIDE DEF o
    <3> QED
      BY <2>4, <3>1, <3>2
  <2> QED
    BY <2>1, <2>2, <2>3, <2>4
<1> HIDE DEF o
<1>10. due \in Seq({CONNACK, SUBACK, PINGRESP})
  BY DEF DInv, Served
<1>11. /\ due' \in Seq({CONNACK, SUBACK, PINGRESP}) /\ Len(due') = Len(due) + Len(o)
       /\ \A i \in 1 .. Len(due) : due'[i] = due[i]
       /\ \A i \in 1 .. Len(due) + Len(o) : i > Len(due) => due'[i] = o[i - Len(due)]
  BY <1>2, <1>9, <1>10, ConcatIs
<1>12. Held' = Held
  BY <1>1, <1>3 DEF Held
<1>13. Sync'
  BY <1>1, <1>12, SyncStays DEF DInv
<1>14. Packets'
  BY <1>1, <1>3, <1>4 DEF DInv, Packets
<1>15. Served'
  BY <1>1, <1>3, <1>11 DEF DInv, Served, Flushing
<1>16. ~Unwritten'
  BY <1>1, <1>3, <1>4 DEF Unwritten, Writers
<1>17. Welcome'
  <2>1. CASE Here = "greeted"
    <3>1. due = <<>> /\ log = <<>> /\ Main = "greeted"
      BY <1>3, <1>6, <2>1 DEF DInv, Welcome, Unwritten, CInv, Nest, Home, Main, MainOf, Here, Under, Mains, Reading, Publishing
    <3>2. <<CONNACK>> \in Seq({CONNACK, SUBACK, PINGRESP})
      OBVIOUS
    <3>3. due' = <<CONNACK>>
      BY <1>2, <1>8, <2>1, <3>1, <3>2, ConcatEmpty
    <3> QED
      BY <1>1, <1>4, <1>16, <2>1, <3>1, <3>3 DEF DInv, Welcome, Handshake, Dialling
  <2>2. CASE Here # "greeted"
    <3>1. Main \notin Dialling /\ Main \notin Handshake
      BY <1>7, <2>2 DEF Dialling
    <3>2. ASSUME NEW k \in 1 .. Len(due') PROVE due'[k] # CONNACK
      <4>1. Len(due) \in Nat /\ Len(o) \in Nat
        BY <1>9, <1>10
      <4>2. CASE k <= Len(due)
        BY <1>11, <3>1, <4>1, <4>2 DEF DInv, Welcome
      <4>3. CASE k > Len(due)
        <5>1. k - Len(due) \in 1 .. Len(o) /\ k \in 1 .. Len(due) + Len(o)
          BY <1>11, <4>1, <4>3
        <5> QED
          BY <1>9, <1>11, <2>2, <4>3, <5>1
      <4> QED
        BY <4>1, <4>2, <4>3
    <3> QED
      BY <1>1, <1>3, <1>4, <1>16, <3>1, <3>2 DEF DInv, Welcome, Writers
  <2> QED
    BY <2>1, <2>2
<1>18. Handed'
  BY <1>1, <1>3, <1>4, <1>5 DEF DInv, Handed
<1>19. Answering => Answering'
  <2>1. Contains(due, PINGRESP) => Contains(due', PINGRESP)
    <3> SUFFICES ASSUME NEW i \in 1 .. Len(due), due[i] = PINGRESP PROVE Contains(due', PINGRESP)
      BY DEF Contains
    <3>1. i \in 1 .. Len(due') /\ due'[i] = PINGRESP
      BY <1>9, <1>10, <1>11
    <3> QED
      BY <3>1 DEF Contains
  <2> QED
    BY <1>1, <2>1 DEF Answering, Unread
<1>20. Here = "pinged" => Answering'
  <2> SUFFICES ASSUME Here = "pinged" PROVE Contains(due', PINGRESP)
    BY DEF Answering
  <2>1. Len(o) = 1 /\ o[1] = PINGRESP /\ Len(due) \in Nat
    BY <1>9, <1>10
  <2> DEFINE n == Len(due) + 1
  <2>2. n \in 1 .. Len(due) + Len(o) /\ n > Len(due) /\ n - Len(due) = 1 /\ n \in 1 .. Len(due')
    BY <1>11, <2>1
  <2> HIDE DEF n
  <2>3. due'[n] = PINGRESP
    BY <1>11, <2>1, <2>2
  <2> QED
    BY <2>2, <2>3 DEF Contains
<1>21. Pinging'
  BY <1>1, <1>4, <1>19, <1>20 DEF DInv, Pinging
<1> QED
  BY <1>13, <1>14, <1>15, <1>17, <1>18, <1>21 DEF DInv

LEMMA NewConnectionData ==
  ASSUME CInv, DInv, NewConnection PROVE DInv'
<1>1. /\ Pending("TCPClientOpen") /\ verdict' = "success" /\ link' = TRUE /\ rcv' = <<>> /\ wire' = <<>>
      /\ due' = <<>> /\ log' = <<>> /\ granted' = FALSE
      /\ UNCHANGED <<at, stack, result, buff, size, idx, packet, rd, connected, pingOutstanding,
                     handed, garbled>>
  BY DEF NewConnection, OpenDone, Verdict, control, reader, flags, timers, block
<1>2. ~number /\ Here = "hello" /\ at = "TCPClientOpen"
  BY <1>1, Unopened
<1>3. Here' = "hello" /\ Main' = Main /\ Main = "hello"
  <2>1. Main = "hello"
    BY <1>2 DEF CInv, Nest, Home, Main, MainOf, Here, Under, Mains, Reading, Publishing
  <2> QED
    BY <1>1, <1>2, <2>1, StaysPut
<1>4. packet = <<>> /\ size = 0
  BY <1>2 DEF CInv, Reader, Blocks, Reading
<1>5. Held = <<>> /\ Held' = Held
  BY <1>1, <1>2, <1>4, HeldIs DEF Held
<1>6. Sync'
  <2> DEFINE e == <<>>
  <2>1. e \in Seq(Nat) /\ \A s \in Seq(Nat) : s \o e = s
    BY ConcatEmpty, Nothing
  <2>2. Flow' = e \o (e \o (e \o e))
    BY <1>1, <1>4, <1>5 DEF Flow
  <2>3. log' = e
    BY <1>1
  <2>4. \A k : In(e, e, k)
    BY InNone
  <2> HIDE DEF e
  <2>5. Flow' = e
    BY <2>1, <2>2
  <2> QED
    BY <2>3, <2>4, <2>5 DEF Sync
<1>7. Packets'
  BY <1>1, <1>2, <1>3 DEF DInv, Packets, Reading
<1> DEFINE e == <<>>
<1>8. e \in Seq(Sent) /\ e \in Seq({CONNACK, SUBACK, PINGRESP}) /\ Len(e) = 0 /\ log' = e /\ due' = e
  BY <1>1
<1> HIDE DEF e
<1>9. Served'
  BY <1>1, <1>2, <1>8 DEF Served, Flushing
<1>10. Welcome'
  BY <1>1, <1>3 DEF Welcome, Handshake, Dialling
<1>11. Handed' /\ Pinging'
  BY <1>1, <1>2, <1>3 DEF DInv, Handed, Pinging, Dialling
<1> QED
  BY <1>6, <1>7, <1>9, <1>10, <1>11 DEF DInv

LEMMA GSMTaskData ==
  ASSUME Ordinary, CInv, DInv, GSMTask PROVE DInv'
<1>1. CASE WriteReaches
  BY <1>1, WriteReachesData
<1>2. CASE NewConnection
  BY <1>2, NewConnectionData
<1>3. CASE (ConfigDone \/ OpenLeaks \/ WriteDone(FALSE) \/ CallFails) /\ UNCHANGED mqttVars
  BY <1>3, VerdictsData
<1>4. CASE (ReadDone \/ FlushDone \/ CloseDone) /\ UNCHANGED mqttVars
  BY <1>4, ReadDoneData, FlushDoneData, CloseDoneData
<1>5. CASE ModemReset /\ UNCHANGED mqttVars
  BY <1>5, ModemResetData
<1> QED
  BY <1>1, <1>2, <1>3, <1>4, <1>5 DEF GSMTask

----------------------------------------------------------------------------
(* The server.                                                             *)

(* The server sends an answer it owes, or a message of its own.             *)
Sending(e, f) ==
  /\ e \in Sent /\ FrameOf(e, f) /\ log' = Append(log, e) /\ wire' = wire \o f
  /\ e.type = PUBLISH => e.msg \in Messages
  /\ e.type # PUBLISH => e.msg = NoMsg
  /\ \/ due # <<>> /\ due' = Tail(due) /\ Head(due) = e.type /\ (e.type = SUBACK \/ granted' = granted)
     \/ granted /\ UNCHANGED <<due, granted>> /\ e.type \in {PUBLISH, PINGREQ}

Lengthens(f) ==
  /\ f \in Seq(Nat) /\ wire' = wire \o f
  /\ UNCHANGED <<packet, rcv>> /\ Held' = Held

LEMMA FlowMore ==
  ASSUME CInv, NEW f, Lengthens(f)
  PROVE  Flow' = Flow \o f
<1>1. PICK p, h, r, w : /\ p = packet /\ h = Held /\ r = rcv /\ w = wire
                        /\ AreLists(p, h, r) /\ AreLists(r, w, f)
  BY FlowIs DEF AreLists, Lengthens
<1>2. Flow = p \o (h \o (r \o w)) /\ Flow' = p \o (h \o (r \o (w \o f)))
  BY <1>1 DEF Flow, Lengthens
<1>3. AreLists(p, h, r) /\ AreLists(r, w, f)
  BY <1>1
<1>4. (p \o (h \o (r \o w))) \o f = p \o (h \o (r \o (w \o f)))
  BY <1>3, ConcatDeep
<1> QED
  BY <1>2, <1>4

LEMMA SendData ==
  ASSUME CInv, DInv, NEW e, NEW f, Sending(e, f), link, ~Unread(SUBACK), ~Flushing,
         UNCHANGED <<at, stack, result, number, buff, size, idx, link, rcv, verdict, len, packet, rd,
                     connected, pingOutstanding, handed, garbled>>
  PROVE  DInv'
<1> USE DEF Sending
<1>1. Here' = Here /\ Main' = Main
  BY StaysPut
<1>2. log \in Seq(Sent) /\ due \in Seq({CONNACK, SUBACK, PINGRESP}) /\ Len(log) \in Nat
  BY DEF DInv, Served
<1>3. f \in Seq(Nat)
  BY DEF FrameOf, Framing
<1>4. /\ log' \in Seq(Sent) /\ Len(log') = Len(log) + 1
      /\ \A k \in 1 .. Len(log) : log'[k] = log[k]
      /\ log'[Len(log) + 1] = e
  BY <1>2
<1>5. Held' = Held
  BY DEF Held
<1>6. Flow' = Flow \o f
  BY <1>3, <1>5, FlowMore DEF Lengthens
<1>7. Sync'
  <2> SUFFICES ASSUME number PROVE In(log', Flow', link')
    BY DEF Sync
  <2>1. In(log, Flow, TRUE) /\ Flow \in Seq(Nat)
    <3>1. link = TRUE
      BY DEF CInv, Types
    <3> QED
      BY <3>1, FlowIs DEF DInv, Sync
  <2>2. In(Append(log, e), Flow \o f, link')
    BY <1>2, <2>1, InMore
  <2> QED
    BY <1>6, <2>2
<1>8. Packets'
  BY <1>1 DEF DInv, Packets
<1>9. /\ due' \in Seq({CONNACK, SUBACK, PINGRESP})
      /\ \A k \in 1 .. Len(due') : \E j \in 1 .. Len(due) : due'[k] = due[j]
      /\ \A j \in 1 .. Len(due) : due[j] # e.type => \E k \in 1 .. Len(due') : due'[k] = due[j]
  <2>1. CASE due' = due
    BY <1>2, <2>1
  <2>2. CASE due # <<>> /\ due' = Tail(due) /\ Head(due) = e.type
    <3>1. /\ Len(due') = Len(due) - 1 /\ Len(due) \in Nat \ {0}
          /\ due' \in Seq({CONNACK, SUBACK, PINGRESP})
          /\ \A k \in 1 .. Len(due') : due'[k] = due[k + 1]
      BY <1>2, <2>2
    <3>2. due[1] = e.type
      BY <1>2, <2>2
    <3>3. ASSUME NEW k \in 1 .. Len(due') PROVE k + 1 \in 1 .. Len(due)
      BY <3>1
    <3>4. ASSUME NEW j \in 1 .. Len(due), due[j] # e.type
          PROVE  \E k \in 1 .. Len(due') : due'[k] = due[j]
      <4>1. j # 1
        BY <3>2, <3>4
      <4>2. j - 1 \in 1 .. Len(due') /\ (j - 1) + 1 = j
        BY <3>1, <4>1
      <4>3. due'[j - 1] = due[(j - 1) + 1]
        BY <3>1, <4>2
      <4> QED
        BY <4>2, <4>3
    <3> QED
      BY <3>1, <3>3, <3>4
  <2> QED
    BY <2>1, <2>2
<1>10. \A k \in 1 .. Len(log) : log[k].type # SUBACK
  BY <1>2 DEF Unread
<1>11. \A k \in 1 .. Len(log') : k \in 1 .. Len(log) \/ k = Len(log) + 1
  BY <1>2, <1>4
<1>12. Served'
  <2>1. ASSUME NEW k \in 1 .. Len(log')
        PROVE  /\ log'[k].type = PUBLISH => log'[k].msg \in Messages
               /\ log'[k].type # PUBLISH => log'[k].msg = NoMsg
               /\ log'[k].type = SUBACK => k = Len(log')
    <3>1. CASE k \in 1 .. Len(log)
      BY <1>4, <1>10, <3>1 DEF DInv, Served
    <3>2. CASE k = Len(log) + 1
      BY <1>4, <3>2
    <3> QED
      BY <1>11, <3>1, <3>2
  <2>2. ~Flushing'
    BY DEF Flushing
  <2> QED
    BY <1>4, <1>9, <2>1, <2>2 DEF Served
<1>13. Unwritten' <=> Unwritten
  BY <1>1 DEF Unwritten
<1>14. Unwritten => due = <<>> /\ log = <<>> /\ ~granted
  <2> SUFFICES ASSUME Unwritten PROVE due = <<>> /\ log = <<>> /\ ~granted
    OBVIOUS
  <2>1. due = <<>> /\ log = <<>>
    BY DEF DInv, Welcome
  <2>2. (Here = "hello" /\ number) \/ Here = "greeted"
    BY DEF Unwritten
  <2>3. Here = "greeted" => Main = "greeted"
    BY DEF CInv, Nest, Home, Main, MainOf, Here, Under, Reading, Publishing
  <2>4. ~granted
    BY <2>2, <2>3 DEF DInv, Welcome, Handshake
  <2> QED
    BY <2>1, <2>4
<1>15. ~Unwritten
  BY <1>14
<1>16. Main \in Handshake => due = <<CONNACK>> /\ log = <<>> /\ ~granted /\ e.type = CONNACK /\ due' = <<>>
                             /\ granted' = granted
  <2> SUFFICES ASSUME Main \in Handshake
               PROVE  due = <<CONNACK>> /\ log = <<>> /\ ~granted /\ e.type = CONNACK /\ due' = <<>>
                      /\ granted' = granted
    OBVIOUS
  <2>1. ~granted
    BY DEF DInv, Welcome
  <2>2. due # <<>> /\ due' = Tail(due) /\ Head(due) = e.type /\ (e.type = SUBACK \/ granted' = granted)
    BY <2>1
  <2>3. due = <<CONNACK>> /\ log = <<>>
    BY <2>2 DEF DInv, Welcome
  <2>4. CONNACK # SUBACK
    BY DEF CONNACK, SUBACK
  <2>5. Head(due) = CONNACK /\ Tail(due) = <<>>
    <3>1. due[1] = CONNACK /\ Len(due) = 1
      BY <2>3
    <3> QED
      BY <1>2, <3>1, OneIs
  <2> QED
    BY <2>1, <2>2, <2>3, <2>4, <2>5
<1>17. Here = "hello" /\ number => FALSE
  BY <1>15 DEF Unwritten
<1>18. Welcome'
  <2>1. Main' \in Handshake =>
          /\ ~granted' /\ due' = <<>> /\ Len(log') = 1 /\ log'[1].type = CONNACK
    <3> SUFFICES ASSUME Main \in Handshake
                 PROVE  ~granted' /\ due' = <<>> /\ Len(log') = 1 /\ log'[1].type = CONNACK
      BY <1>1
    <3>1. Len(log) = 0
      BY <1>16, Nothing
    <3> QED
      BY <1>4, <1>16, <3>1
  <2>2. Main' \notin Dialling =>
           /\ \A k \in 1 .. Len(due') : due'[k] # CONNACK
           /\ \A k \in 1 .. Len(log') : log'[k].type # CONNACK
    <3> SUFFICES ASSUME Main \notin Dialling
                 PROVE  /\ \A k \in 1 .. Len(due') : due'[k] # CONNACK
                        /\ \A k \in 1 .. Len(log') : log'[k].type # CONNACK
      BY <1>1
    <3>1. \A k \in 1 .. Len(due') : due'[k] # CONNACK
      BY <1>9 DEF DInv, Welcome
    <3>2. e.type # CONNACK
      <4>1. CASE due # <<>> /\ Head(due) = e.type
        <5>1. 1 \in 1 .. Len(due) /\ Head(due) = due[1]
          BY <1>2, <4>1
        <5> QED
          BY <4>1, <5>1 DEF DInv, Welcome
      <4>2. CASE e.type \in {PUBLISH, PINGREQ}
        BY <4>2 DEF PUBLISH, PINGREQ, CONNACK
      <4> QED
        BY <4>1, <4>2
    <3>3. ASSUME NEW k \in 1 .. Len(log') PROVE log'[k].type # CONNACK
      BY <1>4, <1>11, <3>2 DEF DInv, Welcome
    <3> QED
      BY <3>1, <3>3
  <2> QED
    BY <1>1, <1>13, <1>15, <1>17, <2>1, <2>2 DEF Welcome
<1>19. Handed'
  BY <1>1 DEF DInv, Handed
<1>20. Answering => Answering'
  <2>1. CASE Contains(due, PINGRESP) /\ e.type # PINGRESP
    BY <1>9, <2>1 DEF Contains, Answering
  <2>2. CASE e.type = PINGRESP
    <3>1. Len(log) + 1 \in DOMAIN log'
      BY <1>2, <1>4
    <3> QED
      BY <1>4, <2>2, <3>1 DEF Answering, Unread
  <2>3. CASE Unread(PINGRESP)
    <3>1. PICK k \in 1 .. Len(log) : log[k].type = PINGRESP
      BY <1>2, <2>3 DEF Unread
    <3>2. k \in DOMAIN log' /\ log'[k].type = PINGRESP
      BY <1>2, <1>4, <3>1
    <3> QED
      BY <3>2 DEF Answering, Unread
  <2> QED
    BY <2>1, <2>2, <2>3 DEF Answering
<1>21. Pinging'
  BY <1>1, <1>20 DEF DInv, Pinging, Reached
<1> QED
  BY <1>7, <1>8, <1>12, <1>18, <1>19, <1>21 DEF DInv

LEMMA SendsSend ==
  ASSUME Ordinary, CInv, DInv, MaySend, NEW t, NEW m, NEW s, Sends(t, m, s),
         Sending([type |-> t, msg |-> m], s)
  PROVE  DInv'
<1>1. link /\ ~Unread(SUBACK) /\ ~Flushing
  BY DEF MaySend, Ordinary, CInv, Types
<1>2. UNCHANGED <<at, stack, result, number, buff, size, idx, link, rcv, verdict, len, packet, rd,
                  connected, pingOutstanding, handed, garbled>>
  BY DEF Sends, control, socket, block, request, reader, flags
<1> QED
  BY <1>1, <1>2, SendData

LEMMA SentType ==
  ASSUME NEW t \in {CONNACK, PUBLISH, SUBACK, PINGREQ, PINGRESP}, NEW m \in Messages \cup {NoMsg}
  PROVE  [type |-> t, msg |-> m] \in Sent
BY DEF Sent

LEMMA TypesDiffer ==
  CONNACK # PUBLISH /\ SUBACK # PUBLISH /\ PINGREQ # PUBLISH /\ PINGRESP # PUBLISH
BY DEF CONNACK, PUBLISH, SUBACK, PINGREQ, PINGRESP

LEMMA AnswersData ==
  ASSUME Ordinary, CInv, DInv, Answers PROVE DInv'
<1> USE SentType, TypesDiffer
<1>1. MaySend /\ due # <<>> /\ due' = Tail(due)
  BY DEF Answers
<1>2. CASE Head(due) = CONNACK /\ Sends(CONNACK, NoMsg, <<CONNACK, 2, 0, 0>>) /\ granted' = granted
  <2>1. Sending([type |-> CONNACK, msg |-> NoMsg], <<CONNACK, 2, 0, 0>>)
    BY <1>1, <1>2, ShortFrames DEF Sending, Sends
  <2> QED
    BY <1>1, <1>2, <2>1, SendsSend
<1>3. CASE Head(due) = CONNACK /\ Sends(CONNACK, NoMsg, <<CONNACK, 2, 0, 5>>) /\ granted' = granted
  <2>1. Sending([type |-> CONNACK, msg |-> NoMsg], <<CONNACK, 2, 0, 5>>)
    BY <1>1, <1>3, ShortFrames DEF Sending, Sends
  <2> QED
    BY <1>1, <1>3, <2>1, SendsSend
<1>4. CASE Head(due) = SUBACK /\ Sends(SUBACK, NoMsg, <<SUBACK, 3, 0, 6, 0>>)
  <2>1. Sending([type |-> SUBACK, msg |-> NoMsg], <<SUBACK, 3, 0, 6, 0>>)
    BY <1>1, <1>4, ShortFrames DEF Sending, Sends
  <2> QED
    BY <1>1, <1>4, <2>1, SendsSend
<1>5. CASE Head(due) = PINGRESP /\ Sends(PINGRESP, NoMsg, <<PINGRESP, 0>>) /\ granted' = granted
  <2>1. Sending([type |-> PINGRESP, msg |-> NoMsg], <<PINGRESP, 0>>)
    BY <1>1, <1>5, ShortFrames DEF Sending, Sends
  <2> QED
    BY <1>1, <1>5, <2>1, SendsSend
<1> QED
  BY <1>2, <1>3, <1>4, <1>5 DEF Answers

LEMMA PublishesData ==
  ASSUME Ordinary, CInv, DInv, Publishes \/ Pings PROVE DInv'
<1> USE SentType, TypesDiffer
<1>1. MaySend /\ granted /\ UNCHANGED <<due, granted>>
  BY DEF Publishes, Pings
<1>2. CASE Publishes
  <2>1. PICK m \in Messages : Sends(PUBLISH, m, Encoded(m))
    BY <1>2 DEF Publishes
  <2>2. FrameOf([type |-> PUBLISH, msg |-> m], Encoded(m))
    BY <2>1, MessageFrame
  <2>3. Sending([type |-> PUBLISH, msg |-> m], Encoded(m))
    BY <1>1, <2>1, <2>2 DEF Sending, Sends
  <2> QED
    BY <1>1, <2>1, <2>3, SendsSend
<1>3. CASE Pings
  <2>1. Sends(PINGREQ, NoMsg, <<PINGREQ, 0>>)
    BY <1>3 DEF Pings
  <2>2. Sending([type |-> PINGREQ, msg |-> NoMsg], <<PINGREQ, 0>>)
    BY <1>1, <2>1, ShortFrames DEF Sending, Sends
  <2> QED
    BY <1>1, <2>1, <2>2, SendsSend
<1> QED
  BY <1>2, <1>3

LEMMA OthersData ==
  ASSUME Ordinary, CInv, DInv, Arrives \/ Registers \/ Ticks \/ Serves \/ Surroundings PROVE DInv'
<1>1. CASE Arrives
  BY <1>1, ArriveData DEF Arrives, Shares
<1>2. CASE Registers
  BY <1>2, NetworkData DEF Registers
<1>3. CASE Ticks
  BY <1>3, TickData DEF Ticks
<1>4. CASE Serves
  BY <1>4, AnswersData DEF Serves
<1>5. CASE Surroundings
  BY <1>5, PublishesData, BreakData, NetworkData DEF Surroundings
<1> QED
  BY <1>1, <1>2, <1>3, <1>4, <1>5

LEMMA InitData == Init => DInv
<1> SUFFICES ASSUME Init PROVE DInv
  OBVIOUS
<1>1. /\ at = "down" /\ stack = <<>> /\ ~number /\ packet = <<>> /\ rd = NoPacket /\ ~connected
      /\ due = <<>> /\ log = <<>> /\ ~granted /\ handed = NoMsg /\ ~garbled
  BY DEF Init, TcpInit
<1>2. Here = "down" /\ Main = "down"
  BY <1>1 DEF Here, Under, Main, HereOf, UnderOf, MainOf, Routines
<1>3. Sync
  BY <1>1 DEF Sync
<1>4. Packets
  BY <1>1, <1>2, NothingRead DEF Packets, Reading
<1>5. Served
  <2> DEFINE e == <<>>
  <2>1. e \in Seq(Sent) /\ e \in Seq({CONNACK, SUBACK, PINGRESP}) /\ Len(e) = 0 /\ log = e /\ due = e
    BY <1>1
  <2> HIDE DEF e
  <2> QED
    BY <1>1, <2>1 DEF Served, Flushing
<1>6. Welcome
  BY <1>1, <1>2 DEF Welcome, Unwritten, Handshake, Dialling
<1>7. Handed /\ Pinging
  BY <1>1, <1>2 DEF Handed, Pinging
<1> QED
  BY <1>3, <1>4, <1>5, <1>6, <1>7 DEF DInv

LEMMA NextKeeps ==
  ASSUME Ordinary, CInv, DInv, [Next]_vars PROVE CInv' /\ DInv'
<1>1. CInv'
  BY FlyportTaskKeeps, GSMTaskKeeps, OthersKeep, StutterKeeps DEF Next
<1>2. DInv'
  BY FlyportTaskData, GSMTaskData, OthersData, StutterData DEF Next
<1> QED
  BY <1>1, <1>2

(* The bytes between the server and the client are the rest of the packets  *)
(* the server sent, none lost, repeated or out of place, and what has been  *)
(* read is the beginning of one; the answers that are owed fit the state of *)
(* the connection (TCPClient.c:41-80, 216-225, MQTTClient.c:98-235).        *)
THEOREM DataHolds == Ordinary => (Spec => [](CInv /\ DInv))
<1> SUFFICES ASSUME Ordinary PROVE Spec => [](CInv /\ DInv)
  OBVIOUS
<1>1. Init => CInv /\ DInv
  BY InitControl, InitData
<1>2. CInv /\ DInv /\ [Next]_vars => (CInv /\ DInv)'
  BY NextKeeps
<1> QED
  BY <1>1, <1>2, PTL DEF Spec

----------------------------------------------------------------------------
(* The theorems.                                                           *)

LEMMA TypesCorrect == ASSUME CInv, DInv PROVE TypeOK
<1>1. /\ Base \in Nat \ {0} /\ Base >= 1
  BY MqttAssumption
<1>2. Len(stack) <= 4
  <2>1. stack \in Seq(Addresses) /\ Len(stack) \in Nat
    BY DEF CInv, Nest
  <2>2. at \notin Routines => Len(stack) <= 1
    <3>1. at \notin Routines => Home(at, stack)
      BY DEF CInv, Nest, HereOf, UnderOf
    <3>2. stack = <<>> => Len(stack) = 0
      OBVIOUS
    <3> QED
      BY <3>1, <3>2 DEF Home
  <2>3. at \in Routines => Len(stack) <= 2
    <3> SUFFICES ASSUME at \in Routines PROVE Len(stack) <= 2
      OBVIOUS
    <3> PICK t : t = Tail(stack)
      OBVIOUS
    <3>1. stack # <<>> /\ Home(Head(stack), t)
      BY DEF CInv, Nest, HereOf, UnderOf
    <3>2. Len(t) = Len(stack) - 1
      BY <2>1, <3>1
    <3>3. t = <<>> \/ Len(t) = 1
      BY <3>1 DEF Home
    <3>4. t = <<>> => Len(t) = 0
      BY Nothing
    <3> QED
      BY <2>1, <3>2, <3>3, <3>4
  <2> QED
    BY <2>1, <2>2, <2>3
<1>3. TcpTypeOK
  BY <1>2 DEF TcpTypeOK, CInv, Types
<1>4. at = "MQTTClient_disconnect" => result = -1
  <2>1. at = "MQTTClient_disconnect" => Here = at /\ at \in Askers /\ at \notin Failing
    BY Places DEF Routines, Askers, Failing
  <2> QED
    BY <2>1 DEF CInv, Numbered
<1>5. rd.multiplier < 2 * Base
  <2>1. rd = NoPacket => rd.multiplier = 1
    BY DEF NoPacket
  <2>2. Here \notin Reading => rd = NoPacket
    BY DEF CInv, Reader
  <2>3. Here \in Reading => rd = NoPacket \/ rd.multiplier \in {1, Base} \/ rd.multiplier < 2 * Base
    BY DEF DInv, Packets, Partial
  <2> QED
    BY <1>1, <2>1, <2>2, <2>3
<1>6. Len(packet) <= MQTT_MAX_PACKET_SIZE
  BY DEF DInv, Packets
<1> QED
  BY <1>3, <1>4, <1>5, <1>6 DEF TypeOK, CInv, Types

(* Every variable has its type: the client never reads past its block       *)
(* (TCPClient.c:216), the packet stays in its buffer (MQTTClient.c:151),    *)
(* calls are nested a bounded number of times, and what the loop gives up   *)
(* is closed.                                                               *)
THEOREM TypeCorrect == Ordinary => (Spec => []TypeOK)
<1>1. CInv /\ DInv => TypeOK
  BY TypesCorrect
<1> QED
  BY <1>1, DataHolds, PTL

(* While a ping is outstanding on a living connection its answer is owed,   *)
(* under way or not looked at yet: the keep-alive never gives up a server   *)
(* that answered (MQTTClient.c:98, 181-193, 224).                           *)
THEOREM PingPending == Ordinary => (Spec => []PingIsPending)
<1>1. CInv /\ DInv => PingIsPending
  BY DEF DInv, Pinging, Answering, PingIsPending
<1> QED
  BY <1>1, DataHolds, PTL

----------------------------------------------------------------------------
(***************************************************************************)
(* Every step is a step of MqttSession or changes nothing it tells of.     *)
(***************************************************************************)
Said(l) == [k \in DOMAIN l |-> l[k].msg]

Refined == Session!Next \/ (Said(log') = Said(log) /\ UNCHANGED <<handed, garbled>>)

LEMMA SaidIs ==
  ASSUME NEW l \in Seq(Sent)
  PROVE  /\ Said(l) \in Seq(Messages \cup {NoMsg}) /\ Len(Said(l)) = Len(l)
         /\ \A k \in 1 .. Len(l) : Said(l)[k] = l[k].msg
<1> DEFINE n == Len(l)
<1>1. n \in Nat /\ DOMAIN l = 1 .. n
  OBVIOUS
<1>2. ASSUME NEW k \in 1 .. n PROVE l[k].msg \in Messages \cup {NoMsg}
  <2>1. l[k] \in Sent
    OBVIOUS
  <2> QED
    BY <2>1 DEF Sent
<1>3. Said(l) \in [1 .. n -> Messages \cup {NoMsg}]
  BY <1>1, <1>2 DEF Said
<1>4. \A k \in 1 .. n : Said(l)[k] = l[k].msg
  BY <1>1 DEF Said
<1> HIDE DEF n
<1>5. Said(l) \in Seq(Messages \cup {NoMsg}) /\ Len(Said(l)) = n
  BY <1>1, <1>3
<1> QED
  BY <1>4, <1>5 DEF n

LEMMA SaidMore ==
  ASSUME NEW l \in Seq(Sent), NEW e \in Sent
  PROVE  Said(Append(l, e)) = Append(Said(l), e.msg)
<1> DEFINE S == Messages \cup {NoMsg}
           n == Len(l)
           m == Append(l, e)
           a == Said(m)
           s == Said(l)
           b == Append(s, e.msg)
<1>1. n \in Nat /\ m \in Seq(Sent) /\ Len(m) = n + 1 /\ m[n + 1] = e /\ \A k \in 1 .. n : m[k] = l[k]
  OBVIOUS
<1>2. s \in Seq(S) /\ Len(s) = n /\ \A k \in 1 .. n : s[k] = l[k].msg
  BY SaidIs
<1>3. e.msg \in S
  BY DEF Sent
<1>4. a \in Seq(S) /\ Len(a) = Len(m) /\ \A k \in 1 .. Len(m) : a[k] = m[k].msg
  BY <1>1, SaidIs
<1> HIDE DEF S, n, m, a, s
<1>5. b \in Seq(S) /\ Len(b) = n + 1 /\ b[n + 1] = e.msg /\ \A k \in 1 .. n : b[k] = l[k].msg
  BY <1>1, <1>2, <1>3
<1>6. \A k \in 1 .. n + 1 : k \in 1 .. n \/ k = n + 1
  BY <1>1
<1>7. \A k \in 1 .. n + 1 : a[k] = b[k]
  BY <1>1, <1>4, <1>5, <1>6
<1> HIDE DEF b
<1>8. a = b
  BY <1>1, <1>4, <1>5, <1>7, SeqEqual
<1> QED
  BY <1>8 DEF a, b, m, s

LEMMA SaidNext ==
  ASSUME NEW l \in Seq(Sent), l # <<>>, NEW t, t = SubSeq(l, 2, Len(l))
  PROVE  Said(t) = SubSeq(Said(l), 1 + 1, Len(Said(l)))
<1> DEFINE S == Messages \cup {NoMsg}
           n == Len(l)
           a == Said(t)
           s == Said(l)
           b == SubSeq(s, 2, n)
<1>1. /\ n \in Nat \ {0} /\ t \in Seq(Sent) /\ n = Len(t) + 1
      /\ \A k \in 1 .. Len(t) : t[k] = l[k + 1] /\ k + 1 \in 1 .. n
  <2>1. t \in Seq(Sent)
    BY ThroughIs
  <2>2. n = Len(t) + 1
    BY ThroughIs
  <2>3. \A k \in 1 .. Len(t) : t[k] = l[k + 1] /\ k + 1 \in 1 .. n
    BY ThroughIs
  <2>4. n \in Nat \ {0}
    OBVIOUS
  <2> QED
    BY <2>1, <2>2, <2>3, <2>4
<1>2. s \in Seq(S) /\ Len(s) = n /\ \A k \in 1 .. n : s[k] = l[k].msg
  BY SaidIs
<1>4. a \in Seq(S) /\ Len(a) = Len(t) /\ \A k \in 1 .. Len(t) : a[k] = t[k].msg
  BY <1>1, SaidIs
<1> HIDE DEF S, n, a, s
<1>5. b \in Seq(S) /\ Len(b) = n - 1 /\ \A k \in 1 .. n - 1 : b[k] = s[k + 1]
  BY <1>1, <1>2
<1>6. Len(t) = n - 1 /\ Len(t) \in Nat
  BY <1>1
<1>7. \A k \in 1 .. n - 1 : a[k] = b[k]
  BY <1>1, <1>2, <1>4, <1>5, <1>6
<1> HIDE DEF b
<1>8. a = b
  BY <1>4, <1>5, <1>6, <1>7, SeqEqual
<1>9. 1 + 1 = 2 /\ b = SubSeq(s, 2, Len(s))
  BY <1>2 DEF b
<1> QED
  BY <1>8, <1>9 DEF a, s

LEMMA StutterRefines ==
  ASSUME UNCHANGED <<log, handed, garbled>> PROVE Refined
BY DEF Refined

(* The server sends something.                                              *)
LEMMA SendRefines ==
  ASSUME DInv, NEW t, NEW m, NEW s, Sends(t, m, s),
         t \in {CONNACK, PUBLISH, SUBACK, PINGREQ, PINGRESP}, m \in Messages \cup {NoMsg}
  PROVE  Refined
<1> DEFINE e == [type |-> t, msg |-> m]
<1>1. e \in Sent /\ e.msg = m
  BY DEF Sent
<1>2. log \in Seq(Sent) /\ log' = Append(log, e) /\ UNCHANGED <<handed, garbled>>
  BY DEF DInv, Served, Sends
<1> HIDE DEF e
<1>3. Said(log') = Append(Said(log), m)
  BY <1>1, <1>2, SaidMore
<1>4. Session!Send(m)
  BY <1>2, <1>3 DEF Session!Send, Said
<1> QED
  BY <1>4 DEF Refined, Session!Next

LEMMA ServerRefines ==
  ASSUME DInv, Answers \/ Publishes \/ Pings PROVE Refined
<1>1. NoMsg \in Messages \cup {NoMsg}
  OBVIOUS
<1>2. CASE Answers
  BY <1>1, <1>2, SendRefines DEF Answers
<1>3. CASE Publishes
  BY <1>3, SendRefines DEF Publishes
<1>4. CASE Pings
  BY <1>1, <1>4, SendRefines DEF Pings
<1> QED
  BY <1>2, <1>3, <1>4

(* The client is through with a packet, which is the first of the log.      *)
LEMMA ThroughRefines ==
  ASSUME DInv, Through, log # <<>>, UNCHANGED garbled,
         \/ handed' = handed
         \/ handed = NoMsg /\ log[1].msg # NoMsg /\ handed' = log[1].msg
  PROVE  Refined
<1>1. log \in Seq(Sent) /\ log' = SubSeq(log, 2, Len(log))
  BY DEF DInv, Served, Through
<1>2. Said(log') = SubSeq(Said(log), 1 + 1, Len(Said(log)))
  <2> PICK t : t = SubSeq(log, 2, Len(log))
    OBVIOUS
  <2>1. Said(t) = SubSeq(Said(log), 1 + 1, Len(Said(log)))
    BY <1>1, SaidNext
  <2> QED
    BY <1>1, <2>1
<1>3. Len(log) \in Nat \ {0} /\ 1 \in 1 .. Len(log) /\ 1 \in DOMAIN log
  BY <1>1
<1>4. 1 \in DOMAIN Said(log) /\ Said(log)[1] = log[1].msg
  BY <1>3 DEF Said
<1>5. Session!Past(1)
  BY <1>2 DEF Session!Past, Said
<1>6. CASE handed' = handed
  <2>1. Session!Skip(1)
    BY <1>5, <1>6 DEF Session!Skip
  <2> QED
    BY <1>4, <2>1 DEF Refined, Session!Next, Said
<1>7. CASE handed = NoMsg /\ log[1].msg # NoMsg /\ handed' = log[1].msg
  <2>1. Session!Hand(1)
    BY <1>4, <1>5, <1>7 DEF Session!Hand, Said
  <2> QED
    BY <1>4, <2>1 DEF Refined, Session!Next, Said
<1> QED
  BY <1>6, <1>7

LEMMA WelcomedRefines ==
  ASSUME Ordinary, CInv, DInv, Welcomed PROVE Refined
<1>1. Through /\ UNCHANGED <<handed, garbled>>
  BY DEF Welcomed, server
<1>2. CASE log # <<>>
  BY <1>1, <1>2, ThroughRefines
<1>3. CASE log = <<>>
  <2> PICK t : t = SubSeq(log, 2, Len(log))
    OBVIOUS
  <2>1. t = log
    BY <1>3, ThroughIs DEF DInv, Served
  <2>2. log' = log
    BY <1>1, <2>1 DEF Through
  <2> QED
    BY <1>1, <2>2, StutterRefines
<1> QED
  BY <1>2, <1>3

LEMMA DispatchRefines ==
  ASSUME Ordinary, CInv, DInv, Dispatch PROVE Refined
<1>1. at = "dispatch" /\ result > 0 /\ Here = at /\ Through /\ UNCHANGED garbled
  BY AtMain DEF Dispatch, Mains, server
<1>2. result = Len(packet) /\ packet # <<>> /\ packet \in Seq(Nat)
  BY <1>1 DEF CInv, Reader, Types
<1>3. log # <<>> /\ FrameOf(log[1], packet) /\ log \in Seq(Sent)
  BY <1>1, <1>2, TakesFirst DEF DInv, Served
<1>4. CASE handed' = handed
  BY <1>1, <1>3, <1>4, ThroughRefines
<1>5. CASE Deliver
  <2>1. At(1) = log[1].type
    <3>1. Len(packet) \in Nat \ {0}
      BY <1>2
    <3>2. packet[1] = log[1].type
      BY <1>3 DEF FrameOf
    <3> QED
      BY <3>1, <3>2 DEF At
  <2>2. log[1].type = PUBLISH /\ tl <= MQTT_MAX_TOPIC_LEN /\ handed' = Message
    BY <1>5, <2>1 DEF Deliver
  <2>3. packet = Encoded(log[1].msg)
    BY <1>3, <2>2 DEF FrameOf
  <2>4. log[1].msg \in Messages
    <3>1. 1 \in 1 .. Len(log)
      BY <1>3
    <3> QED
      BY <2>2, <3>1 DEF DInv, Served
  <2>5. Message = log[1].msg
    BY <1>2, <2>2, <2>3, <2>4, MessageIs
  <2>6. log[1].msg # NoMsg
    BY <2>4 DEF Ordinary, Fits, NoMsg
  <2>7. handed = NoMsg
    BY <1>1 DEF DInv, Handed
  <2> QED
    BY <1>1, <1>3, <2>2, <2>5, <2>6, <2>7, ThroughRefines
<1> QED
  BY <1>4, <1>5 DEF Dispatch, TopicTooLong, AnswerPing, PingAnswered, OtherPacket

LEMMA PlainRefines ==
  ASSUME Ordinary, CInv, DInv, PlainStep, ~Welcomed, ~Dispatch PROVE Refined
<1>1. log' = log /\ (handed' = NoMsg \/ handed' = handed)
  BY PlainTakesNone
<1>2. garbled' = garbled
  BY PlainQuiet
<1>3. CASE handed' = handed
  BY <1>1, <1>2, <1>3, StutterRefines
<1>4. CASE handed' = NoMsg
  <2>1. Session!HandedBack
    BY <1>1, <1>2, <1>4 DEF Session!HandedBack
  <2> QED
    BY <2>1 DEF Refined, Session!Next
<1> QED
  BY <1>1, <1>3, <1>4

LEMMA FlyportTaskRefines ==
  ASSUME Ordinary, CInv, DInv, FlyportTask PROVE Refined
<1>1. CASE PlainStep
  BY <1>1, PlainRefines, WelcomedRefines, DispatchRefines
<1>2. CASE Tcp /\ UNCHANGED mqttVars
  BY <1>2, StutterRefines DEF mqttVars, server
<1>3. CASE MQTTClient_readPacket \/ MQTTClient_readByte \/ Available
  BY <1>3, StutterRefines DEF MQTTClient_readPacket, MQTTClient_readByte, Available, Other, server
<1>4. CASE MQTTClient_connect \/ Wrote \/ MQTTClient_publish
  BY <1>4, StutterRefines DEF MQTTClient_connect, Wrote, MQTTClient_publish, Others, server
<1> QED
  BY <1>1, <1>2, <1>3, <1>4 DEF FlyportTask, PlainStep

LEMMA GSMTaskRefines ==
  ASSUME Ordinary, CInv, DInv, GSMTask PROVE Refined
<1>1. CASE WriteReaches
  <2>1. UNCHANGED <<log, handed>>
    BY <1>1 DEF WriteReaches
  <2>2. ~garbled /\ ~garbled'
    BY <1>1, WriteReachesData DEF DInv, Handed
  <2>3. garbled \in BOOLEAN /\ garbled' \in BOOLEAN
    BY <1>1, GSMTaskKeeps DEF CInv, Types, GSMTask
  <2> QED
    BY <2>1, <2>2, <2>3, StutterRefines
<1>2. CASE NewConnection
  <2>1. log' = <<>> /\ UNCHANGED <<handed, garbled>>
    BY <1>2 DEF NewConnection
  <2>2. Said(log') = <<>>
    BY <2>1 DEF Said
  <2>3. Session!Open
    BY <2>1, <2>2 DEF Session!Open, Said
  <2> QED
    BY <2>3 DEF Refined, Session!Next
<1>3. CASE UNCHANGED mqttVars
  BY <1>3, StutterRefines DEF mqttVars, server
<1> QED
  BY <1>1, <1>2, <1>3 DEF GSMTask

LEMMA OthersRefine ==
  ASSUME Ordinary, CInv, DInv, Arrives \/ Registers \/ Ticks \/ Serves \/ Surroundings
  PROVE  Refined
<1>1. CASE Arrives \/ Registers
  BY <1>1, StutterRefines DEF Arrives, Registers, mqttVars, server
<1>2. CASE Ticks
  BY <1>2, StutterRefines DEF Ticks, Tick, server
<1>3. CASE Serves
  BY <1>3, ServerRefines DEF Serves
<1>4. CASE Surroundings
  BY <1>4, ServerRefines, StutterRefines DEF Surroundings, mqttVars, server
<1> QED
  BY <1>1, <1>2, <1>3, <1>4

(* The client implements MqttSession: the callback gets the messages of the *)
(* server, whole, in order and at most once, for every buffer size, segment *)
(* size and number of faults, and the server can parse what it is sent      *)
(* (MQTTClient.c:130-166, 200-233, 273-301, TCPClient.c:41-80).             *)
THEOREM SessionImplemented == Ordinary => (Spec => ImplementsSession)
<1> SUFFICES ASSUME Ordinary PROVE Spec => ImplementsSession
  OBVIOUS
<1>1. Init => Session!Init
  <2> SUFFICES ASSUME Init PROVE Session!Init
    OBVIOUS
  <2>1. log = <<>> /\ handed = NoMsg /\ garbled = FALSE
    BY DEF Init
  <2> QED
    BY <2>1 DEF Session!Init
<1>2. CInv /\ DInv /\ [Next]_vars => Refined
  <2>1. UNCHANGED vars => UNCHANGED <<log, handed, garbled>>
    BY DEF vars, mqttVars, server
  <2> QED
    BY <2>1, FlyportTaskRefines, GSMTaskRefines, OthersRefine, StutterRefines DEF Next
<1>3. CInv /\ DInv /\ [Next]_vars => [Session!Next]_Session!svars
  BY <1>2 DEF Refined, Session!svars, Said
<1>4. Spec => [](CInv /\ DInv)
  BY DataHolds
<1> QED
  BY <1>1, <1>3, <1>4, PTL DEF Spec, ImplementsSession, Session!Spec
=============================================================================
