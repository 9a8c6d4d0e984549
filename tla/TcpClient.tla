------------------------------ MODULE TcpClient ------------------------------
(***************************************************************************)
(* The TCP client of the gateway (tcpclient/TCPClient.c) over the sockets  *)
(* of the modem.  A client holds one block of received bytes; it asks the  *)
(* modem for the next one when the block is used up and a notification has *)
(* counted bytes.  An error closes the socket, and connect tries until it  *)
(* gets one, asking for a restart of the modem when that takes too long.   *)
(*                                                                         *)
(* A call of the modem is one request with one verdict (RemoteCall says    *)
(* what the modem layer promises, GsmCommand shows how it keeps it): a     *)
(* modem that is restarted answers the call under way, or the verdict that *)
(* was not read yet, with a success nobody earned.                         *)
(***************************************************************************)
EXTENDS Integers, Sequences, SequencesExt, FiniteSets

CONSTANTS
  TCP_MAX_BUF_SIZE,
  MaxSessions,   \* sockets the modem can hold
  ResetAfter,    \* the 600 seconds of TCPClient_connect
  Segment,       \* bytes the network brings at a time
  FaultKinds,    \* what may go wrong
  MaxFaults      \* bound

ASSUME TcpAssumption ==
  /\ {TCP_MAX_BUF_SIZE, MaxSessions, Segment} \subseteq Nat \ {0}
  /\ {ResetAfter, MaxFaults} \subseteq Nat
  /\ FaultKinds \subseteq {"linkdown", "error", "noclose", "leak", "break",
                            "readbreak", "refuse", "slow", "stall"}

VARIABLES
  at, stack, result,         \* FlyportTask: where, return addresses, value
  number, rxLen, notif,      \* TCP_SOCKET: number is valid, notif is set
  buff, size, idx, tick,     \* TCPClient_t; tick is the age of this->tick
  call, verdict, len,        \* the request to the modem
  hwFault, registered, sessions,     \* the modem
  session, link, rcv, wire,  \* our socket in it: bytes received, under way
  faults

control == <<at, stack, result>>
socket  == <<number, rxLen, notif>>
block   == <<buff, size, idx>>
request == <<call, verdict, len>>
modem   == <<hwFault, registered, sessions>>
peer    == <<session, link, rcv, wire>>
tcpVars == <<control, socket, block, tick, request, modem, peer, faults>>

Least(a, b) == IF a < b THEN a ELSE b

TcpInit ==
  /\ at = "down" /\ stack = <<>> /\ result = 0
  /\ number = FALSE /\ rxLen = 0 /\ notif = FALSE
  /\ buff = [i \in 0 .. TCP_MAX_BUF_SIZE - 1 |-> 0] /\ size = 0 /\ idx = 0
  /\ tick = 0
  /\ call = "none" /\ verdict = "success" /\ len = 0
  /\ hwFault = FALSE /\ registered = TRUE /\ sessions = 0
  /\ session = FALSE /\ link = FALSE /\ rcv = <<>> /\ wire = <<>>
  /\ faults = 0

Fault(k) == k \in FaultKinds /\ faults < MaxFaults /\ faults' = faults + 1

----------------------------------------------------------------------------
(* Function calls of FlyportTask, and its calls of the modem.              *)
Goto(p)     == at' = p /\ UNCHANGED <<stack, result>>
Enter(f, p) == at' = f /\ stack' = <<p>> \o stack /\ result' = 0
Return(v)   == at' = Head(stack) /\ stack' = Tail(stack) /\ result' = v

Ask(c, n)   == call' = c /\ len' = n /\ verdict' = "pending"
Asking(p)   == at = p /\ verdict # "pending"
Heard       == call' = "none" /\ verdict' = "success" /\ len' = 0

Local == UNCHANGED <<modem, peer, faults>>

TCPClient_init ==
  /\ number' = FALSE /\ notif' = FALSE /\ rxLen' = 0
  /\ size' = 0 /\ idx' = 0 /\ tick' = 0 /\ UNCHANGED buff

(* TCPClient_available is TCPCheckStatus with -1 taken for 0.              *)
TCPCheckStatus ==
  /\ at = "TCPCheckStatus" /\ Local /\ UNCHANGED <<socket, block, tick>>
  /\ \/ size > 0 /\ Return(size) /\ UNCHANGED request
     \/ size = 0 /\ ~number /\ Return(-1) /\ UNCHANGED request
     \/ size = 0 /\ number /\ rxLen = 0 /\ Return(0) /\ UNCHANGED request
     \/ /\ size = 0 /\ number /\ rxLen > 0
        /\ hwFault => "readbreak" \in FaultKinds
        /\ Goto("TCPRead") /\ Ask("TCPRead", Least(rxLen, TCP_MAX_BUF_SIZE))

(* The block is taken to be as long as it was asked for.                   *)
TCPReadEnds ==
  /\ Asking("TCPRead") /\ Heard /\ Local /\ UNCHANGED <<socket, buff, tick>>
  /\ \/ verdict = "success" /\ size' = len /\ idx' = 0 /\ Return(len)
     \/ /\ verdict = "failure" /\ at' = "TCPHandleError" /\ result' = -1
        /\ UNCHANGED <<stack, size, idx>>

TCPHandleError ==
  /\ at = "TCPHandleError"
  /\ Local /\ UNCHANGED <<rxLen, notif, block, tick, request>>
  /\ IF hwFault THEN number' = FALSE /\ Return(result)
                ELSE Goto("TCPClient_stop") /\ UNCHANGED number

TCPClient_stop ==
  /\ at = "TCPClient_stop" /\ Local /\ UNCHANGED <<socket, block, tick>>
  /\ IF number THEN Goto("closing") /\ Ask("TCPClientClose", 0)
               ELSE Return(result) /\ UNCHANGED request

Closed ==
  /\ Asking("closing") /\ Heard
  /\ number' = FALSE /\ Return(result)
  /\ Local /\ UNCHANGED <<rxLen, notif, block, tick>>

TCPClient_connected ==
  /\ at = "TCPClient_connected" /\ Local
  /\ UNCHANGED <<socket, block, tick, request>>
  /\ IF number THEN Goto("TCPCheckStatus") ELSE Return(-1)

TCPClient_write ==
  /\ at = "TCPClient_write" /\ Local /\ UNCHANGED <<socket, block, tick>>
  /\ IF number THEN Goto("TCPWrite") /\ Ask("TCPWrite", len)
               ELSE Return(0) /\ len' = 0 /\ UNCHANGED <<call, verdict>>

TCPWriteEnds ==
  /\ Asking("TCPWrite") /\ Heard
  /\ Local /\ UNCHANGED <<socket, block, tick>>
  /\ \/ verdict = "success" /\ Return(1)
     \/ /\ verdict = "failure" /\ at' = "TCPHandleError" /\ result' = 0
        /\ UNCHANGED stack

TCPClient_flush ==
  /\ at = "TCPClient_flush" /\ Local /\ UNCHANGED <<socket, block, tick>>
  /\ IF number THEN Goto("TCPRxFlush") /\ Ask("TCPRxFlush", 0)
               ELSE Return(0) /\ UNCHANGED request

TCPFlushEnds ==
  /\ Asking("TCPRxFlush") /\ Heard
  /\ Local /\ UNCHANGED <<socket, block, tick>>
  /\ IF verdict = "success" THEN Return(0) ELSE Goto("TCPHandleError")

(* One byte of the block: TCPClient_readByte with size > 0.  What was used *)
(* is forgotten unless a read that breaks may show it again.               *)
(* Mutant: the byte is read and still counted.                             *)
TakeKeepsSize == idx' = idx + 1 /\ UNCHANGED <<buff, size>>

Take ==
  /\ size' = size - 1
  /\ IF "readbreak" \in FaultKinds THEN idx' = idx + 1 /\ UNCHANGED buff
     ELSE /\ idx' = IF size = 1 THEN 0 ELSE idx + 1
          /\ buff' = [buff EXCEPT ![idx] = 0]

----------------------------------------------------------------------------
(* TCPClient_connect, entered with TCPClient_init.                         *)
(* Mutant: the client never asks for a restart of the modem.               *)
NoRequestReset == hwFault' = hwFault

RequestReset == hwFault' = TRUE

TCPClient_connect ==
  /\ at = "TCPClient_connect"
  /\ \/ /\ tick > ResetAfter /\ tick' = 0 /\ RequestReset
        /\ UNCHANGED <<control, request, registered, sessions>>
     \/ /\ tick <= ResetAfter /\ ~hwFault /\ registered
        /\ Goto("APNConfig") /\ Ask("APNConfig", 0)
        /\ UNCHANGED <<tick, modem>>
  /\ UNCHANGED <<socket, block, peer, faults>>

APNConfigEnds ==
  /\ Asking("APNConfig") /\ Local /\ UNCHANGED <<rxLen, notif, block, tick>>
  /\ \/ /\ verdict = "success" /\ number' = FALSE
        /\ Goto("TCPClientOpen") /\ Ask("TCPClientOpen", 0)
     \/ /\ verdict = "failure" /\ Heard
        /\ Goto("TCPClient_connect") /\ UNCHANGED number

TCPOpenEnds ==
  /\ Asking("TCPClientOpen") /\ Heard
  /\ IF verdict = "success" /\ number THEN Return(1) /\ tick' = 0
     ELSE Goto("TCPClient_connect") /\ UNCHANGED tick
  /\ Local /\ UNCHANGED <<socket, block>>

Tcp ==
  \/ TCPCheckStatus \/ TCPReadEnds \/ TCPHandleError \/ TCPClient_stop
  \/ Closed \/ TCPClient_connected \/ TCPClient_write \/ TCPWriteEnds
  \/ TCPClient_flush \/ TCPFlushEnds \/ TCPClient_connect \/ APNConfigEnds
  \/ TCPOpenEnds

----------------------------------------------------------------------------
(***************************************************************************)
(* The modem and GSMTask.                                                  *)
(***************************************************************************)
Pending(c) == call = c /\ verdict = "pending" /\ ~hwFault
Verdict(v) == verdict' = v /\ UNCHANGED <<call, len>>

NoSocket == session' = FALSE /\ link' = FALSE /\ rcv' = <<>> /\ wire' = <<>>

(* AT+KTCPSTAT says how much there is, AT+KTCPRCV reads no more of it.     *)
ReadDone ==
  /\ Pending("TCPRead") /\ session /\ Verdict("success")
  /\ LET k == Least(len, Len(rcv))
     IN  /\ buff' = [i \in DOMAIN buff |-> IF i < k THEN rcv[i + 1] ELSE buff[i]]
         /\ rcv' = SubSeq(rcv, k + 1, Len(rcv)) /\ rxLen' = Len(rcv) - k
  /\ notif' = ~link
  /\ UNCHANGED <<control, number, size, idx, tick, modem, session, link, wire,
                 faults>>

FlushDone ==
  /\ Pending("TCPRxFlush") /\ session /\ Verdict("success")
  /\ rcv' = <<>> /\ rxLen' = 0 /\ notif' = ~link
  /\ UNCHANGED <<control, number, block, tick, modem, session, link, wire,
                 faults>>

CloseDone ==
  /\ Pending("TCPClientClose") /\ session /\ Verdict("success")
  /\ NoSocket /\ sessions' = sessions - 1 /\ number' = FALSE
  /\ UNCHANGED <<control, rxLen, notif, block, tick, hwFault, registered,
                 faults>>

ConfigDone ==
  /\ Pending("APNConfig") /\ Verdict("success")
  /\ UNCHANGED <<control, socket, block, tick, modem, peer, faults>>

OpenDone ==
  /\ Pending("TCPClientOpen") /\ sessions < MaxSessions /\ Verdict("success")
  /\ sessions' = sessions + 1 /\ number' = TRUE
  /\ session' = TRUE /\ link' = TRUE /\ rcv' = <<>> /\ wire' = <<>>
  /\ UNCHANGED <<control, rxLen, notif, block, tick, hwFault, registered,
                 faults>>

(* The socket is made (AT+KTCPCFG) and then not connected, or a line that  *)
(* comes in between clears the number of one that is: nothing deletes it.  *)
OpenLeaks ==
  /\ Pending("TCPClientOpen") /\ sessions < MaxSessions /\ Fault("leak")
  /\ \E v \in {"success", "failure"} : Verdict(v)
  /\ sessions' = sessions + 1 /\ number' = FALSE
  /\ UNCHANGED <<control, rxLen, notif, block, tick, hwFault, registered, peer>>

(* A write to a peer that is gone may be accepted, unless the modem has    *)
(* told so already: then the callback refuses it.                          *)
WriteDone(reaches) ==
  /\ Pending("TCPWrite") /\ session /\ ~notif /\ reaches = link
  /\ Verdict("success")
  /\ UNCHANGED <<control, socket, block, tick, modem, peer, faults>>

(* What the modem cannot do: no such socket, none left, a peer known gone. *)
CannotDo ==
  \/ Pending("TCPClientOpen") /\ sessions = MaxSessions
  \/ Pending("TCPWrite") /\ (notif \/ ~link)
  \/ call \in {"TCPRead", "TCPWrite", "TCPRxFlush", "TCPClientClose"}
     /\ Pending(call) /\ ~session

CallFails ==
  /\ \/ CannotDo /\ UNCHANGED faults
     \/ call \notin {"none", "TCPClientClose"} /\ Pending(call) /\ Fault("error")
     \/ Pending("TCPClientClose") /\ Fault("noclose")
  /\ Verdict("failure")
  /\ UNCHANGED <<control, socket, block, tick, modem, peer>>

(* The modem stops answering, or sends a line that cannot be parsed.       *)
Break ==
  /\ ~hwFault /\ Fault("break")
  /\ call = "TCPRead" => "readbreak" \in FaultKinds
  /\ hwFault' = TRUE
  /\ IF call # "none" /\ verdict = "pending" THEN Verdict("failure")
     ELSE UNCHANGED request
  /\ UNCHANGED <<control, socket, block, tick, registered, sessions, peer>>

(* The restart of the modem, FlyportTask suspended.                        *)
ModemReset ==
  /\ hwFault /\ hwFault' = FALSE
  /\ registered' = FALSE /\ sessions' = 0 /\ NoSocket
  /\ IF call # "none" THEN Verdict("success") ELSE UNCHANGED request
  /\ UNCHANGED <<control, socket, block, tick, faults>>

Register ==
  /\ ~registered /\ ~hwFault /\ registered' = TRUE
  /\ UNCHANGED <<control, socket, block, tick, request, hwFault, sessions, peer,
                 faults>>

(* +KTCP_NOTIF; and data that arrive, with the +KTCP_DATA that counts them. *)
PeerNotice ==
  /\ session /\ ~hwFault /\ ~link /\ ~notif /\ notif' = TRUE
  /\ UNCHANGED <<control, number, rxLen, block, tick, request, modem, peer,
                 faults>>

Arrive ==
  /\ session /\ ~hwFault /\ wire # <<>>
  /\ LET n == Least(Segment, Len(wire))
     IN  /\ rcv' = rcv \o SubSeq(wire, 1, n) /\ rxLen' = Len(rcv) + n
         /\ wire' = SubSeq(wire, n + 1, Len(wire))
  /\ UNCHANGED <<control, number, notif, block, tick, request, modem, session,
                 link, faults>>

LinkDown ==
  /\ link /\ Fault("linkdown") /\ link' = FALSE /\ wire' = <<>>
  /\ UNCHANGED <<control, socket, block, tick, request, modem, session, rcv>>

TcpTypeOK ==
  /\ number \in BOOLEAN /\ notif \in BOOLEAN /\ hwFault \in BOOLEAN
  /\ session \in BOOLEAN /\ link \in BOOLEAN /\ registered \in BOOLEAN
  /\ rxLen \in Nat /\ size \in Nat /\ idx \in Nat
  /\ size + idx <= TCP_MAX_BUF_SIZE
  /\ len \in Nat
  /\ sessions \in 0 .. MaxSessions /\ faults \in 0 .. MaxFaults
  /\ verdict \in {"pending", "success", "failure"}
  /\ Len(stack) <= 4
=============================================================================
