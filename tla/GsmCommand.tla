----------------------------- MODULE GsmCommand -----------------------------
(***************************************************************************)
(* The GSM task (project/gmgw/Main.c), the checks its callbacks share      *)
(* (gprs/Hilo.c) and the task that calls the front ends of the libraries.  *)
(* The front end leaves a request in mainOpStatus under xSemFrontEnd and   *)
(* the application polls ExecStat; the GSM task takes the semaphore, runs  *)
(* the callback from the case its static smInternal names, and leaves it   *)
(* when a check fails: on another line than the expected one it lets       *)
(* GSMUnsol read the ring and calls the callback again, on a timeout it    *)
(* suspends FlyportTask and restarts the modem.                            *)
(*                                                                         *)
(* The ring holds whole lines.  A line carries, beside its text, the       *)
(* number of the request it answers (0: none), which the code cannot see.  *)
(* A byte or two left of a line that was read too early is a crumb.        *)
(***************************************************************************)
EXTENDS AtScripts

CONSTANTS
  Asked,       \* the callbacks the application asks for
  Messages,    \* the unsolicited messages the modem may send
  FaultKinds,  \* what else may go wrong
  MaxRequests, MaxFaults,  \* bounds
  MaxBlocks    \* bound on the data blocks the server sends

(* The callbacks that are not scripts of AT commands.                      *)
Modes == {"cLLModeEnable", "cLLWrite", "cSTDModeEnable", "cGSMOn"}

ASSUME GsmAssumption ==
  /\ Asked \subseteq Callbacks \cup Modes
  /\ FaultKinds \subseteq {"message", "crumb", "cut", "error", "late",
                            "unparsed", "deaf", "reset"}
  /\ {MaxRequests, MaxFaults, MaxBlocks} \subseteq Nat

VARIABLES
  mainGSMStateMachine, ExecStat, Function, hwReady,
  smInternal,   \* of each library
  msg2send,     \* the text written last
  gsm,          \* where GSMTask is
  at,           \* the case under way in the callback
  xSemFrontEnd,
  fly, want,    \* where FlyportTask is, the callback it asks for
  suspended,
  ring, wire,   \* received lines; lines the modem will send
  socket, notif,   \* xSocket->number, a TCP notification is set
  requests, faults, blocks,  \* what the bounds count
  seen,         \* the kinds of faults so far
  path, gap, foreign, unparsed, reset  \* how the request went, see Asking

mainOp  == <<ExecStat, Function>>
front   == <<fly, want, requests>>
task    == <<gsm, at, xSemFrontEnd>>
hidden  == <<path, gap, foreign, unparsed, reset>>
fault   == <<faults, seen>>
modem   == <<ring, wire>>
handle  == <<socket, notif>>
vars    == <<mainGSMStateMachine, mainOp, hwReady, smInternal, msg2send, task,
             front, suspended, modem, handle, blocks, fault, hidden>>

NoCall == "none"

Line(k, x)  == [kind |-> k, text |-> x, of |-> 0]
Crumb       == Line("crumb", "")

(***************************************************************************)
(* Unsolicited messages: how GSMUnsol tells them and what it makes of them *)
(* (a notice is told and used, an alarm also ends the command that meets   *)
(* it, a flood makes it read on to the end of the ring).                   *)
(***************************************************************************)
RING        == Line("notice", "RING")
NO_CARRIER  == Line("alarm", "nocarrier")
BUSY        == Line("notice", "BUSY")
CMS_ERROR   == Line("alarm", "cms")
CME_ERROR   == Line("alarm", "cme")
CMTI        == Line("notice", "CMTI")
CDS         == Line("notice", "CDS")
CREG        == Line("notice", "CREG")
KTCP_NOTIF  == Line("notice", "KTCP_NOTIF")
KTCP_DATA   == Line("notice", "KTCP_DATA")
KFTP_ERROR  == Line("flood", "cme")

Malformed   == Line("bad", "")     \* told, but its fields are not there
Junk        == Line("junk", "")    \* not told

Unsolicited == {RING, NO_CARRIER, BUSY, CMS_ERROR, CME_ERROR, CMTI, CDS, CREG,
                KTCP_NOTIF, KTCP_DATA, KFTP_ERROR, Malformed, Junk}

ASSUME MessagesAssumption == Messages \subseteq Unsolicited

(* Any line that begins like +KTCP is read as one.                         *)
KtcpTexts == {"KTCPCFG", "KTCPCNX", "KTCPCLOSE", "KTCPDEL", "KTCPSTAT",
              "KTCPRCV", "KTCPSND"}

Told(t) == t.kind \in {"notice", "alarm", "flood", "bad"} \/ t.text \in KtcpTexts

(* More than three bytes are in the ring.                                  *)
SomeLine == \E k \in DOMAIN ring : ring[k] # Crumb

FirstTold == SelectInSeq(ring, Told)

(***************************************************************************)
(* GSMUnsol drops what comes before the first message it can tell and      *)
(* reads that one; without one it drops everything, and of a line that is  *)
(* still arriving a crumb comes after.  A message it cannot parse goes to  *)
(* ErrorHandler, which leaves smInternal alone.                            *)
(***************************************************************************)
Told1 == ring[FirstTold]

ErrorHandler ==
  /\ ExecStat' = "SYNTAX_ERR"
  /\ mainGSMStateMachine' = "HW_FAULT"

GSMUnsol ==
  /\ SomeLine
  /\ IF FirstTold = 0 \/ Told1.kind = "flood"
     THEN /\ ring' \in {<<>>} \cup (IF "crumb" \in FaultKinds THEN {<<Crumb>>} ELSE {})
          /\ UNCHANGED <<ExecStat, mainGSMStateMachine, notif>>
     ELSE /\ ring' = SubSeq(ring, FirstTold + 1, Len(ring))
          /\ notif' = (notif \/ Told1 = KTCP_NOTIF)
          /\ IF Told1.kind = "bad" THEN ErrorHandler
             ELSE UNCHANGED <<ExecStat, mainGSMStateMachine>>

(***************************************************************************)
(* The checks of a line: echoFind, getAnswer and what CheckErr makes of    *)
(* their result.  The codes of +KFTP and +KSMTP errors are those of +CME.  *)
(***************************************************************************)
echoFind(t) ==
  IF t.kind = "echo" /\ t.text = msg2send THEN "ok"
  ELSE IF t.kind \in {"error", "alarm"} /\ t.text # "nocarrier" THEN t.text
  ELSE "unexpected"

getAnswer(t, a) ==
  IF t.kind = "answer" /\ t.text = a THEN "ok"
  ELSE IF t.kind \in {"error", "alarm", "flood"} THEN t.text
  ELSE "unexpected"

Status == [ok |-> "EXECUTION", unexpected |-> "EXECUTION",
           timeout |-> "TIMEOUT", error |-> "SYNTAX_ERR", cms |-> "CMS_ERR",
           cme |-> "CME_ERR", nocarrier |-> "NO_CARR_ERR"]

Lib   == LibraryOf(Function)
Cases      == Script[Function]
InCase(do) == /\ gsm = "call" /\ Function \in Callbacks /\ at < Len(Cases)
              /\ Cases[at + 1].do \in do
This       == Cases[at + 1]

(* Mutants: another line counts as the answer; a timeout is waited out.    *)
CheckErrCounts(r) ==
  /\ mainGSMStateMachine' = IF r = "timeout" THEN "HW_FAULT" ELSE "IDLE"
  /\ smInternal' = [smInternal EXCEPT ![Lib] =
                      IF r \in {"ok", "unexpected"} THEN @ + 1 ELSE 0]
  /\ ExecStat' = Status[r]

CheckErrWaits(r) ==
  /\ mainGSMStateMachine' = IF r \in {"timeout", "unexpected"} THEN "CMD_PENDING"
                            ELSE "IDLE"
  /\ smInternal' = [smInternal EXCEPT ![Lib] =
                      CASE r = "ok"                         -> @ + 1
                        [] r \in {"timeout", "unexpected"} -> @
                        [] OTHER                            -> 0]
  /\ ExecStat' = IF r = "timeout" THEN "EXECUTION" ELSE Status[r]

CheckErr(r) ==
  /\ mainGSMStateMachine' = CASE r = "unexpected" -> "CMD_PENDING"
                              [] r = "timeout"    -> "HW_FAULT"
                              [] OTHER            -> "IDLE"
  /\ smInternal' = [smInternal EXCEPT ![Lib] =
                      CASE r = "ok"         -> @ + 1
                        [] r = "unexpected" -> @
                        [] OTHER            -> 0]
  /\ ExecStat' = Status[r]

(* Mutant: every check sets the handle.                                    *)
GiveAlways(h) == socket' = h

Give(h) == socket' = IF h = "keep" THEN socket ELSE h

(* Mutant: the semaphore is not given back.                                *)
LeaveKeeps ==
  /\ gsm' = "loop" /\ at' = 0 /\ UNCHANGED xSemFrontEnd
  /\ path' = at

(* The callback returns; the case it was in is the one to come back to.    *)
Leave ==
  /\ gsm' = "loop" /\ at' = 0 /\ xSemFrontEnd' = "free"
  /\ path' = at

Fall == at' = at + 1 /\ UNCHANGED <<gsm, xSemFrontEnd, path>>

Fault(k) ==
  /\ k \in FaultKinds /\ faults < MaxFaults
  /\ faults' = faults + 1 /\ seen' = seen \cup {k}

(***************************************************************************)
(* The cases.                                                              *)
(***************************************************************************)
CaseFree ==
  /\ InCase({"free"})
  /\ IF ring = <<>>
     THEN /\ Fall
          /\ smInternal' = [smInternal EXCEPT ![Lib] = @ + 1]
          /\ UNCHANGED mainGSMStateMachine
     ELSE /\ Leave /\ mainGSMStateMachine' = "CMD_PENDING"
          /\ UNCHANGED smInternal
  /\ UNCHANGED <<mainOp, hwReady, msg2send, front, suspended, modem, handle,
                 blocks, fault, gap, foreign, unparsed, reset>>

Answered(k, x) == [kind |-> k, text |-> x, of |-> requests]

(* What the modem sends for it, with the echo of the command.              *)
Reaction(n, c) ==
  LET a == AnswersFrom(Cases, n)
  IN  [k \in DOMAIN a |->
         Answered(a[k].kind, IF a[k].kind = "echo" THEN c ELSE a[k].text)]

Reacts(n, c) ==
  \/ wire' = wire \o Reaction(n, c) /\ UNCHANGED fault
  \/ /\ Fault("cut")
     /\ \E k \in 1 .. Len(Reaction(n, c)) :
          wire' = wire \o SubSeq(Reaction(n, c), 1, k - 1)
  \/ /\ Fault("error")
     /\ wire' = wire \o (IF c = "" THEN <<>> ELSE <<Answered("echo", c)>>)
                     \o <<Answered("error", "error")>>

Write ==
  /\ Reacts(at + 2, This.text)
  /\ msg2send' = This.text
  /\ smInternal' = [smInternal EXCEPT ![Lib] = @ + 1]
  /\ Fall
  /\ UNCHANGED <<mainGSMStateMachine, mainOp, hwReady, front, suspended, ring,
                 handle, gap, foreign, unparsed, reset>>

CaseSend == InCase({"send"}) /\ Write /\ UNCHANGED blocks

CaseIfAny ==
  /\ InCase({"ifany"}) /\ blocks < MaxBlocks
  /\ Write /\ blocks' = blocks + 1

CaseSkip ==
  /\ InCase({"skip"}) /\ Fall
  /\ smInternal' = [smInternal EXCEPT ![Lib] = @ + 1]
  /\ UNCHANGED <<mainGSMStateMachine, mainOp, hwReady, msg2send, front,
                 suspended, modem, handle, blocks, fault, gap, foreign,
                 unparsed, reset>>

Checks == {"echo", "sized", "reply", "parse", "take", "blind", "upload", "again"}

Result(t) == IF This.do \in {"echo", "sized"} THEN echoFind(t)
             ELSE getAnswer(t, This.text)

Text == IF This.do \in {"echo", "sized"} THEN msg2send ELSE "answer"

(* The text of the echo that is skipped by a length the call never set.    *)
Misread ==
  {SubSeq(ring, k, Len(ring)) : k \in 2 .. Len(ring) + 1}
    \cup {<<Junk>> \o Tail(ring)}

Rest ==
  CASE This.do = "sized" /\ smInternal[Lib] = path -> Misread
    [] This.do = "blind" /\ Len(ring) > 1 /\ ring[2].kind = "data" ->
         {Tail(Tail(ring))}
    [] OTHER -> {Tail(ring)}

(* CheckEcho or CheckCmd finds the line.  A case that takes data waits for *)
(* it; one that uploads makes the modem answer; the last one of a flush    *)
(* starts over.                                                            *)
CheckSucceeds ==
  /\ InCase(Checks) /\ SomeLine
  /\ Result(Head(ring)) = "ok"
  /\ IF This.do # "again" THEN CheckErr("ok")
     ELSE /\ smInternal' = [smInternal EXCEPT ![Lib] = 1]
          /\ mainGSMStateMachine' = "IDLE" /\ ExecStat' = "EXECUTION"
  /\ msg2send' = Text
  /\ ring' \in Rest
  /\ Give(This.won)
  /\ foreign' = (foreign \/ Head(ring).of # requests)
  /\ \/ This.do = "take" /\ gsm' = "data" /\ UNCHANGED <<at, xSemFrontEnd, path>>
     \/ This.do = "again" /\ at' = 1 /\ UNCHANGED <<gsm, xSemFrontEnd, path>>
     \/ This.do \notin {"take", "again"} /\ Fall
  /\ IF This.do = "upload" THEN Reacts(at + 2, "") ELSE UNCHANGED <<wire, fault>>
  /\ UNCHANGED <<Function, hwReady, front, suspended, notif, blocks, gap,
                 unparsed, reset>>

CheckFails ==
  /\ InCase(Checks) /\ SomeLine
  /\ Result(Head(ring)) # "ok"
  /\ CheckErr(Result(Head(ring)))
  /\ msg2send' = Text
  /\ ring' = IF Result(Head(ring)) = "unexpected" THEN ring ELSE Tail(ring)
  /\ Give(This.lost)
  /\ Leave
  /\ UNCHANGED <<Function, hwReady, front, suspended, wire, notif, blocks,
                 fault, gap, foreign, unparsed, reset>>

(* No line came.  The answer may still be on its way.                      *)
CheckTimesOut ==
  /\ InCase(Checks) /\ ~SomeLine
  /\ IF wire = <<>> THEN UNCHANGED fault ELSE Fault("late")
  /\ CheckErr("timeout")
  /\ msg2send' = Text
  /\ Give(This.lost)
  /\ Leave
  /\ UNCHANGED <<Function, hwReady, front, suspended, modem, notif, blocks,
                 gap, foreign, unparsed, reset>>

(* getfield does not find a field of the answer: the switch is left by the *)
(* door of a finished command.  cTCPRxFlush has a loop around its switch   *)
(* and goes on with the next case, as if all fields were there.            *)
Done(status) ==
  /\ smInternal' = [smInternal EXCEPT ![Lib] = 0]
  /\ ExecStat' = status /\ Function' = NoCall
  /\ gsm' = "closing"

ParseFails ==
  /\ InCase({"parse"}) /\ Function # "cTCPRxFlush" /\ SomeLine
  /\ Result(Head(ring)) = "ok"
  /\ Fault("unparsed")
  /\ Done("SUCCESS")
  /\ msg2send' = Text
  /\ ring' = Tail(ring)
  /\ foreign' = (foreign \/ Head(ring).of # requests)
  /\ unparsed' = TRUE
  /\ UNCHANGED <<mainGSMStateMachine, hwReady, at, xSemFrontEnd, front,
                 suspended, wire, handle, blocks, path, gap, reset>>

(* The prompt of CMGS is the one answer nobody waits for.  Reading it      *)
(* empties the ring and does not count the case.                           *)
CasePrompt ==
  /\ InCase({"prompt"})
  /\ IF ring # <<>> /\ Head(ring).kind = "answer" /\ Head(ring).text = ">"
     THEN Fall /\ ring' = <<>>
     ELSE Leave /\ UNCHANGED ring
  /\ msg2send' = "answer"
  /\ UNCHANGED <<mainGSMStateMachine, mainOp, hwReady, smInternal, front,
                 suspended, wire, handle, blocks, fault, gap, foreign,
                 unparsed, reset>>

(* The data that follows CONNECT; its CheckErr counts a case once more.    *)
DataHere ==
  /\ gsm = "data" /\ ring # <<>>
  /\ CheckErr("ok")
  /\ ring' = Tail(ring)
  /\ gsm' = "call" /\ at' = at + 1
  /\ UNCHANGED <<Function, hwReady, msg2send, xSemFrontEnd, front, suspended,
                 wire, handle, blocks, fault, hidden>>

DataTimesOut ==
  /\ gsm = "data" /\ ring = <<>>
  /\ IF wire = <<>> THEN UNCHANGED fault ELSE Fault("late")
  /\ CheckErr("timeout")
  /\ Leave
  /\ UNCHANGED <<Function, hwReady, msg2send, front, suspended, modem, handle,
                 blocks, gap, foreign, unparsed, reset>>

(* cTCPWrite turns a request down at every entry while a notification of   *)
(* the socket is set.                                                      *)
Refused(f) == f = "cTCPWrite" /\ notif

PastTheLast == gsm = "call" /\ Function \in Callbacks /\ at >= Len(Cases)

Finish ==
  /\ \/ PastTheLast /\ Function # "cTCPRxFlush"
     \/ InCase({"unread", "ifany"})
  /\ Done("SUCCESS")
  /\ UNCHANGED <<mainGSMStateMachine, hwReady, msg2send, at, xSemFrontEnd,
                 front, suspended, modem, handle, blocks, fault, hidden>>

(* The loop of cTCPRxFlush ends in the case that sees nothing to read.  A  *)
(* smInternal past its cases, which a command of the same library that a   *)
(* malformed message ended may leave, goes round it for ever.              *)
Spinning == PastTheLast /\ Function = "cTCPRxFlush"

FlushSpins == Spinning /\ UNCHANGED vars

(* The last assignment of a callback and the return to CmdCheck; at tells  *)
(* which callback it was.                                                  *)
Close ==
  /\ gsm = "closing"
  /\ mainGSMStateMachine' = IF want = "cGSMHibernate" THEN "HIBERNATE" ELSE "IDLE"
  /\ gsm' = "loop" /\ at' = 0 /\ xSemFrontEnd' = "free"
  /\ UNCHANGED <<mainOp, hwReady, smInternal, msg2send, front, suspended,
                 modem, handle, blocks, fault, hidden>>

(***************************************************************************)
(* The loop of GSMTask.                                                    *)
(***************************************************************************)
Unsol ==
  /\ gsm = "loop" /\ mainGSMStateMachine \in {"IDLE", "CMD_PENDING"}
  /\ IF SomeLine THEN GSMUnsol
     ELSE UNCHANGED <<ring, notif, ExecStat, mainGSMStateMachine>>
  /\ gsm' = "check"
  /\ UNCHANGED <<Function, hwReady, smInternal, msg2send, at, xSemFrontEnd,
                 front, suspended, wire, socket, blocks, fault, hidden>>

(* CmdCheck: without a request it does nothing, else it waits for the      *)
(* semaphore and looks at ExecStat.                                        *)
Nothing ==
  /\ gsm = "check"
  /\ Function = NoCall \/ (xSemFrontEnd = "free" /\ ExecStat # "EXECUTION")
  /\ gsm' = "loop"
  /\ UNCHANGED <<mainGSMStateMachine, mainOp, hwReady, smInternal, msg2send, at,
                 xSemFrontEnd, front, suspended, modem, handle, blocks, fault,
                 hidden>>

(* Mutant: ExecStat is not looked at.                                      *)
CalledBlindly(f, status) == Function = f /\ xSemFrontEnd = "free"

Called(f, status) ==
  /\ Function = f /\ xSemFrontEnd = "free" /\ ExecStat = status

StartCall ==
  /\ gsm = "check" /\ Function \in Callbacks /\ ~Refused(Function)
  /\ Called(Function, "EXECUTION")
  /\ gsm' = "call" /\ xSemFrontEnd' = "GSM"
  /\ at' = smInternal[Lib]
  /\ gap' = (gap \/ smInternal[Lib] # path)
  /\ UNCHANGED <<mainGSMStateMachine, mainOp, hwReady, smInternal, msg2send,
                 front, suspended, modem, handle, blocks, fault, path, foreign,
                 unparsed, reset>>

RefuseCall ==
  /\ gsm = "check" /\ Refused(Function) /\ Called(Function, "EXECUTION")
  /\ CheckErr("error") /\ gsm' = "loop"
  /\ UNCHANGED <<Function, hwReady, msg2send, at, xSemFrontEnd, front,
                 suspended, modem, handle, blocks, fault, hidden>>

(* In hibernation every request but GSMOn is answered at once, and without *)
(* the semaphore.                                                          *)
Hibernating ==
  /\ gsm = "loop" /\ mainGSMStateMachine = "HIBERNATE"
  /\ Function \notin {NoCall, "cGSMOn"}
  /\ ExecStat' = "HIB_ERR" /\ Function' = NoCall
  /\ UNCHANGED <<mainGSMStateMachine, hwReady, smInternal, msg2send, task,
                 front, suspended, modem, handle, blocks, fault, hidden>>

(***************************************************************************)
(* HiloStdModeOn: HiloInit, then one command after the other, each of them *)
(* looked for in a ring nothing else reads; one that fails ends it.        *)
(***************************************************************************)
SetupCommands ==
  <<"ATE1", "CREG=0", "CRC=0", "CAOC=0", "CCWA=0", "CNMI", "CSMP", "CUSD",
    "CLIP=1", "KPATTERN", "CSDH", "CMGF", "CREG=1", "KSLEEP=0", "KGSN=0">>

(* Mutant: what is received and due stays.                                 *)
HiloInitKeeps ==
  /\ gsm \in {"reset", "setup"} /\ at = 0
  /\ at' = 1
  /\ UNCHANGED <<mainGSMStateMachine, mainOp, hwReady, smInternal, msg2send,
                 gsm, xSemFrontEnd, front, suspended, modem, handle, blocks,
                 fault, hidden>>

(* HiloReset, HiloPok and HiloComTest until the modem answers.             *)
HiloInit ==
  /\ gsm \in {"reset", "setup"} /\ at = 0
  /\ \/ at' = 1 /\ UNCHANGED fault
     \/ Fault("deaf") /\ UNCHANGED at
  /\ ring' = <<>> /\ wire' = <<>>
  /\ UNCHANGED <<mainGSMStateMachine, mainOp, hwReady, smInternal, msg2send,
                 gsm, xSemFrontEnd, front, suspended, handle, blocks, hidden>>

findStr ==
  /\ gsm \in {"reset", "setup"} /\ at \in 1 .. Len(SetupCommands)
  /\ at' = at + 1
  /\ UNCHANGED <<mainGSMStateMachine, mainOp, hwReady, smInternal, msg2send,
                 gsm, xSemFrontEnd, front, suspended, modem, handle, blocks,
                 fault, hidden>>

SetupFails ==
  /\ gsm \in {"reset", "setup"} /\ at \in 1 .. Len(SetupCommands)
  /\ Fault("deaf")

HiloStdModeOn == at = Len(SetupCommands) + 1

(* A hardware fault: FlyportTask is suspended wherever it is, the modem    *)
(* set up again until it works, and the request answered.                  *)
Suspend ==
  /\ gsm = "loop" /\ mainGSMStateMachine = "HW_FAULT"
  /\ suspended' = TRUE /\ hwReady' = FALSE
  /\ gsm' = "reset" /\ at' = 0
  /\ UNCHANGED <<mainGSMStateMachine, mainOp, smInternal, msg2send,
                 xSemFrontEnd, front, modem, handle, blocks, fault, hidden>>

ResetFails ==
  /\ gsm = "reset" /\ SetupFails /\ at' = 0
  /\ UNCHANGED <<mainGSMStateMachine, mainOp, hwReady, smInternal, msg2send,
                 gsm, xSemFrontEnd, front, suspended, modem, handle, blocks,
                 hidden>>

Resume ==
  /\ gsm = "reset" /\ HiloStdModeOn
  /\ mainGSMStateMachine' = "IDLE"
  /\ Function' = NoCall /\ ExecStat' = "SUCCESS"
  /\ hwReady' = TRUE /\ suspended' = FALSE
  /\ gsm' = "loop" /\ at' = 0
  /\ reset' = TRUE
  /\ UNCHANGED <<smInternal, msg2send, xSemFrontEnd, front, modem, handle,
                 blocks, fault, path, gap, foreign, unparsed>>

(***************************************************************************)
(* The callbacks that change the mode.  cSTDModeEnable tries once and      *)
(* reports a success whatever came of it; cGSMOn tries until it works.     *)
(***************************************************************************)
cLLModeEnable ==
  /\ gsm = "loop" /\ mainGSMStateMachine = "LL_MODE"
  /\ Called("cLLModeEnable", "LL")
  /\ hwReady' = FALSE /\ Function' = NoCall
  /\ UNCHANGED <<mainGSMStateMachine, ExecStat, smInternal, msg2send, task,
                 front, suspended, modem, handle, blocks, fault, hidden>>

cLLWrite ==
  /\ gsm = "loop" /\ mainGSMStateMachine = "LL_MODE"
  /\ Called("cLLWrite", "LL")
  /\ Function' = NoCall
  /\ UNCHANGED <<mainGSMStateMachine, ExecStat, hwReady, smInternal, msg2send,
                 task, front, suspended, modem, handle, blocks, fault, hidden>>

StartSetup ==
  /\ \/ gsm = "check" /\ Called("cSTDModeEnable", "EXECUTION")
     \/ /\ gsm = "loop" /\ mainGSMStateMachine = "HIBERNATE"
        /\ Called("cGSMOn", "EXECUTION")
  /\ gsm' = "setup" /\ at' = 0 /\ xSemFrontEnd' = "GSM"
  /\ UNCHANGED <<mainGSMStateMachine, mainOp, hwReady, smInternal, msg2send,
                 front, suspended, modem, handle, blocks, fault, hidden>>

cSTDModeEnable ==
  /\ gsm = "setup"
  /\ ExecStat' = "SUCCESS" /\ Function' = NoCall /\ at' = 0
  /\ \/ HiloStdModeOn /\ hwReady' = TRUE /\ UNCHANGED fault
     \/ SetupFails /\ UNCHANGED hwReady
  /\ IF want = "cGSMOn" /\ ~HiloStdModeOn THEN UNCHANGED <<gsm, xSemFrontEnd>>
     ELSE gsm' = "loop" /\ xSemFrontEnd' = "free"
  /\ IF want = "cGSMOn" /\ HiloStdModeOn THEN mainGSMStateMachine' = "IDLE"
     ELSE UNCHANGED mainGSMStateMachine
  /\ UNCHANGED <<smInternal, msg2send, front, suspended, modem, handle, blocks,
                 hidden>>

(***************************************************************************)
(* The modem.                                                              *)
(***************************************************************************)
Arrive ==
  /\ wire # <<>> /\ gsm \notin {"reset", "setup"}
  /\ ring' = Append(ring, Head(wire)) /\ wire' = Tail(wire)
  /\ UNCHANGED <<mainGSMStateMachine, mainOp, hwReady, smInternal, msg2send,
                 task, front, suspended, handle, blocks, fault, hidden>>

(* An unsolicited message comes between two lines, not before data.        *)
DataIsNext == wire # <<>> /\ Head(wire).kind = "data"

Unasked ==
  /\ gsm \notin {"reset", "setup", "data"} /\ ~DataIsNext
  /\ "message" \in FaultKinds /\ faults < MaxFaults
  /\ \E m \in Messages :
       /\ ring' = Append(ring, m)
       /\ faults' = faults + 1 /\ seen' = seen \cup {m.kind}
  /\ UNCHANGED <<mainGSMStateMachine, mainOp, hwReady, smInternal, msg2send,
                 task, front, suspended, wire, handle, blocks, hidden>>

(***************************************************************************)
(* The application.  A front end takes the semaphore, sees that no command *)
(* runs, sets ExecStat, Function and the parameters, and gives it back; on *)
(* a modem that is not ready it returns at once.  From here on the request *)
(* is followed: the case it should come back to, whether it ever came back *)
(* to another one (gap), took a line of another request for its answer     *)
(* (foreign), lost a field (unparsed) or was answered by a reset.          *)
(***************************************************************************)
Entered(f) ==
  /\ f \in Asked /\ fly = "idle" /\ ~suspended
  /\ xSemFrontEnd = "free" /\ ExecStat # "EXECUTION"
  /\ requests < MaxRequests /\ requests' = requests + 1
  /\ xSemFrontEnd' = "fly" /\ fly' = "inside" /\ want' = f
  /\ path' = 0
  /\ gap' = FALSE /\ foreign' = FALSE /\ unparsed' = FALSE /\ reset' = FALSE
  /\ UNCHANGED <<hwReady, msg2send, gsm, at, suspended, modem, handle, blocks,
                 fault, Function>>

Asking(f) ==
  /\ hwReady /\ Entered(f)
  /\ ExecStat' = "EXECUTION"
  /\ UNCHANGED mainGSMStateMachine

Asks(f)  == Asking(f) /\ UNCHANGED smInternal
Afresh(f) == Asking(f) /\ smInternal' = [smInternal EXCEPT ![LibraryOf(f)] = 0]

TCPClientOpen   == socket = "invalid" /\ Asks("cTCPClientOpen")
TCPClientClose  == socket # "invalid" /\ Asks("cTCPClientClose")
TCPRead         == Asks("cTCPRead")
TCPWrite        == Asks("cTCPWrite")
TCPStatus       == Asks("cTCPStatus")
TCPRxFlush      == Asks("cTCPRxFlush")
GSMHibernate    == mainGSMStateMachine # "HIBERNATE" /\ Asks("cGSMHibernate")
GSMSleep        == Asks("cGSMHibernate")
GSMOn           == mainGSMStateMachine = "HIBERNATE" /\ Asks("cGSMOn")
GSMSignal       == Asks("cGSMSignal")
APNConfig       == Asks("cAPNConfig")
FTPConfig       == Asks("cFTPConfig")
FTPReceive      == Asks("cFTPReceive")
FTPSend         == Asks("cFTPSend")
FTPDelete       == Asks("cFTPDelete")
HTTPRequest     == Asks("cHTTPRequest")
SMSSend         == Asks("cSMSSend")
SMSRead         == Afresh("cSMSRead")
SMSDelete       == Afresh("cSMSDelete")
SMTPParamsSet   == Asks("cSMTPParamsSet")
SMTPEmailTo     == Asks("cSMTPEmailTo")
SMTPEmailSend   == Asks("cSMTPEmailSend")
SMTPParamsClear == Asks("cSMTPParamsClear")
FSWrite         == Asks("cFSWrite")
FSRead          == Asks("cFSRead")
FSDelete        == Asks("cFSDelete")
FSSize          == Asks("cFSSize")
FSAppend        == Asks("cFSAppend")
CALLHangUp      == Asks("cCALLHangUp")
CALLVoiceStart  == Asks("cCALLVoiceStart")

(* Back from low level mode, the one front end of a modem not ready.       *)
STDModeEnable ==
  /\ Entered("cSTDModeEnable")
  /\ mainGSMStateMachine' = IF mainGSMStateMachine = "LL_MODE" THEN "IDLE"
                            ELSE mainGSMStateMachine
  /\ ExecStat' = "EXECUTION"
  /\ UNCHANGED smInternal

(* Nothing waits for the low level functions: ExecStat stays OP_LL.        *)
LowLevel(f) ==
  /\ f \in Asked /\ fly = "idle" /\ ~suspended /\ xSemFrontEnd = "free"
  /\ requests < MaxRequests /\ requests' = requests + 1
  /\ Function' = f
  /\ UNCHANGED <<hwReady, smInternal, msg2send, task, fly, want, suspended,
                 modem, handle, blocks, fault, hidden>>

LLModeEnable ==
  /\ ExecStat # "LL" /\ LowLevel("cLLModeEnable")
  /\ ExecStat' = "LL" /\ mainGSMStateMachine' = "LL_MODE"

LLWrite ==
  /\ ExecStat = "LL" /\ LowLevel("cLLWrite")
  /\ UNCHANGED <<ExecStat, mainGSMStateMachine>>

Submit ==
  /\ fly = "inside" /\ ~suspended
  /\ Function' = want
  /\ xSemFrontEnd' = "free" /\ fly' = "waiting"
  /\ UNCHANGED <<mainGSMStateMachine, ExecStat, hwReady, smInternal, msg2send,
                 gsm, at, want, requests, suspended, modem, handle, blocks,
                 fault, hidden>>

(* LastExecStat is not OP_EXECUTION any more.                              *)
Return ==
  /\ fly = "waiting" /\ ~suspended /\ ExecStat # "EXECUTION"
  /\ fly' = "idle"
  /\ UNCHANGED <<mainGSMStateMachine, mainOp, hwReady, smInternal, msg2send,
                 task, want, requests, suspended, modem, handle, blocks, fault,
                 hidden>>

(* The TCP client asks for a reset by the state of the GSM task itself.    *)
RequestReset ==
  /\ fly = "idle" /\ ~suspended /\ Fault("reset")
  /\ mainGSMStateMachine' = "HW_FAULT"
  /\ UNCHANGED <<mainOp, hwReady, smInternal, msg2send, task, front, suspended,
                 modem, handle, blocks, hidden>>

(* TCPClient_init and TCPHandleError give a handle up.                     *)
Forget ==
  /\ fly = "idle" /\ ~suspended /\ (socket # "invalid" \/ notif)
  /\ "cTCPClientOpen" \in Asked
  /\ socket' = "invalid" /\ notif' = FALSE
  /\ UNCHANGED <<mainGSMStateMachine, mainOp, hwReady, smInternal, msg2send,
                 task, front, suspended, modem, blocks, fault, hidden>>

Init ==
  /\ mainGSMStateMachine = "IDLE" /\ ExecStat = "SUCCESS" /\ Function = NoCall
  /\ hwReady = TRUE /\ smInternal = [l \in Libraries |-> 0] /\ msg2send = "none"
  /\ gsm = "loop" /\ at = 0 /\ xSemFrontEnd = "free"
  /\ fly = "idle" /\ want = NoCall /\ suspended = FALSE
  /\ ring = <<>> /\ wire = <<>> /\ socket = "invalid" /\ notif = FALSE
  /\ requests = 0 /\ faults = 0 /\ blocks = 0 /\ seen = {}
  /\ path = 0 /\ gap = FALSE /\ foreign = FALSE
  /\ unparsed = FALSE /\ reset = FALSE

Call ==
  \/ CaseFree \/ CaseSend \/ CaseIfAny \/ CaseSkip \/ CasePrompt
  \/ CheckSucceeds \/ CheckFails \/ CheckTimesOut \/ ParseFails
  \/ DataHere \/ DataTimesOut \/ Finish \/ Close

GSMTask ==
  \/ Call \/ FlushSpins
  \/ Unsol \/ Nothing \/ StartCall \/ RefuseCall \/ Hibernating
  \/ HiloInit \/ findStr \/ Suspend \/ ResetFails \/ Resume
  \/ cLLModeEnable \/ cLLWrite \/ StartSetup \/ cSTDModeEnable

FrontEnd ==
  \/ TCPClientOpen \/ TCPClientClose \/ TCPRead \/ TCPWrite \/ TCPStatus
  \/ TCPRxFlush \/ GSMHibernate \/ GSMSleep \/ GSMOn \/ GSMSignal \/ APNConfig
  \/ FTPConfig \/ FTPReceive \/ FTPSend \/ FTPDelete \/ HTTPRequest
  \/ SMSSend \/ SMSRead \/ SMSDelete \/ SMTPParamsSet \/ SMTPEmailTo
  \/ SMTPEmailSend \/ SMTPParamsClear \/ FSWrite \/ FSRead \/ FSDelete
  \/ FSSize \/ FSAppend \/ CALLHangUp \/ CALLVoiceStart \/ STDModeEnable
  \/ LLModeEnable \/ LLWrite

FlyportTask == FrontEnd \/ Submit \/ Return \/ RequestReset \/ Forget

Next == GSMTask \/ Arrive \/ Unasked \/ FlyportTask

Spec == Init /\ [][Next]_vars

(* Both tasks run, lines on the wire arrive; nothing obliges the modem to  *)
(* speak unasked or the application to ask.                                *)
Fairness ==
  WF_vars(GSMTask) /\ WF_vars(Arrive) /\ WF_vars(Submit) /\ WF_vars(Return)

FairSpec == Spec /\ Fairness
(***************************************************************************)
(* Properties.                                                             *)
(***************************************************************************)
Statuses == {"SUCCESS", "EXECUTION", "LL", "HIB_ERR", "TIMEOUT", "SYNTAX_ERR",
             "CMS_ERR", "CME_ERR", "NO_CARR_ERR"}

AnyCall == Callbacks \cup Modes \cup {NoCall}

(* Every variable of the GSM task and of the front ends keeps its type; the *)
(* handle of the socket is one of xSocket->number's two meanings.           *)
TypeOK ==
  /\ mainGSMStateMachine \in {"IDLE", "CMD_PENDING", "LL_MODE", "HW_FAULT", "HIBERNATE"}
  /\ ExecStat \in Statuses /\ Function \in AnyCall /\ want \in AnyCall
  /\ hwReady \in BOOLEAN /\ suspended \in BOOLEAN /\ notif \in BOOLEAN
  /\ smInternal \in [Libraries -> Nat]
  /\ gsm \in {"loop", "check", "call", "data", "closing", "reset", "setup"}
  /\ at \in Nat /\ path \in Nat
  /\ xSemFrontEnd \in {"free", "GSM", "fly"}
  /\ fly \in {"idle", "inside", "waiting"}
  /\ socket \in {"invalid", "open"}
  /\ requests \in 0 .. MaxRequests /\ faults \in 0 .. MaxFaults
  /\ blocks \in 0 .. MaxBlocks

(* While a callback runs the GSM task holds xSemFrontEnd and FlyportTask is *)
(* outside its front ends: ExecStat, Function and the parameters of the     *)
(* command never change under a callback, however errors, resets and        *)
(* requests are interleaved (CmdCheck, the take and give of each front end).*)
CallbackIsAlone ==
  /\ gsm \in {"call", "data", "closing", "setup"} <=> xSemFrontEnd = "GSM"
  /\ fly = "inside" <=> xSemFrontEnd = "fly"

Succeeded == fly = "waiting" /\ ExecStat = "SUCCESS" /\ want \in Callbacks

(* The callbacks whose smInternal does not count their cases one by one:    *)
(* CheckErr is called twice after data, and not at all after the prompt.    *)
Miscounts ==
  {f \in Callbacks : \E k \in DOMAIN Script[f] : Script[f][k].do \in {"take", "prompt"}}

(* OP_SUCCESS means that the script was run from its first case to its last *)
(* and came back, after every interruption, to the case it had left.  The   *)
(* exceptions are the code's: a reset answers for the command, a field that *)
(* is not found ends the switch, a malformed unsolicited message leaves     *)
(* smInternal in the middle for the next command of the same library, and   *)
(* two kinds of callbacks miscount.                                         *)
SuccessIsComplete ==
  Succeeded /\ ~reset /\ ~unparsed =>
    ~gap \/ "bad" \in seen \/ want \in Miscounts

(* ... and that every line taken for an answer was the answer to this       *)
(* request: an answer that comes after its timeout, or is cut off, is never *)
(* the answer to a later command, since a timeout restarts the modem and    *)
(* drops what is on its way.  Only a command that ended early, on an        *)
(* unsolicited error or, for cTCPWrite, on a notification, leaves answers   *)
(* a later command may take; and cSMSSend, for which the gateway never asks,*)
(* leaves those to the text it writes twice.                                *)
SuccessIsOwn ==
  Succeeded /\ ~reset =>
    \/ ~foreign
    \/ seen \cap {"bad", "alarm", "flood"} # {}
    \/ "notice" \in seen /\ "cTCPWrite" \in Asked

(* The task and the front ends implement RemoteCall.                        *)
Remote ==
  INSTANCE RemoteCall WITH
    Requests <- Asked,
    phase    <- IF fly = "idle" THEN "idle"
                ELSE IF ExecStat = "EXECUTION" THEN "called" ELSE "answered",
    request  <- IF fly = "idle" THEN NoCall ELSE want,
    verdict  <- IF fly = "idle" \/ ExecStat \in {"EXECUTION", "SUCCESS"}
                THEN "success" ELSE "failure",
    up       <- mainGSMStateMachine # "HW_FAULT"

ImplementsRemoteCall == Remote!Spec

(* The application that polls LastExecStat gets an answer: no message, lost *)
(* answer, error or reset leaves a request in execution forever.  The one   *)
(* exception is the code's: a cTCPRxFlush that is called past its last case *)
(* never returns, and that takes a malformed message in the middle of a     *)
(* cTCPRead before it.                                                      *)
RequestEnds ==
  (fly = "waiting" /\ ExecStat = "EXECUTION")
    ~> (ExecStat # "EXECUTION" \/ (Spinning /\ "bad" \in seen))

(* TCPlib.c:1345 says of the last case of cTCPRxFlush that it executes the  *)
(* commands again "just to be sure that TCP RX Buffer is blank": the flush  *)
(* goes round for what came meanwhile and no other reason, so it ends.      *)
FlushEnds == Spinning ~> ~Spinning

(* TCPlib.c:98 says of the handle of TCPClientOpen "INVALID_SOCKET: the     *)
(* operation was failed", so a request that succeeded leaves a valid one.   *)
InvalidMeansFailed ==
  Succeeded /\ want = "cTCPClientOpen" /\ ~reset /\ ~unparsed =>
    socket # "invalid"

(* SMSlib.c:289 removed the check of the prompt "since if we received echo, *)
(* we must receive the cursor": a callback that waits for it gets it.       *)
PromptComes ==
  Function = "cSMSSend" /\ smInternal.SMSlib = 6 /\ gsm \in {"loop", "check"} =>
    \E t \in ToSet(ring \o wire) : t.text = ">"
==============================================================================
