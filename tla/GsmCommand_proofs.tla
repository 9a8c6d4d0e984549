-------------------------- MODULE GsmCommand_proofs --------------------------
(***************************************************************************)
(* Proofs about GsmCommand, for every set of callbacks, messages, faults   *)
(* and bounds.  That callbacks run alone and that the layer is a RemoteCall*)
(* needs nothing of the lines: whatever a check makes of one, the callback *)
(* goes on in execution or leaves with the semaphore and a status, and who *)
(* may be where when the status changes is in IInv.  The types add what    *)
(* may lie in the ring and what the scripts are made of (TInv), that a     *)
(* success is complete adds how smInternal counts the cases (CInv), and    *)
(* that it took its own answers adds which lines may be due, in which      *)
(* order, at which case of a script (OInv).                                *)
(***************************************************************************)
EXTENDS GsmCommand, ListLemmas, TLAPS

InCallback == gsm \in {"call", "data", "closing", "setup"}

(* The semaphore is held by whoever is inside, and only then.              *)
Semaphore ==
  /\ InCallback <=> xSemFrontEnd = "GSM"
  /\ fly = "inside" <=> xSemFrontEnd = "fly"

(* FlyportTask is out of the way exactly during a reset for a fault.       *)
Suspension ==
  /\ suspended = (gsm = "reset")
  /\ gsm = "reset" => mainGSMStateMachine = "HW_FAULT"

(* A callback runs on a request in execution, so that somebody waits.      *)
Executing ==
  /\ gsm \in {"call", "data"} => ExecStat = "EXECUTION"
  /\ gsm = "setup" => ExecStat \in {"EXECUTION", "SUCCESS"}
  /\ fly = "idle" => ExecStat # "EXECUTION"

(* In hibernation no earned success waits to be overwritten.               *)
Asleep ==
  /\ gsm = "closing" => Function = NoCall
  /\ mainGSMStateMachine = "HIBERNATE" =>
       /\ fly = "inside" => ExecStat # "SUCCESS"
       /\ fly # "idle" /\ Function # NoCall => ExecStat # "SUCCESS"

IInv == Semaphore /\ Suspension /\ Executing /\ Asleep

(***************************************************************************)
(* The part of the state the invariant and the abstract layer look at, and *)
(* the few ways a step changes it.                                         *)
(***************************************************************************)
Seen == <<mainGSMStateMachine, ExecStat, Function, gsm, xSemFrontEnd, fly, want,
          suspended>>

Kept == UNCHANGED <<fly, want, suspended>>

(* A check inside a callback lets it go on, or leave with any status.      *)
GoesOn ==
  /\ gsm' \in {"call", "data"} /\ ExecStat' = "EXECUTION"
  /\ UNCHANGED <<xSemFrontEnd, Function>> /\ Kept
  /\ mainGSMStateMachine' \in {mainGSMStateMachine, "IDLE"}

Leaves ==
  /\ gsm' = "loop" /\ xSemFrontEnd' = "free" /\ UNCHANGED Function /\ Kept
  /\ \/ UNCHANGED <<mainGSMStateMachine, ExecStat>>
     \/ mainGSMStateMachine' \in {"IDLE", "CMD_PENDING"}
     \/ mainGSMStateMachine' = "HW_FAULT" /\ ExecStat' = "TIMEOUT"

Ends ==
  /\ gsm' = "closing" /\ ExecStat' = "SUCCESS" /\ Function' = NoCall
  /\ UNCHANGED <<mainGSMStateMachine, xSemFrontEnd>> /\ Kept

(* What CheckErr makes of each result.                                     *)
LEMMA CheckErrOk ==
  ASSUME CheckErr("ok")
  PROVE  mainGSMStateMachine' = "IDLE" /\ ExecStat' = "EXECUTION"
BY DEF CheckErr, Status

LEMMA CheckErrOther ==
  ASSUME NEW r, r # "ok", CheckErr(r)
  PROVE  \/ mainGSMStateMachine' \in {"IDLE", "CMD_PENDING"}
         \/ mainGSMStateMachine' = "HW_FAULT" /\ ExecStat' = "TIMEOUT"
<1>1. CASE r = "unexpected"
  BY <1>1 DEF CheckErr
<1>2. CASE r = "timeout"
  BY <1>2 DEF CheckErr, Status
<1>3. CASE r \notin {"unexpected", "timeout"}
  BY <1>3 DEF CheckErr
<1> QED
  BY <1>1, <1>2, <1>3

(* Every case of a callback goes on, leaves or ends it.                    *)
LEMMA CaseEffect ==
  ASSUME IInv, Call, ~Close
  PROVE  gsm \in {"call", "data"} /\ (GoesOn \/ Leaves \/ Ends)
<1> USE DEF IInv, Executing, Kept
<1>1. CASE CaseFree
  BY <1>1 DEF CaseFree, InCase, Fall, Leave, GoesOn, Leaves, mainOp, front
<1>2. CASE CaseSend \/ CaseIfAny
  BY <1>2 DEF CaseSend, CaseIfAny, Write, InCase, Fall, GoesOn, mainOp, front
<1>3. CASE CaseSkip
  BY <1>3 DEF CaseSkip, InCase, Fall, GoesOn, mainOp, front
<1>4. CASE CasePrompt
  BY <1>4 DEF CasePrompt, InCase, Fall, Leave, GoesOn, Leaves, mainOp, front
<1>5. CASE CheckSucceeds
  <2>1. mainGSMStateMachine' = "IDLE" /\ ExecStat' = "EXECUTION"
    BY <1>5, CheckErrOk DEF CheckSucceeds
  <2>2. gsm = "call" /\ gsm' \in {"call", "data"}
    BY <1>5 DEF CheckSucceeds, InCase, Fall
  <2>3. UNCHANGED <<xSemFrontEnd, Function>> /\ Kept
    BY <1>5 DEF CheckSucceeds, Fall, front
  <2> QED
    BY <2>1, <2>2, <2>3 DEF GoesOn
<1>6. CASE CheckFails
  <2>1. PICK r : r # "ok" /\ CheckErr(r)
    BY <1>6 DEF CheckFails
  <2>2. gsm = "call" /\ UNCHANGED Function /\ Kept /\ Leave
    BY <1>6 DEF CheckFails, InCase, front
  <2> QED
    BY <2>1, <2>2, CheckErrOther DEF Leaves, Leave
<1>7. CASE CheckTimesOut
  <2>1. gsm = "call" /\ UNCHANGED Function /\ Kept /\ Leave /\ CheckErr("timeout")
    BY <1>7 DEF CheckTimesOut, InCase, front
  <2> QED
    BY <2>1, CheckErrOther DEF Leaves, Leave
<1>8. CASE ParseFails
  BY <1>8 DEF ParseFails, InCase, Done, Ends, front
<1>9. CASE DataHere
  <2>1. gsm = "data" /\ gsm' = "call" /\ CheckErr("ok")
    BY <1>9 DEF DataHere
  <2>2. UNCHANGED <<xSemFrontEnd, Function>> /\ Kept
    BY <1>9 DEF DataHere, front
  <2> QED
    BY <2>1, <2>2, CheckErrOk DEF GoesOn
<1>10. CASE DataTimesOut
  <2>1. gsm = "data" /\ UNCHANGED Function /\ Kept /\ Leave /\ CheckErr("timeout")
    BY <1>10 DEF DataTimesOut, front
  <2> QED
    BY <2>1, CheckErrOther DEF Leaves, Leave
<1>11. CASE Finish
  BY <1>11 DEF Finish, PastTheLast, InCase, Done, Ends, front
<1> QED
  BY <1>1, <1>2, <1>3, <1>4, <1>5, <1>6, <1>7, <1>8, <1>9, <1>10, <1>11 DEF Call

(***************************************************************************)
(* The other steps.                                                        *)
(***************************************************************************)
Quiet == UNCHANGED Seen

(* A front end is entered by a task that waits for nothing.                *)
Enters ==
  /\ fly = "idle" /\ ~suspended /\ xSemFrontEnd = "free" /\ ExecStat # "EXECUTION"
  /\ xSemFrontEnd' = "fly" /\ fly' = "inside" /\ want' \in Asked
  /\ ExecStat' = "EXECUTION"
  /\ \/ UNCHANGED mainGSMStateMachine
     \/ mainGSMStateMachine = "LL_MODE" /\ mainGSMStateMachine' = "IDLE"
  /\ UNCHANGED <<Function, gsm, suspended>>

(* Low level functions are asked for from outside as well, and nobody      *)
(* waits for them.                                                         *)
Lowers ==
  /\ fly = "idle" /\ ~suspended /\ xSemFrontEnd = "free"
  /\ \/ UNCHANGED <<mainGSMStateMachine, ExecStat>>
     \/ mainGSMStateMachine' = "LL_MODE" /\ ExecStat' = "LL"
  /\ UNCHANGED <<gsm, xSemFrontEnd, fly, want, suspended>>

LEMMA FrontEndShapes ==
  ASSUME FrontEnd
  PROVE  (\E f : Asks(f) \/ Afresh(f)) \/ STDModeEnable \/ LLModeEnable \/ LLWrite
<1>1. CASE \/ TCPClientOpen \/ TCPClientClose \/ TCPRead \/ TCPWrite \/ TCPStatus
           \/ TCPRxFlush \/ GSMHibernate \/ GSMSleep \/ GSMOn \/ GSMSignal
           \/ APNConfig \/ FTPConfig \/ FTPReceive \/ FTPSend \/ FTPDelete
           \/ HTTPRequest
  BY <1>1 DEF TCPClientOpen, TCPClientClose, TCPRead, TCPWrite, TCPStatus,
     TCPRxFlush, GSMHibernate, GSMSleep, GSMOn, GSMSignal, APNConfig, FTPConfig,
     FTPReceive, FTPSend, FTPDelete, HTTPRequest
<1>2. CASE \/ SMSSend \/ SMSRead \/ SMSDelete \/ SMTPParamsSet \/ SMTPEmailTo
           \/ SMTPEmailSend \/ SMTPParamsClear \/ FSWrite \/ FSRead \/ FSDelete
           \/ FSSize \/ FSAppend \/ CALLHangUp \/ CALLVoiceStart
  BY <1>2 DEF SMSSend, SMSRead, SMSDelete, SMTPParamsSet, SMTPEmailTo,
     SMTPEmailSend, SMTPParamsClear, FSWrite, FSRead, FSDelete, FSSize, FSAppend,
     CALLHangUp, CALLVoiceStart
<1> QED
  BY <1>1, <1>2 DEF FrontEnd

LEMMA FrontEndEffect ==
  ASSUME FrontEnd
  PROVE  Enters \/ Lowers
<1>1. ASSUME NEW f, Asking(f)
      PROVE  Enters
  BY <1>1 DEF Asking, Entered, Enters
<1>2. CASE \E f : Asks(f) \/ Afresh(f)
  BY <1>1, <1>2 DEF Asks, Afresh
<1>3. CASE STDModeEnable
  BY <1>3 DEF STDModeEnable, Entered, Enters
<1>4. CASE LLModeEnable \/ LLWrite
  BY <1>4 DEF LLModeEnable, LLWrite, LowLevel, Lowers, task
<1> QED
  BY <1>2, <1>3, <1>4, FrontEndShapes

(* The steps the abstract layer does not see.                              *)
Unseen ==
  \/ HiloInit \/ findStr \/ ResetFails \/ Arrive \/ Unasked \/ Forget
  \/ UNCHANGED vars

LEMMA UnseenEffect == ASSUME Unseen PROVE Quiet
<1> USE DEF Quiet, Seen, mainOp, front
<1>1. CASE HiloInit \/ findStr \/ ResetFails
  BY <1>1 DEF HiloInit, findStr, ResetFails
<1>2. CASE Arrive \/ Unasked \/ Forget
  BY <1>2 DEF Arrive, Unasked, Forget, task
<1>3. CASE UNCHANGED vars
  BY <1>3 DEF vars, task
<1> QED
  BY <1>1, <1>2, <1>3 DEF Unseen

(* Looking at the ring may end in the error handler.                       *)
Alerts ==
  /\ gsm = "loop" /\ mainGSMStateMachine \in {"IDLE", "CMD_PENDING"}
  /\ gsm' = "check" /\ UNCHANGED <<Function, xSemFrontEnd>> /\ Kept
  /\ \/ UNCHANGED <<mainGSMStateMachine, ExecStat>>
     \/ mainGSMStateMachine' = "HW_FAULT" /\ ExecStat' = "SYNTAX_ERR"

LEMMA UnsolEffect == ASSUME Unsol PROVE Alerts
BY DEF Unsol, GSMUnsol, ErrorHandler, Alerts, Kept, front

(* The steps that do not fit one of the shapes above.                      *)
Plain ==
  \/ Close \/ Nothing \/ StartCall \/ RefuseCall \/ Hibernating \/ Suspend
  \/ Resume \/ cLLModeEnable \/ cLLWrite \/ StartSetup \/ cSTDModeEnable
  \/ Submit \/ Return \/ RequestReset

LEMMA StepShapes ==
  ASSUME [Next]_vars
  PROVE  (Call /\ ~Close) \/ FrontEnd \/ Unseen \/ Unsol \/ Plain
BY DEF Next, GSMTask, FlyportTask, FlushSpins, Call, Unseen, Plain

(***************************************************************************)
(* The invariant.                                                          *)
(***************************************************************************)
LEMMA InitIInv == Init => IInv
BY DEF Init, IInv, Semaphore, Suspension, Executing, Asleep, InCallback

LEMMA NextIInv == IInv /\ [Next]_vars => IInv'
<1> SUFFICES ASSUME IInv, [Next]_vars PROVE IInv'
  OBVIOUS
<1> USE DEF IInv, Semaphore, Suspension, Executing, Asleep, InCallback
<1>1. CASE Call /\ ~Close
  BY <1>1, CaseEffect DEF GoesOn, Leaves, Ends, Kept
<1>2. CASE FrontEnd
  BY <1>2, FrontEndEffect DEF Enters, Lowers
<1>3. CASE Unseen
  BY <1>3, UnseenEffect DEF Quiet, Seen
<1>4. CASE Unsol
  BY <1>4, UnsolEffect DEF Alerts, Kept
<1>5. CASE Close
  BY <1>5 DEF Close, mainOp, front
<1>6. CASE Nothing
  BY <1>6 DEF Nothing, mainOp, front
<1>7. CASE StartCall
  BY <1>7 DEF StartCall, Called, mainOp, front
<1>8. CASE RefuseCall
  BY <1>8, CheckErrOther DEF RefuseCall, front, Called
<1>9. CASE Hibernating
  BY <1>9 DEF Hibernating, task, front
<1>10. CASE Suspend
  BY <1>10 DEF Suspend, mainOp, front
<1>11. CASE Resume
  BY <1>11 DEF Resume, front
<1>12. CASE cLLModeEnable \/ cLLWrite
  BY <1>12 DEF cLLModeEnable, cLLWrite, task, front
<1>13. CASE StartSetup
  BY <1>13 DEF StartSetup, Called, mainOp, front
<1>14. CASE cSTDModeEnable
  BY <1>14 DEF cSTDModeEnable, front
<1>15. CASE Submit
  BY <1>15 DEF Submit
<1>16. CASE Return
  BY <1>16 DEF Return, mainOp, task
<1>17. CASE RequestReset
  BY <1>17 DEF RequestReset, mainOp, task, front
<1> QED
  BY <1>1, <1>2, <1>3, <1>4, <1>5, <1>6, <1>7, <1>8, <1>9, <1>10, <1>11, <1>12,
     <1>13, <1>14, <1>15, <1>16, <1>17, StepShapes DEF Plain

LEMMA Invariant == Spec => []IInv
<1>1. Init => IInv
  BY InitIInv
<1>2. IInv /\ [Next]_vars => IInv'
  BY NextIInv
<1> QED
  BY <1>1, <1>2, PTL DEF Spec

(* While a callback runs the GSM task holds the semaphore and FlyportTask  *)
(* is outside its front ends (CmdCheck and the front ends).                *)
THEOREM CallbackAlone == Spec => []CallbackIsAlone
<1>1. IInv => CallbackIsAlone
  BY DEF IInv, Semaphore, InCallback, CallbackIsAlone
<1> QED
  BY <1>1, Invariant, PTL

(***************************************************************************)
(* The refinement.  phase, request, verdict and up are the images of the   *)
(* state; each shape of step is a step of RemoteCall or leaves all four.   *)
(***************************************************************************)
Phase   == IF fly = "idle" THEN "idle"
           ELSE IF ExecStat = "EXECUTION" THEN "called" ELSE "answered"
Request == IF fly = "idle" THEN NoCall ELSE want
Verdict == IF fly = "idle" \/ ExecStat \in {"EXECUTION", "SUCCESS"}
           THEN "success" ELSE "failure"
Up      == mainGSMStateMachine # "HW_FAULT"

Image == <<Phase, Request, Verdict, Up>>

Abstract == Remote!Next \/ UNCHANGED Image

(* A request that is followed up keeps its name.                           *)
LEMMA Followed ==
  ASSUME UNCHANGED <<fly, want>>
  PROVE  Request' = Request
BY DEF Request

(* A change of the status alone answers a request, or changes nothing.     *)
LEMMA StatusChange ==
  ASSUME UNCHANGED <<fly, want>>,
         fly # "idle" => ExecStat = "EXECUTION" \/ Verdict' = Verdict,
         fly = "idle" \/ ExecStat = "EXECUTION" \/ ExecStat' # "EXECUTION",
         Up' \in {Up, TRUE}
  PROVE  Abstract
<1>1. Up \in BOOLEAN /\ Up' \in BOOLEAN
  BY DEF Up
<1>2. Request' = Request
  BY Followed
<1>3. CASE Phase' = "answered" /\ Phase = "called"
  <2>1. Verdict' \in {"success", "failure"}
    BY DEF Verdict
  <2>2. Remote!Answer(Verdict')
    BY <1>2, <1>3 DEF Remote!Answer, Phase, Request, Verdict, Up
  <2> QED
    BY <2>1, <2>2 DEF Abstract, Remote!Next, Remote!Verdicts
<1>4. CASE Phase' = Phase
  <2>1. Verdict' = Verdict
    BY <1>4 DEF Phase, Verdict
  <2>2. CASE Up' = Up
    BY <1>2, <1>4, <2>1, <2>2 DEF Abstract, Image
  <2>3. CASE Up' # Up
    <3>1. ~Up /\ Up'
      BY <1>1, <2>3
    <3>2. Remote!Repair
      BY <1>2, <1>4, <2>1, <3>1 DEF Remote!Repair, Remote!Open, Phase, Request,
         Verdict, Up
    <3> QED
      BY <3>2 DEF Abstract, Remote!Next
  <2> QED
    BY <2>2, <2>3
<1>5. Phase' = Phase \/ (Phase' = "answered" /\ Phase = "called")
  BY DEF Phase
<1> QED
  BY <1>3, <1>4, <1>5

(* A fault fails the request there is.                                     *)
LEMMA FaultChange ==
  ASSUME UNCHANGED <<fly, want>>, ~Up',
         fly # "idle" => ExecStat' \notin {"EXECUTION", "SUCCESS"}
  PROVE  Abstract
<1>1. Request' = Request
  BY Followed
<1>2. Remote!Break
  BY <1>1 DEF Remote!Break, Remote!Open, Phase, Request, Verdict, Up
<1> QED
  BY <1>2 DEF Abstract, Remote!Next

LEMMA NextRefines == IInv /\ [Next]_vars => Abstract
<1> SUFFICES ASSUME IInv, [Next]_vars PROVE Abstract
  OBVIOUS
<1>1. CASE Call /\ ~Close
  <2>1. /\ fly # "idle" /\ ExecStat = "EXECUTION"
        /\ GoesOn \/ Leaves \/ Ends
    BY <1>1, CaseEffect DEF IInv, Executing
  <2>2. UNCHANGED <<fly, want>>
    BY <2>1 DEF GoesOn, Leaves, Ends, Kept
  <2>3. CASE mainGSMStateMachine' = "HW_FAULT" /\ ExecStat' = "TIMEOUT"
    BY <2>2, <2>3, FaultChange DEF Up
  <2>4. CASE Up' \in {Up, TRUE}
    BY <2>1, <2>2, <2>4, StatusChange
  <2>5. \/ mainGSMStateMachine' = "HW_FAULT" /\ ExecStat' = "TIMEOUT"
        \/ Up' \in {Up, TRUE}
    BY <2>1 DEF GoesOn, Leaves, Ends, Up
  <2> QED
    BY <2>3, <2>4, <2>5
<1>2. CASE FrontEnd
  <2>1. CASE Enters
    <3>1. Remote!Call(want')
      BY <2>1 DEF Enters, Remote!Call, Phase, Request, Verdict, Up, NoCall
    <3> QED
      BY <2>1, <3>1 DEF Enters, Abstract, Remote!Next
  <2>2. CASE Lowers
    BY <2>2, StatusChange DEF Lowers, Verdict, Up
  <2> QED
    BY <1>2, <2>1, <2>2, FrontEndEffect
<1>3. CASE Unseen
  BY <1>3, UnseenEffect DEF Quiet, Seen, Abstract, Image, Phase, Request,
     Verdict, Up
<1>4. CASE Unsol
  <2>1. Alerts
    BY <1>4, UnsolEffect
  <2>2. CASE UNCHANGED <<mainGSMStateMachine, ExecStat>>
    BY <2>1, <2>2 DEF Alerts, Kept, Abstract, Image, Phase, Request, Verdict, Up
  <2>3. CASE mainGSMStateMachine' = "HW_FAULT" /\ ExecStat' = "SYNTAX_ERR"
    BY <2>1, <2>3, FaultChange DEF Alerts, Kept, Up
  <2> QED
    BY <2>1, <2>2, <2>3 DEF Alerts
<1>5. CASE Close
  BY <1>5, StatusChange DEF Close, Verdict, Up, mainOp, front
<1>6. CASE Nothing \/ StartCall \/ Suspend
  BY <1>6 DEF Nothing, StartCall, Suspend, mainOp, front, Abstract, Image, Phase,
     Request, Verdict, Up
<1>7. CASE cLLModeEnable \/ cLLWrite \/ StartSetup
  BY <1>7 DEF cLLModeEnable, cLLWrite, StartSetup, mainOp, front, task, Abstract,
     Image, Phase, Request, Verdict, Up
<1>8. CASE RefuseCall
  <2>1. /\ ExecStat = "EXECUTION" /\ mainGSMStateMachine' = "IDLE"
        /\ UNCHANGED <<fly, want>>
    BY <1>8 DEF RefuseCall, Called, CheckErr, front
  <2> QED
    BY <2>1, StatusChange DEF Up
<1>9. CASE Hibernating
  <2>1. /\ UNCHANGED <<fly, want, mainGSMStateMachine>> /\ ExecStat' = "HIB_ERR"
        /\ fly # "idle" => ExecStat # "SUCCESS"
    BY <1>9 DEF Hibernating, front, IInv, Asleep
  <2> QED
    BY <2>1, StatusChange DEF Verdict, Up
<1>10. CASE Resume
  <2>1. /\ ~Up /\ Up' /\ ExecStat' = "SUCCESS" /\ UNCHANGED <<fly, want>>
    BY <1>10 DEF Resume, front, IInv, Suspension, Up
  <2>2. Request' = Request
    BY <2>1, Followed
  <2>3. Remote!Repair
    BY <2>1, <2>2 DEF Remote!Repair, Remote!Open, Phase, Request, Verdict, Up
  <2> QED
    BY <2>3 DEF Abstract, Remote!Next
<1>11. CASE cSTDModeEnable
  <2>1. /\ UNCHANGED <<fly, want>> /\ ExecStat' = "SUCCESS"
        /\ ExecStat \in {"EXECUTION", "SUCCESS"}
        /\ mainGSMStateMachine' \in {mainGSMStateMachine, "IDLE"}
    BY <1>11 DEF cSTDModeEnable, front, IInv, Executing
  <2> QED
    BY <2>1, StatusChange DEF Verdict, Up
<1>12. CASE Submit
  BY <1>12 DEF Submit, Abstract, Image, Phase, Request, Verdict, Up
<1>13. CASE Return
  <2>1. Remote!Return
    BY <1>13 DEF Return, mainOp, Remote!Return, Phase, Request, Verdict, Up, NoCall
  <2> QED
    BY <2>1 DEF Abstract, Remote!Next
<1>14. CASE RequestReset
  BY <1>14, FaultChange DEF RequestReset, front, Up
<1> QED
  BY <1>1, <1>2, <1>3, <1>4, <1>5, <1>6, <1>7, <1>8, <1>9, <1>10, <1>11, <1>12,
     <1>13, <1>14, StepShapes DEF Plain

LEMMA InitRefines == Init => Remote!Init
BY DEF Init, Remote!Init, NoCall

(* The task and its front ends implement RemoteCall: whatever the modem,   *)
(* the line and the two tasks do, a request gets one verdict, which only a *)
(* fault of the modem spoils and only its repair overwrites.               *)
THEOREM Refinement == Spec => ImplementsRemoteCall
<1>1. Init => Remote!Init
  BY InitRefines
<1>2. IInv /\ [Next]_vars => [Remote!Next]_(Remote!cvars)
  BY NextRefines DEF Abstract, Image, Phase, Request, Verdict, Up, Remote!cvars
<1> QED
  BY <1>1, <1>2, Invariant, PTL DEF Spec, ImplementsRemoteCall, Remote!Spec

(***************************************************************************)
(* The scripts: what their cases are made of, and how each one opens.      *)
(***************************************************************************)
Texts ==
  {"", ">", "&K3", "ATD", "ATH", "CGATT", "CMGD", "CMGR", "CMGS", "CONNECT",
   "CPMS", "CSCS", "CSMP", "CSQ", "EOF", "KCNXCFG", "KCNXTIMER", "KFSFILE",
   "KFTPCFG", "KFTPCLOSE", "KFTPDEL", "KFTPRCV", "KFTPSND", "KFTP_SND_DONE",
   "KSMTPCLEAR", "KSMTPPARAM", "KSMTPPWD", "KSMTPSUBJECT", "KSMTPTO", "KSMTPUL",
   "KTCPCFG", "KTCPCLOSE", "KTCPCNX", "KTCPDEL", "KTCPRCV", "KTCPSND",
   "KTCPSTAT", "OK", "PSCPOF", "text"}

Dos == {"free", "send", "echo", "sized", "reply", "parse", "take", "blind",
        "upload", "prompt", "skip", "ifany", "again", "unread"}

CaseType == [do : Dos, text : Texts, won : {"keep", "open", "invalid"},
             lost : {"keep", "invalid"}]

(* Every script waits for a free ring, writes a command and checks its     *)
(* echo before anything else.                                              *)
Opens(s) ==
  /\ Len(s) >= 3 /\ s[1].do = "free" /\ s[2].do = "send"
  /\ s[3].do \in {"echo", "sized"}

Scripts == {s \in Seq(CaseType) : Opens(s)}

LEMMA CaseMakers ==
  /\ {Free, Echo, EchoSized, Prompt, Skip} \subseteq CaseType
  /\ \A t \in Texts : {Send(t), Reply(t), Parse(t), Take(t), Blind(t), Upload(t),
                       IfAny(t), Again(t), Unread(t)} \subseteq CaseType
<1>1. "" \in Texts /\ ">" \in Texts
  BY DEF Texts
<1>2. \A do \in Dos, text \in Texts : Case(do, text) \in CaseType
  BY DEF Case, CaseType
<1>3. {"free", "send", "echo", "sized", "reply", "parse", "take", "blind",
       "upload", "prompt", "skip", "ifany", "again", "unread"} \subseteq Dos
  BY DEF Dos
<1> QED
  BY <1>1, <1>2, <1>3 DEF Free, Send, Echo, EchoSized, Reply, Parse, Take, Blind,
     Upload, Prompt, Skip, IfAny, Again, Unread

LEMMA CaseChangers ==
  \A c \in CaseType :
    {Wins(c, "open"), Wins(c, "invalid"), Loses(c, "invalid")} \subseteq CaseType
BY DEF CaseType, Wins, Loses

LEMMA CaseDos ==
  /\ Free.do = "free" /\ Echo.do = "echo" /\ EchoSized.do = "sized"
  /\ \A t : Send(t).do = "send"
BY DEF Free, Echo, EchoSized, Send, Case

LEMMA ScriptIs ==
  ASSUME NEW s \in Seq(CaseType), Opens(s)
  PROVE  s \in Scripts
BY DEF Scripts

(* A script may go on in any way.                                          *)
LEMMA ScriptGoesOn ==
  ASSUME NEW s \in Scripts, NEW t \in Seq(CaseType)
  PROVE  s \o t \in Scripts
<1>1. s \in Seq(CaseType) /\ Opens(s)
  BY DEF Scripts
<1>2. s \o t \in Seq(CaseType)
  BY <1>1
<1>5. Len(s) \in Nat /\ Len(t) \in Nat /\ Len(s \o t) = Len(s) + Len(t)
  BY <1>1
<1>6. \A k \in 1 .. Len(s) : (s \o t)[k] = s[k]
  BY <1>1
<1>3. 1 \in 1 .. Len(s) /\ 2 \in 1 .. Len(s) /\ 3 \in 1 .. Len(s)
  BY <1>1 DEF Opens
<1>4. Opens(s \o t)
  BY <1>1, <1>5, <1>6, <1>3 DEF Opens
<1> QED
  BY <1>2, <1>4, ScriptIs

LEMMA LiteralScripts ==
  ASSUME NEW c \in Texts, NEW e \in {Echo, EchoSized}, NEW x \in CaseType,
         NEW y \in CaseType
  PROVE  <<Free, Send(c), e, x, y>> \in Scripts /\ <<Free, Send(c), e, x>> \in Scripts
<1>1. {Free, Send(c), e} \subseteq CaseType
  BY CaseMakers
<1>2. e.do \in {"echo", "sized"} /\ Free.do = "free" /\ Send(c).do = "send"
  BY CaseDos
<1> DEFINE a == Free
           b == Send(c)
<1> HIDE DEF a, b
<1>3. a \in CaseType /\ b \in CaseType /\ e \in CaseType
      /\ a.do = "free" /\ b.do = "send"
  BY <1>1, <1>2 DEF a, b
<1>4. <<a, b, e, x, y>> \in Seq(CaseType) /\ <<a, b, e, x>> \in Seq(CaseType)
  BY <1>3
<1>5. Opens(<<a, b, e, x, y>>) /\ Opens(<<a, b, e, x>>)
  BY <1>2, <1>3 DEF Opens
<1> QED
  BY <1>4, <1>5, ScriptIs DEF a, b

LEMMA AskType ==
  \A c \in Texts : Ask(c) \in Seq(CaseType) /\ <<Free>> \o Ask(c) \in Scripts
<1> TAKE c \in Texts
<1>1. "OK" \in Texts
  BY DEF Texts
<1> DEFINE a == Free
           b == Send(c)
           d == Echo
           e == Reply("OK")
<1>2. b \in CaseType /\ d \in CaseType /\ e \in CaseType
  BY <1>1, CaseMakers
<1>3. Ask(c) = <<b, d, e>>
  BY DEF Ask
<1>4. <<a, b, d, e>> \in Scripts
  BY <1>2, LiteralScripts
<1> HIDE DEF a, b, d, e
<1>5. <<b, d, e>> \in Seq(CaseType)
  BY <1>2, TupleType
<1>6. <<a>> \o <<b, d, e>> = <<a, b, d, e>>
  BY ConsTuple
<1> QED
  BY <1>3, <1>4, <1>5, <1>6 DEF a

(* Each script, library by library.                                        *)
LEMMA TcpScripts ==
  {cTCPClientOpen, cTCPClientClose, cTCPRead, cTCPWrite, cTCPStatus, cTCPRxFlush}
    \subseteq Scripts
<1>1. {"KTCPCFG", "OK", "KTCPCNX", "KTCPCLOSE", "KTCPDEL", "KTCPSTAT", "KTCPRCV",
       "KTCPSND", "CONNECT", "EOF"} \subseteq Texts
  BY DEF Texts
<1>2. cTCPClientOpen \in Scripts
  <2> DEFINE a == Wins(Parse("KTCPCFG"), "open")
             b == Reply("OK")
             c == Send("KTCPCNX")
             d == Loses(Echo, "invalid")
             e == Loses(Reply("OK"), "invalid")
  <2>1. {a, b, c, d, e} \subseteq CaseType
    BY <1>1, CaseMakers, CaseChangers
  <2>2. <<Free, Send("KTCPCFG"), Echo, a, b>> \in Scripts
    BY <1>1, <2>1, LiteralScripts
  <2>3. <<c, d, e>> \in Seq(CaseType)
    BY <2>1, TupleType
  <2> HIDE DEF a, b, c, d, e
  <2>4. <<Free, Send("KTCPCFG"), Echo, a, b>> \o <<c, d, e>> \in Scripts
    BY <2>2, <2>3, ScriptGoesOn
  <2>5. <<Free, Send("KTCPCFG"), Echo, a, b, c, d, e>>
          = <<Free, Send("KTCPCFG"), Echo, a, b>> \o <<c, d, e>>
    OBVIOUS
  <2> QED
    BY <2>4, <2>5 DEF cTCPClientOpen, a, b, c, d, e
<1>3. cTCPClientClose \in Scripts
  <2> DEFINE c == Wins(Reply("OK"), "invalid")
  <2>1. {Send("KTCPDEL"), Echo, Reply("OK"), c} \subseteq CaseType
    BY <1>1, CaseMakers, CaseChangers
  <2>2. <<Send("KTCPDEL"), Echo, c>> \in Seq(CaseType)
    BY <2>1, TupleType
  <2> QED
    BY <1>1, <2>2, AskType, ScriptGoesOn DEF cTCPClientClose
<1>4. TcpStatus \in Scripts
  <2>1. Parse("KTCPSTAT") \in CaseType /\ Reply("OK") \in CaseType
    BY <1>1, CaseMakers
  <2> QED
    BY <1>1, <2>1, LiteralScripts DEF TcpStatus
<1>5. cTCPRead \in Scripts /\ cTCPRxFlush \in Scripts
  <2>1. {IfAny("KTCPRCV"), Echo, Take("CONNECT"), Reply("EOF"), Blind("CONNECT"),
         Again("EOF")} \subseteq CaseType
    BY <1>1, CaseMakers
  <2>2. /\ <<IfAny("KTCPRCV"), Echo, Take("CONNECT"), Reply("EOF")>> \in Seq(CaseType)
        /\ DropBlock \in Seq(CaseType)
    BY <2>1, TuplesType DEF DropBlock
  <2> QED
    BY <1>4, <2>2, ScriptGoesOn DEF cTCPRead, cTCPRxFlush
<1>6. cTCPWrite \in Scripts
  <2>1. Upload("CONNECT") \in CaseType /\ Reply("OK") \in CaseType
    BY <1>1, CaseMakers
  <2> QED
    BY <1>1, <2>1, LiteralScripts DEF cTCPWrite
<1> QED
  BY <1>2, <1>3, <1>4, <1>5, <1>6 DEF cTCPStatus

LEMMA OtherScripts ==
  {cGSMHibernate, cGSMSignal, cAPNConfig, cHTTPRequest, cCALLHangUp,
   cCALLVoiceStart} \subseteq Scripts
<1>1. {"PSCPOF", "CSQ", "KCNXCFG", "KTCPSND", "CONNECT", "OK", "KTCPSTAT", "ATH",
       "ATD"} \subseteq Texts
  BY DEF Texts
<1>2. {cGSMHibernate, cAPNConfig, cCALLHangUp, cCALLVoiceStart} \subseteq Scripts
  BY <1>1, AskType DEF cGSMHibernate, cAPNConfig, cCALLHangUp, cCALLVoiceStart
<1>3. {Parse("CSQ"), Upload("CONNECT"), Reply("OK"), Send("KTCPSTAT"), Echo,
       Reply("KTCPSTAT")} \subseteq CaseType
  BY <1>1, CaseMakers
<1>4. cGSMSignal \in Scripts /\ HTTPUpload \in Scripts
  BY <1>1, <1>3, LiteralScripts DEF cGSMSignal, HTTPUpload
<1>5. <<Send("KTCPSTAT"), Echo, Reply("KTCPSTAT"), Reply("OK")>> \in Seq(CaseType)
  BY <1>3, TuplesType
<1>6. cHTTPRequest \in Scripts
  BY <1>4, <1>5, ScriptGoesOn DEF cHTTPRequest
<1> QED
  BY <1>2, <1>4, <1>6

LEMMA FtpScripts ==
  {cFTPConfig, cFTPReceive, cFTPSend, cFTPDelete} \subseteq Scripts
<1>1. {"KFTPCFG", "OK", "KFTPRCV", "CONNECT", "EOF", "KFTPSND", "KFTP_SND_DONE",
       "KFTPCLOSE", "KFTPDEL"} \subseteq Texts
  BY DEF Texts
<1>2. {Parse("KFTPCFG"), Reply("OK"), Take("CONNECT"), Unread("EOF"),
       Parse("KFTP_SND_DONE")} \subseteq CaseType
  BY <1>1, CaseMakers
<1>3. cFTPConfig \in Scripts /\ cFTPReceive \in Scripts
  BY <1>1, <1>2, LiteralScripts DEF cFTPConfig, cFTPReceive
<1>4. <<Parse("KFTP_SND_DONE")>> \in Seq(CaseType)
  BY <1>2, TupleType
<1>5. cFTPSend \in Scripts
  BY <1>1, <1>4, AskType, ScriptGoesOn DEF cFTPSend, FTPStore
<1>6. cFTPDelete \in Scripts
  BY <1>1, AskType, ScriptGoesOn DEF cFTPDelete
<1> QED
  BY <1>3, <1>5, <1>6

LEMMA SmsScripts == {cSMSSend, cSMSRead, cSMSDelete} \subseteq Scripts
<1>1. {"CSMP", "CMGS", "text", "OK", "CPMS", "CMGR", "CSCS", "CMGD"} \subseteq Texts
  BY DEF Texts
<1>2. {Send("CMGS"), Echo, Prompt, Send("text"), Parse("CMGS"), Reply("OK"),
       Reply("CPMS"), Send("CMGR"), Parse("CMGR")} \subseteq CaseType
  BY <1>1, CaseMakers
<1>3. /\ <<Send("CMGS"), Echo>> \in Seq(CaseType)
      /\ <<Prompt, Send("text"), Echo, Parse("CMGS"), Reply("OK")>> \in Seq(CaseType)
      /\ SMSFetch \in Seq(CaseType)
  BY <1>2, TupleType, TuplesType DEF SMSFetch
<1>4. cSMSSend \in Scripts
  BY <1>1, <1>3, AskType, ScriptGoesOn DEF cSMSSend, SMSAddress
<1>5. SMSMemory \in Scripts
  BY <1>1, <1>2, LiteralScripts DEF SMSMemory
<1>6. cSMSRead \in Scripts /\ cSMSDelete \in Scripts
  BY <1>1, <1>3, <1>5, AskType, ScriptGoesOn DEF cSMSRead, cSMSDelete
<1> QED
  BY <1>4, <1>6

LEMMA SmtpScripts ==
  {cSMTPParamsSet, cSMTPEmailTo, cSMTPEmailSend, cSMTPParamsClear} \subseteq Scripts
<1>1. {"&K3", "KCNXTIMER", "CGATT", "KSMTPPARAM", "KSMTPPWD", "KSMTPTO",
       "KSMTPSUBJECT", "KSMTPUL", "CONNECT", "KSMTPCLEAR", "OK"} \subseteq Texts
  BY DEF Texts
<1>2. {Send("KSMTPPARAM"), Echo, Skip, Reply("OK"), Send("KSMTPPWD"),
       Send("KSMTPUL"), Parse("KSMTPUL"), Upload("CONNECT")} \subseteq CaseType
  BY <1>1, CaseMakers
<1>3. <<Send("KSMTPUL"), Echo, Parse("KSMTPUL"), Upload("CONNECT"), Reply("OK")>>
        \in Seq(CaseType)
  BY <1>2, TuplesType
<1>4. <<Send("KSMTPPARAM"), Echo, Skip, Reply("OK"),
        Send("KSMTPPWD"), Echo, Skip, Reply("OK")>> \in Seq(CaseType)
  BY <1>2, LongTupleType
<1>5. SMTPAttach \in Scripts
  BY <1>1, AskType, ScriptGoesOn DEF SMTPAttach
<1>6. cSMTPParamsSet \in Scripts
  BY <1>4, <1>5, ScriptGoesOn DEF cSMTPParamsSet
<1>7. cSMTPEmailTo \in Scripts /\ SMTPSubject \in Scripts /\ cSMTPParamsClear \in Scripts
  BY <1>1, AskType DEF cSMTPEmailTo, SMTPSubject, cSMTPParamsClear
<1>8. cSMTPEmailSend \in Scripts
  BY <1>3, <1>7, ScriptGoesOn DEF cSMTPEmailSend
<1> QED
  BY <1>6, <1>7, <1>8

LEMMA FsScripts ==
  {cFSWrite, cFSRead, cFSDelete, cFSSize, cFSAppend} \subseteq Scripts
<1>1. {"KFSFILE", "CONNECT", "OK"} \subseteq Texts
  BY DEF Texts
<1>2. {Upload("CONNECT"), Reply("OK"), Blind("CONNECT"), Parse("KFSFILE")}
        \subseteq CaseType
  BY <1>1, CaseMakers
<1>3. {cFSWrite, cFSRead, cFSSize, cFSAppend} \subseteq Scripts
  BY <1>1, <1>2, LiteralScripts DEF cFSWrite, cFSRead, cFSSize, cFSAppend
<1> QED
  BY <1>1, <1>3, AskType DEF cFSDelete

LEMMA ScriptsType == \A f \in Callbacks : Script[f] \in Scripts
<1> TAKE f \in Callbacks
<1> QED
  BY TcpScripts, OtherScripts, FtpScripts, SmsScripts, SmtpScripts, FsScripts
  DEF Callbacks, Script

LEMMA LibraryType == \A f \in Callbacks : LibraryOf(f) \in Libraries
<1> TAKE f \in Callbacks
<1>1. \E l \in Libraries : f \in Library[l]
  BY DEF Callbacks, Script, Library, Libraries
<1> QED
  BY <1>1 DEF LibraryOf

(***************************************************************************)
(* The lines: what the modem sends, and what may lie in the ring.          *)
(***************************************************************************)
Sent == [kind : {"echo", "answer", "data"}, text : Texts, of : Nat]
          \cup [kind : {"error"}, text : {"error"}, of : Nat]

Heard  == Sent \cup Unsolicited \cup {Crumb}
Polite == {t \in Heard : t.kind # "bad"}

AnswerLines == [kind : {"echo", "answer", "data"}, text : Texts]

LEMMA AnswersType ==
  \A c \in CaseType : Answers(c) \in Seq(AnswerLines)
<1> TAKE c \in CaseType
<1>1. c.text \in Texts
  BY DEF CaseType
<1>2. \A k \in {"echo", "answer", "data"} : [kind |-> k, text |-> c.text] \in AnswerLines
  BY <1>1 DEF AnswerLines
<1>3. <<>> \in Seq(AnswerLines)
  OBVIOUS
<1> QED
  BY <1>2, <1>3, TupleType DEF Answers

LEMMA AnswersFromType ==
  ASSUME NEW s \in Seq(CaseType), NEW n \in Nat \ {0}
  PROVE  AnswersFrom(s, n) \in Seq(AnswerLines)
<1> DEFINE last == {k \in n .. Len(s) : s[k].do = "upload" \/ k = Len(s)
                                         \/ Writes(s[k + 1])}
           end  == CHOOSE k \in last : \A l \in last : k <= l
           each == [k \in 1 .. end - n + 1 |-> Answers(s[n + k - 1])]
<1>1. last \subseteq Nat
  OBVIOUS
<1>2. CASE last = {}
  BY <1>2 DEF AnswersFrom
<1>3. CASE last # {}
  <2> HIDE DEF last
  <2>1. end \in last
    BY <1>1, <1>3, LeastExists
  <2>2. end \in n .. Len(s)
    BY <2>1 DEF last
  <2> HIDE DEF end
  <2>3. end - n + 1 \in Nat \ {0}
    BY <2>2
  <2>4. \A k \in 1 .. end - n + 1 : s[n + k - 1] \in CaseType
    BY <2>2
  <2>5. each \in [1 .. end - n + 1 -> Seq(AnswerLines)]
    BY <2>4, AnswersType
  <2> HIDE DEF each
  <2>6. FlattenSeq(each) \in Seq(AnswerLines)
    BY <2>3, <2>5, FlattenType
  <2> QED
    BY <1>3, <2>6 DEF AnswersFrom, last, end, each
<1> QED
  BY <1>2, <1>3

LEMMA ReactionType ==
  ASSUME Function \in Callbacks, requests \in Nat, NEW n \in Nat \ {0}, NEW c \in Texts
  PROVE  Reaction(n, c) \in Seq(Sent)
<1> DEFINE a == AnswersFrom(Cases, n)
<1>1. a \in Seq(AnswerLines)
  BY ScriptsType, AnswersFromType DEF Cases, Scripts
<1> HIDE DEF a
<1>2. a \in [1 .. Len(a) -> AnswerLines] /\ Len(a) \in Nat
  BY <1>1
<1> DEFINE r == [k \in DOMAIN a |->
                   Answered(a[k].kind, IF a[k].kind = "echo" THEN c ELSE a[k].text)]
<1>3. \A k \in DOMAIN a :
        Answered(a[k].kind, IF a[k].kind = "echo" THEN c ELSE a[k].text) \in Sent
  BY <1>2 DEF AnswerLines, Sent, Answered
<1>4. r \in [1 .. Len(a) -> Sent]
  BY <1>2, <1>3
<1>5. Reaction(n, c) = r
  BY DEF Reaction, a
<1> QED
  BY <1>2, <1>4, <1>5

(* What a write puts on the wire is what the modem may send.               *)
LEMMA ReactsType ==
  ASSUME Function \in Callbacks, requests \in Nat, NEW n \in Nat \ {0},
         NEW c \in Texts, wire \in Seq(Sent), Reacts(n, c)
  PROVE  wire' \in Seq(Sent)
<1> DEFINE r == Reaction(n, c)
           e == Answered("error", "error")
           h == IF c = "" THEN <<>> ELSE <<Answered("echo", c)>>
<1>1. r \in Seq(Sent) /\ e \in Sent /\ Answered("echo", c) \in Sent
  BY ReactionType DEF Sent, Answered
<1>2. h \in Seq(Sent) /\ <<e>> \in Seq(Sent)
  <2>1. <<>> \in Seq(Sent)
    OBVIOUS
  <2> QED
    BY <1>1, <2>1, TupleType
<1> HIDE DEF r, e, h
<1>3. \A k \in 1 .. Len(r) : SubSeq(r, 1, k - 1) \in Seq(Sent)
  BY <1>1, SubSeqType
<1>5. CASE wire' = wire \o r
  BY <1>1, <1>5, ConcatType
<1>6. CASE \E k \in 1 .. Len(r) : wire' = wire \o SubSeq(r, 1, k - 1)
  BY <1>3, <1>6, ConcatType
<1>7. CASE wire' = wire \o h \o <<e>>
  BY <1>2, <1>7, ConcatType
<1> QED
  BY <1>5, <1>6, <1>7 DEF Reacts, r, e, h

(***************************************************************************)
(* The types.  What a line says becomes ExecStat, so that the lines of the *)
(* ring and of the wire belong to the invariant; a malformed message is in *)
(* the ring only if one was sent.  A callback runs for the request that    *)
(* waits.                                                                  *)
(***************************************************************************)
Lines ==
  /\ wire \in Seq(Sent) /\ ring \in Seq(Heard)
  /\ "bad" \in seen \/ ring \in Seq(Polite)

Inside == gsm \in {"call", "data"}

Calling ==
  /\ fly = "waiting" /\ ExecStat = "EXECUTION" => Function = want
  /\ fly # "idle" => want \in Asked
  /\ Inside => Function \in Callbacks
  /\ gsm = "data" => at < Len(Cases) /\ This.do = "take"

TInv == IInv /\ TypeOK /\ Lines /\ Calling

Failures == {"error", "cms", "cme", "nocarrier"}
Results  == {"ok", "unexpected"} \cup Failures
Machine  == {"IDLE", "CMD_PENDING", "LL_MODE", "HW_FAULT", "HIBERNATE"}

LEMMA HeardFails ==
  ASSUME NEW t \in Heard, t.kind \in {"error", "alarm", "flood"}
  PROVE  t.text \in Failures
<1>1. CASE t \in Sent
  BY <1>1 DEF Sent, Failures
<1>2. CASE t \in Unsolicited
  <2>1. /\ \A k, x : Line(k, x).kind = k /\ Line(k, x).text = x
        /\ {"cms", "cme", "nocarrier"} \subseteq Failures
    BY DEF Line, Failures
  <2>2. /\ RING.kind = "notice" /\ BUSY.kind = "notice" /\ CMTI.kind = "notice"
        /\ CDS.kind = "notice" /\ CREG.kind = "notice"
        /\ KTCP_NOTIF.kind = "notice" /\ KTCP_DATA.kind = "notice"
        /\ Malformed.kind = "bad" /\ Junk.kind = "junk"
    BY <2>1 DEF RING, BUSY, CMTI, CDS, CREG, KTCP_NOTIF, KTCP_DATA, Malformed, Junk
  <2>3. t \in {NO_CARRIER, CMS_ERROR, CME_ERROR, KFTP_ERROR}
    BY <1>2, <2>2 DEF Unsolicited
  <2> QED
    BY <2>1, <2>3 DEF NO_CARRIER, CMS_ERROR, CME_ERROR, KFTP_ERROR
<1>3. CASE t = Crumb
  BY <1>3 DEF Crumb, Line
<1> QED
  BY <1>1, <1>2, <1>3 DEF Heard

LEMMA ResultType == ASSUME NEW t \in Heard PROVE Result(t) \in Results
BY HeardFails DEF Result, echoFind, getAnswer, Results

LEMMA CheckErrType ==
  ASSUME NEW r \in Results \cup {"timeout"}, smInternal \in [Libraries -> Nat],
         Function \in Callbacks, CheckErr(r)
  PROVE  /\ mainGSMStateMachine' \in Machine /\ ExecStat' \in Statuses
         /\ smInternal' \in [Libraries -> Nat]
<1>1. mainGSMStateMachine' \in Machine
  BY DEF CheckErr, Machine
<1>2. ExecStat' \in Statuses
  BY DEF CheckErr, Results, Failures, Status, Statuses
<1>3. Lib \in Libraries /\ smInternal[Lib] \in Nat
  BY LibraryType DEF Lib
<1>4. smInternal' = [smInternal EXCEPT ![Lib] =
                       CASE r = "ok"         -> @ + 1
                         [] r = "unexpected" -> @
                         [] OTHER            -> 0]
  BY DEF CheckErr
<1>5. \A n \in Nat : [smInternal EXCEPT ![Lib] = n] \in [Libraries -> Nat]
  OBVIOUS
<1>6. (CASE r = "ok"         -> smInternal[Lib] + 1
        [] r = "unexpected" -> smInternal[Lib]
        [] OTHER            -> 0) \in Nat
  BY <1>3
<1>7. smInternal' \in [Libraries -> Nat]
  BY <1>4, <1>5, <1>6
<1> QED
  BY <1>1, <1>2, <1>7

(* The case under way is one of the script.                                *)
LEMMA ThisType ==
  ASSUME TInv, NEW do, InCase(do)
  PROVE  /\ This \in CaseType /\ This.do \in do /\ Function \in Callbacks
         /\ at + 1 \in 1 .. Len(Cases) /\ Cases \in Scripts /\ Lib \in Libraries
<1>1. Function \in Callbacks /\ at < Len(Cases) /\ at \in Nat /\ This.do \in do
  BY DEF InCase, TInv, TypeOK, This
<1>2. Cases \in Seq(CaseType) /\ Cases \in Scripts
  BY <1>1, ScriptsType DEF Cases, Scripts
<1>3. Lib \in Libraries
  BY <1>1, LibraryType DEF Lib
<1> QED
  BY <1>1, <1>2, <1>3 DEF This

LEMMA SomeLineIsHead ==
  ASSUME NEW S, ring \in Seq(S), SomeLine
  PROVE  ring # <<>> /\ Head(ring) \in S /\ Tail(ring) \in Seq(S)
<1>1. ring # <<>>
  BY DEF SomeLine
<1> QED
  BY <1>1, TailType

(* GSMUnsol takes lines out and reads one of them.                         *)
LEMMA FirstToldIs ==
  ASSUME NEW S, ring \in Seq(S)
  PROVE  \/ FirstTold = 0
         \/ FirstTold \in 1 .. Len(ring) /\ Told1 \in S /\ Told(Told1)
<1> DEFINE I == {i \in 1 .. Len(ring) : Told(ring[i])}
<1>1. FirstTold = IF I # {} THEN Min(I) ELSE 0
  BY DEF FirstTold, SelectInSeq
<1>2. I \in SUBSET Nat
  OBVIOUS
<1> HIDE DEF I
<1>3. ASSUME I # {} PROVE Min(I) \in 1 .. Len(ring) /\ Told(ring[Min(I)])
  BY <1>2, <1>3, MinIs DEF I
<1> QED
  BY <1>1, <1>3 DEF Told1

LEMMA UnsolRing ==
  ASSUME NEW S, ring \in Seq(S), Crumb \in S, GSMUnsol
  PROVE  ring' \in Seq(S)
<1>1. <<>> \in Seq(S) /\ <<Crumb>> \in Seq(S)
  BY TupleType
<1>2. CASE FirstTold = 0 \/ Told1.kind = "flood"
  <2>1. ring' \in {<<>>, <<Crumb>>}
    BY <1>2 DEF GSMUnsol
  <2> QED
    BY <1>1, <2>1
<1>3. CASE ~(FirstTold = 0 \/ Told1.kind = "flood")
  <2>1. FirstTold + 1 \in Nat \ {0} /\ Len(ring) \in 0 .. Len(ring)
    BY <1>3, FirstToldIs
  <2>2. ring' = SubSeq(ring, FirstTold + 1, Len(ring))
    BY <1>3 DEF GSMUnsol
  <2> QED
    BY <2>1, <2>2, SubSeqType
<1> QED
  BY <1>2, <1>3

LEMMA CrumbIsHeard == Crumb \in Heard /\ Crumb \in Polite
BY DEF Heard, Polite, Crumb, Line

LEMMA JunkIsHeard == Junk \in Heard /\ Junk \in Polite
BY DEF Heard, Polite, Junk, Line, Unsolicited

LEMMA SentIsHeard == Sent \subseteq Polite /\ Polite \subseteq Heard
BY DEF Heard, Polite, Sent

(***************************************************************************)
(* The invariant of the types.                                             *)
(***************************************************************************)
LEMMA Bounds == MaxRequests \in Nat /\ MaxFaults \in Nat /\ MaxBlocks \in Nat
BY GsmAssumption DEF GsmAssumption

LEMMA AskedIs == Asked \subseteq AnyCall /\ NoCall \in AnyCall
BY GsmAssumption DEF GsmAssumption, AnyCall

LEMMA FaultType ==
  ASSUME faults \in 0 .. MaxFaults, NEW k, Fault(k)
  PROVE  faults' \in 0 .. MaxFaults /\ ("bad" \in seen => "bad" \in seen')
BY Bounds DEF Fault

LEMMA ReactsFault ==
  ASSUME faults \in 0 .. MaxFaults, NEW n, NEW c, Reacts(n, c)
  PROVE  faults' \in 0 .. MaxFaults /\ ("bad" \in seen => "bad" \in seen')
<1>1. (\E k : Fault(k)) \/ UNCHANGED fault
  BY DEF Reacts
<1> QED
  BY <1>1, FaultType DEF fault

LEMMA LinesKept ==
  ASSUME Lines, wire' \in Seq(Sent), "bad" \in seen => "bad" \in seen',
         \A S \in {Heard, Polite} : ring \in Seq(S) => ring' \in Seq(S)
  PROVE  Lines'
BY DEF Lines

LEMMA LinesSame ==
  ASSUME Lines, UNCHANGED <<ring, wire>>, "bad" \in seen => "bad" \in seen'
  PROVE  Lines'
BY DEF Lines

Counted == smInternal' = [smInternal EXCEPT ![Lib] = @ + 1]

LEMMA CountedType ==
  ASSUME smInternal \in [Libraries -> Nat], Function \in Callbacks, Counted
  PROVE  smInternal' \in [Libraries -> Nat]
<1>1. Lib \in Libraries /\ smInternal[Lib] + 1 \in Nat
  BY LibraryType DEF Lib
<1> QED
  BY <1>1 DEF Counted

(* What TypeOK says of the variables few steps change.                     *)
Rest1 ==
  /\ hwReady \in BOOLEAN /\ suspended \in BOOLEAN /\ notif \in BOOLEAN
  /\ fly \in {"idle", "inside", "waiting"} /\ want \in AnyCall
  /\ socket \in {"invalid", "open"}
  /\ requests \in 0 .. MaxRequests /\ faults \in 0 .. MaxFaults
  /\ blocks \in 0 .. MaxBlocks

TypedTask ==
  /\ mainGSMStateMachine \in Machine /\ ExecStat \in Statuses /\ Function \in AnyCall
  /\ gsm \in {"loop", "check", "call", "data", "closing", "reset", "setup"}
  /\ xSemFrontEnd \in {"free", "GSM", "fly"}
  /\ at \in Nat /\ path \in Nat /\ smInternal \in [Libraries -> Nat]

LEMMA TypeParts == TypeOK <=> Rest1 /\ TypedTask
BY DEF TypeOK, Rest1, TypedTask, Machine

LEMMA TypePartsNext == TypeOK' <=> Rest1' /\ TypedTask'
BY DEF TypeOK, Rest1, TypedTask, Machine

LEMMA CaseFreeType == ASSUME TInv, CaseFree PROVE TypeOK' /\ Lines' /\ Calling'
<1>1. Function \in Callbacks /\ Rest1 /\ TypedTask /\ gsm = "call"
  BY ThisType, TypeParts DEF TInv, CaseFree, InCase
<1>2. smInternal' \in [Libraries -> Nat]
  BY <1>1, CountedType DEF CaseFree, Counted, TypedTask
<1>3. TypedTask'
  BY <1>1, <1>2 DEF CaseFree, Fall, Leave, TypedTask, mainOp, Machine
<1>4. Rest1' /\ Lines'
  BY <1>1, LinesSame DEF CaseFree, Rest1, front, handle, fault, modem, TInv
<1>5. Calling'
  BY <1>1 DEF TInv, Calling, Inside, CaseFree, Fall, Leave, mainOp, front
<1> QED
  BY <1>3, <1>4, <1>5, TypePartsNext

LEMMA WriteType ==
  ASSUME TInv, InCase({"send", "ifany"}), Write
  PROVE  TypedTask' /\ Lines' /\ Calling' /\ (Rest1 /\ blocks' \in 0 .. MaxBlocks => Rest1')
<1>1. /\ Function \in Callbacks /\ Rest1 /\ TypedTask /\ gsm = "call"
      /\ This \in CaseType
  BY ThisType, TypeParts DEF TInv, InCase
<1>2. smInternal' \in [Libraries -> Nat]
  BY <1>1, CountedType DEF Write, Counted, TypedTask
<1>3. TypedTask'
  BY <1>1, <1>2 DEF Write, Fall, TypedTask, mainOp
<1>4. Reacts(at + 2, This.text)
  BY DEF Write
<1>5. at + 2 \in Nat \ {0} /\ This.text \in Texts /\ wire \in Seq(Sent)
      /\ requests \in Nat
  BY <1>1 DEF TypedTask, CaseType, TInv, Lines, Rest1
<1>6. wire' \in Seq(Sent)
  BY <1>1, <1>4, <1>5, ReactsType
<1>7. faults' \in 0 .. MaxFaults /\ ("bad" \in seen => "bad" \in seen')
  BY <1>1, <1>4, ReactsFault DEF Rest1
<1>8. UNCHANGED ring
  BY DEF Write
<1>9. Lines'
  BY <1>6, <1>7, <1>8, LinesKept DEF TInv
<1>10. Calling'
  BY <1>1 DEF TInv, Calling, Inside, Write, Fall, mainOp, front
<1>11. ASSUME Rest1, blocks' \in 0 .. MaxBlocks PROVE Rest1'
  BY <1>7, <1>11 DEF Write, Rest1, front, handle
<1> QED
  BY <1>3, <1>9, <1>10, <1>11

LEMMA CaseWritesType ==
  ASSUME TInv, CaseSend \/ CaseIfAny
  PROVE  TypeOK' /\ Lines' /\ Calling'
<1>1. Write /\ Rest1 /\ InCase({"send", "ifany"})
  BY TypeParts DEF CaseSend, CaseIfAny, TInv, InCase
<1>2. blocks' \in 0 .. MaxBlocks
  BY <1>1, Bounds DEF CaseSend, CaseIfAny, Rest1
<1> QED
  BY <1>1, <1>2, WriteType, TypePartsNext

LEMMA CaseSkipType == ASSUME TInv, CaseSkip PROVE TypeOK' /\ Lines' /\ Calling'
<1>1. Function \in Callbacks /\ Rest1 /\ TypedTask /\ gsm = "call"
  BY ThisType, TypeParts DEF TInv, CaseSkip, InCase
<1>2. smInternal' \in [Libraries -> Nat]
  BY <1>1, CountedType DEF CaseSkip, Counted, TypedTask
<1>3. TypedTask'
  BY <1>1, <1>2 DEF CaseSkip, Fall, TypedTask, mainOp
<1>4. Rest1' /\ Lines'
  BY <1>1, LinesSame DEF CaseSkip, Rest1, front, handle, fault, modem, TInv
<1>5. Calling'
  BY <1>1 DEF TInv, Calling, Inside, CaseSkip, Fall, mainOp, front
<1> QED
  BY <1>3, <1>4, <1>5, TypePartsNext

LEMMA CasePromptType == ASSUME TInv, CasePrompt PROVE TypeOK' /\ Lines' /\ Calling'
<1>1. Function \in Callbacks /\ Rest1 /\ TypedTask /\ gsm = "call"
  BY ThisType, TypeParts DEF TInv, CasePrompt, InCase
<1>2. TypedTask'
  BY <1>1 DEF CasePrompt, Fall, Leave, TypedTask, mainOp
<1>3. Rest1'
  BY <1>1 DEF CasePrompt, Rest1, front, handle, fault
<1>4. ring' \in {ring, <<>>} /\ UNCHANGED <<wire, seen>>
  BY DEF CasePrompt, fault
<1>5. Lines'
  <2>1. \A S \in {Heard, Polite} : ring \in Seq(S) => ring' \in Seq(S)
    <3>1. \A S : <<>> \in Seq(S)
      OBVIOUS
    <3> QED
      BY <1>4, <3>1, Zenon
  <2>2. Lines /\ wire' \in Seq(Sent)
    BY <1>4 DEF TInv, Lines
  <2> QED
    BY <1>4, <2>1, <2>2, LinesKept
<1>6. Calling'
  BY <1>1 DEF TInv, Calling, Inside, CasePrompt, Fall, Leave, mainOp, front
<1> QED
  BY <1>2, <1>3, <1>5, <1>6, TypePartsNext

LEMMA GiveType ==
  ASSUME socket \in {"invalid", "open"}, NEW c \in CaseType, Give(c.won) \/ Give(c.lost)
  PROVE  socket' \in {"invalid", "open"}
BY DEF Give, CaseType

(* Whatever the way the next line is taken, only what was there, or junk,  *)
(* is left.                                                                *)
LEMMA RestType ==
  ASSUME NEW S, ring \in Seq(S), ring # <<>>, Junk \in S, NEW r \in Rest
  PROVE  r \in Seq(S)
<1>1. Tail(ring) \in Seq(S) /\ Len(ring) \in Nat \ {0}
  BY TailType
<1>2. CASE r = Tail(ring)
  BY <1>1, <1>2
<1>3. CASE r = Tail(Tail(ring)) /\ Len(ring) > 1
  <2>1. Tail(ring) # <<>>
    <3>1. Len(Tail(ring)) = Len(ring) - 1 /\ Len(<<>>) = 0
      BY TailType
    <3>2. Len(ring) > 1
      BY <1>3
    <3>3. \A n \in Nat : n > 1 => n - 1 # 0
      OBVIOUS
    <3>4. Len(ring) - 1 # 0
      BY <1>1, <3>2, <3>3, Zenon
    <3> QED
      BY <3>1, <3>4, Zenon
  <2>2. Tail(Tail(ring)) \in Seq(S)
    BY <1>1, <2>1, TailType
  <2> QED
    BY <1>3, <2>2
<1>4. CASE r \in Misread
  <2>1. CASE \E k \in 2 .. Len(ring) + 1 : r = SubSeq(ring, k, Len(ring))
    <3>1. PICK k \in 2 .. Len(ring) + 1 : r = SubSeq(ring, k, Len(ring))
      BY <2>1
    <3>2. k \in Nat \ {0} /\ Len(ring) \in 0 .. Len(ring)
      BY <1>1, <3>1
    <3> QED
      BY <3>1, <3>2, SubSeqType
  <2>2. CASE r = <<Junk>> \o Tail(ring)
    BY <1>1, <2>2, TupleType, ConcatType
  <2> QED
    BY <1>4, <2>1, <2>2 DEF Misread
<1> QED
  BY <1>2, <1>3, <1>4 DEF Rest

LEMMA PoliteOnes ==
  /\ Crumb \in Heard /\ Crumb \in Polite /\ Junk \in Heard /\ Junk \in Polite
  /\ \A S \in {Heard, Polite} : Crumb \in S /\ Junk \in S /\ Sent \subseteq S
BY CrumbIsHeard, JunkIsHeard, SentIsHeard

LEMMA CheckSucceedsType ==
  ASSUME TInv, CheckSucceeds
  PROVE  TypeOK' /\ Lines' /\ Calling'
<1>1. /\ Function \in Callbacks /\ Rest1 /\ TypedTask /\ gsm = "call"
      /\ This \in CaseType /\ Lib \in Libraries
  BY ThisType, TypeParts DEF TInv, CheckSucceeds, InCase
<1>2. /\ mainGSMStateMachine' \in Machine /\ ExecStat' \in Statuses
      /\ smInternal' \in [Libraries -> Nat]
  <2>1. CASE This.do # "again"
    <3>1. CheckErr("ok")
      BY <2>1 DEF CheckSucceeds
    <3> QED
      BY <1>1, <3>1, CheckErrType DEF TypedTask, Results
  <2>2. CASE This.do = "again"
    <3>1. /\ smInternal' = [smInternal EXCEPT ![Lib] = 1]
          /\ mainGSMStateMachine' = "IDLE" /\ ExecStat' = "EXECUTION"
      BY <2>2 DEF CheckSucceeds
    <3> QED
      BY <1>1, <3>1 DEF TypedTask, Machine, Statuses
  <2> QED
    BY <2>1, <2>2
<1>3. /\ at' \in Nat /\ path' \in Nat /\ gsm' \in {"call", "data"}
      /\ gsm' = "data" => This.do = "take" /\ UNCHANGED at
      /\ UNCHANGED <<xSemFrontEnd, Function, fly, want>>
  <2>1. at \in Nat /\ path \in Nat /\ gsm = "call"
    BY <1>1 DEF TypedTask
  <2>2. UNCHANGED <<Function, fly, want>>
    BY DEF CheckSucceeds, front
  <2>3. \/ This.do = "take" /\ gsm' = "data" /\ UNCHANGED <<at, xSemFrontEnd, path>>
        \/ at' \in {1, at + 1} /\ UNCHANGED <<gsm, xSemFrontEnd, path>>
    BY DEF CheckSucceeds, Fall
  <2> QED
    BY <2>1, <2>2, <2>3
<1>4. TypedTask'
  BY <1>1, <1>2, <1>3 DEF TypedTask
<1>5. /\ ring \in Seq(Heard) /\ ring # <<>>
      /\ \A S \in {Heard, Polite} : ring \in Seq(S) => ring' \in Seq(S)
  <2>1. ring \in Seq(Heard) /\ ring # <<>> /\ ring' \in Rest
    BY SomeLineIsHead DEF CheckSucceeds, TInv, Lines
  <2> QED
    BY <2>1, RestType, PoliteOnes
<1>8. /\ wire' \in Seq(Sent) /\ faults' \in 0 .. MaxFaults
      /\ "bad" \in seen => "bad" \in seen'
  <2>1. CASE This.do = "upload"
    <3>1. Reacts(at + 2, "")
      BY <2>1 DEF CheckSucceeds
    <3>2. at + 2 \in Nat \ {0} /\ "" \in Texts /\ wire \in Seq(Sent) /\ requests \in Nat
      BY <1>1 DEF TypedTask, Texts, TInv, Lines, Rest1
    <3>3. wire' \in Seq(Sent)
      BY <1>1, <3>1, <3>2, ReactsType
    <3> QED
      BY <1>1, <3>1, <3>3, ReactsFault DEF Rest1
  <2>2. CASE This.do # "upload"
    BY <1>1, <2>2 DEF CheckSucceeds, Rest1, fault, TInv, Lines
  <2> QED
    BY <2>1, <2>2
<1>9. Lines'
  BY <1>5, <1>8, LinesKept DEF TInv
<1>10. socket' \in {"invalid", "open"}
  BY <1>1, GiveType DEF CheckSucceeds, Rest1
<1>11. Rest1'
  BY <1>1, <1>8, <1>10 DEF CheckSucceeds, Rest1, front
<1>12. Calling'
  <2>1. gsm' = "data" => at' < Len(Cases) /\ This.do = "take" /\ This' = This
    BY <1>3 DEF CheckSucceeds, InCase, This, Cases
  <2> QED
    BY <1>1, <1>3, <2>1 DEF TInv, Calling, Inside, Cases, IInv, Executing, This
<1> QED
  BY <1>4, <1>9, <1>11, <1>12, TypePartsNext

(* A check that fails reports what the line said.                          *)
LEMMA CheckFailsType == ASSUME TInv, CheckFails PROVE TypeOK' /\ Lines' /\ Calling'
<1>1. /\ Function \in Callbacks /\ Rest1 /\ TypedTask /\ gsm = "call"
      /\ This \in CaseType /\ ring \in Seq(Heard)
  BY ThisType, TypeParts DEF TInv, CheckFails, InCase, Lines
<1>2. ring # <<>> /\ Head(ring) \in Heard
  BY <1>1, SomeLineIsHead DEF CheckFails
<1>3. Result(Head(ring)) \in Results /\ CheckErr(Result(Head(ring)))
  BY <1>2, ResultType DEF CheckFails
<1>4. /\ mainGSMStateMachine' \in Machine /\ ExecStat' \in Statuses
      /\ smInternal' \in [Libraries -> Nat]
  BY <1>1, <1>3, CheckErrType DEF TypedTask
<1>5. TypedTask'
  BY <1>1, <1>4 DEF CheckFails, Leave, TypedTask
<1>6. socket' \in {"invalid", "open"}
  BY <1>1, GiveType DEF CheckFails, Rest1
<1>7. Rest1'
  BY <1>1, <1>6 DEF CheckFails, Rest1, front, fault
<1>8. \A S \in {Heard, Polite} : ring \in Seq(S) => ring' \in Seq(S)
  <2>1. \A S : ring \in Seq(S) => Tail(ring) \in Seq(S)
    BY <1>2, TailType
  <2>2. ring' = ring \/ ring' = Tail(ring)
    BY DEF CheckFails
  <2> QED
    BY <2>1, <2>2
<1>9. Lines'
  BY <1>8, LinesKept DEF TInv, Lines, CheckFails, fault
<1>10. Calling'
  BY <1>1 DEF TInv, Calling, Inside, CheckFails, Leave, front, IInv, Executing
<1> QED
  BY <1>5, <1>7, <1>9, <1>10, TypePartsNext

LEMMA LateType ==
  ASSUME faults \in 0 .. MaxFaults,
         IF wire = <<>> THEN UNCHANGED fault ELSE Fault("late")
  PROVE  faults' \in 0 .. MaxFaults /\ ("bad" \in seen => "bad" \in seen')
BY FaultType DEF fault

LEMMA CheckTimesOutType ==
  ASSUME TInv, CheckTimesOut
  PROVE  TypeOK' /\ Lines' /\ Calling'
<1>1. /\ Function \in Callbacks /\ Rest1 /\ TypedTask /\ gsm = "call"
      /\ This \in CaseType
  BY ThisType, TypeParts DEF TInv, CheckTimesOut, InCase
<1>2. /\ mainGSMStateMachine' \in Machine /\ ExecStat' \in Statuses
      /\ smInternal' \in [Libraries -> Nat]
  BY <1>1, CheckErrType DEF CheckTimesOut, TypedTask
<1>3. TypedTask'
  BY <1>1, <1>2 DEF CheckTimesOut, Leave, TypedTask
<1>4. socket' \in {"invalid", "open"}
  BY <1>1, GiveType DEF CheckTimesOut, Rest1
<1>5. faults' \in 0 .. MaxFaults /\ ("bad" \in seen => "bad" \in seen')
  BY <1>1, LateType DEF CheckTimesOut, Rest1
<1>6. Rest1' /\ Lines'
  BY <1>1, <1>4, <1>5, LinesSame DEF CheckTimesOut, Rest1, front, modem, TInv
<1>7. Calling'
  BY <1>1 DEF TInv, Calling, Inside, CheckTimesOut, Leave, front, IInv, Executing
<1> QED
  BY <1>3, <1>6, <1>7, TypePartsNext

LEMMA DoneType ==
  ASSUME smInternal \in [Libraries -> Nat], Function \in Callbacks, Done("SUCCESS")
  PROVE  /\ smInternal' \in [Libraries -> Nat] /\ ExecStat' \in Statuses
         /\ Function' \in AnyCall
BY LibraryType DEF Done, Lib, Statuses, AnyCall

LEMMA ParseFailsType == ASSUME TInv, ParseFails PROVE TypeOK' /\ Lines' /\ Calling'
<1>1. Function \in Callbacks /\ Rest1 /\ TypedTask /\ gsm = "call"
  BY ThisType, TypeParts DEF TInv, ParseFails, InCase
<1>2. /\ smInternal' \in [Libraries -> Nat] /\ ExecStat' \in Statuses
      /\ Function' \in AnyCall
  BY <1>1, DoneType DEF ParseFails, TypedTask
<1>3. TypedTask'
  BY <1>1, <1>2 DEF ParseFails, Done, TypedTask
<1>4. faults' \in 0 .. MaxFaults /\ ("bad" \in seen => "bad" \in seen')
  BY <1>1, FaultType DEF ParseFails, Rest1
<1>5. Rest1'
  BY <1>1, <1>4 DEF ParseFails, Rest1, front, handle
<1>6. \A S \in {Heard, Polite} : ring \in Seq(S) => ring' \in Seq(S)
  BY SomeLineIsHead DEF ParseFails
<1>7. Lines'
  BY <1>4, <1>6, LinesKept DEF TInv, Lines, ParseFails
<1>8. Calling'
  BY <1>1 DEF TInv, Calling, Inside, ParseFails, Done, front
<1> QED
  BY <1>3, <1>5, <1>7, <1>8, TypePartsNext

LEMMA FinishType == ASSUME TInv, Finish PROVE TypeOK' /\ Lines' /\ Calling'
<1>1. Function \in Callbacks /\ Rest1 /\ TypedTask /\ gsm = "call"
  BY TypeParts DEF TInv, Finish, PastTheLast, InCase
<1>2. /\ smInternal' \in [Libraries -> Nat] /\ ExecStat' \in Statuses
      /\ Function' \in AnyCall
  BY <1>1, DoneType DEF Finish, TypedTask
<1>3. TypedTask'
  BY <1>1, <1>2 DEF Finish, Done, TypedTask, hidden
<1>4. Rest1' /\ Lines'
  BY <1>1, LinesSame DEF Finish, Rest1, front, handle, fault, modem, TInv
<1>5. Calling'
  BY <1>1 DEF TInv, Calling, Inside, Finish, Done, front
<1> QED
  BY <1>3, <1>4, <1>5, TypePartsNext

LEMMA DataHereType == ASSUME TInv, DataHere PROVE TypeOK' /\ Lines' /\ Calling'
<1>1. Function \in Callbacks /\ Rest1 /\ TypedTask
  BY TypeParts DEF TInv, DataHere, Calling, Inside
<1>2. /\ mainGSMStateMachine' \in Machine /\ ExecStat' \in Statuses
      /\ smInternal' \in [Libraries -> Nat]
  BY <1>1, CheckErrType DEF DataHere, TypedTask, Results
<1>3. TypedTask'
  BY <1>1, <1>2 DEF DataHere, TypedTask, hidden
<1>4. Rest1'
  BY <1>1 DEF DataHere, Rest1, front, handle, fault
<1>5. \A S \in {Heard, Polite} : ring \in Seq(S) => ring' \in Seq(S)
  BY TailType DEF DataHere
<1>6. Lines'
  BY <1>5, LinesKept DEF TInv, Lines, DataHere, fault
<1>7. Calling'
  BY <1>1 DEF TInv, Calling, Inside, DataHere, front, IInv, Executing
<1> QED
  BY <1>3, <1>4, <1>6, <1>7, TypePartsNext

LEMMA DataTimesOutType ==
  ASSUME TInv, DataTimesOut
  PROVE  TypeOK' /\ Lines' /\ Calling'
<1>1. Function \in Callbacks /\ Rest1 /\ TypedTask
  BY TypeParts DEF TInv, DataTimesOut, Calling, Inside
<1>2. /\ mainGSMStateMachine' \in Machine /\ ExecStat' \in Statuses
      /\ smInternal' \in [Libraries -> Nat]
  BY <1>1, CheckErrType DEF DataTimesOut, TypedTask
<1>3. TypedTask'
  BY <1>1, <1>2 DEF DataTimesOut, Leave, TypedTask
<1>4. faults' \in 0 .. MaxFaults /\ ("bad" \in seen => "bad" \in seen')
  BY <1>1, LateType DEF DataTimesOut, Rest1
<1>5. Rest1' /\ Lines'
  BY <1>1, <1>4, LinesSame DEF DataTimesOut, Rest1, front, handle, modem, TInv
<1>6. Calling'
  BY <1>1 DEF TInv, Calling, Inside, DataTimesOut, Leave, front, IInv, Executing
<1> QED
  BY <1>3, <1>5, <1>6, TypePartsNext

LEMMA CallType == ASSUME TInv, Call PROVE TypeOK' /\ Lines' /\ Calling'
<1>1. CASE Close
  <2>1. Rest1 /\ TypedTask
    BY TypeParts DEF TInv
  <2>2. Rest1' /\ TypedTask' /\ Lines'
    BY <1>1, <2>1, LinesSame DEF Close, Rest1, TypedTask, Machine, mainOp, front,
       modem, handle, fault, hidden, TInv
  <2>3. Calling'
    BY <1>1 DEF Close, TInv, Calling, Inside, mainOp, front
  <2> QED
    BY <2>2, <2>3, TypePartsNext
<1> QED
  BY <1>1, CaseFreeType, CaseWritesType, CaseSkipType, CasePromptType,
     CheckSucceedsType, CheckFailsType, CheckTimesOutType, ParseFailsType,
     FinishType, DataHereType, DataTimesOutType DEF Call

(***************************************************************************)
(* The other steps keep the types.                                         *)
(***************************************************************************)
LEMMA UnsolType == ASSUME TInv, Unsol PROVE TypeOK' /\ Lines' /\ Calling'
<1>1. Rest1 /\ TypedTask
  BY TypeParts DEF TInv
<1>2. notif' \in BOOLEAN
  BY <1>1 DEF Unsol, GSMUnsol, Rest1
<1>3. Rest1'
  BY <1>1, <1>2 DEF Unsol, Rest1, front, fault
<1>4. /\ mainGSMStateMachine' \in Machine /\ ExecStat' \in Statuses
      /\ ExecStat' \in {ExecStat, "SYNTAX_ERR"}
  BY <1>1 DEF Unsol, GSMUnsol, ErrorHandler, TypedTask, Machine, Statuses
<1>5. TypedTask'
  BY <1>1, <1>4 DEF Unsol, TypedTask, hidden
<1>6. \A S \in {Heard, Polite} : ring \in Seq(S) => ring' \in Seq(S)
  BY UnsolRing, PoliteOnes DEF Unsol
<1>7. Lines'
  BY <1>6, LinesKept DEF TInv, Lines, Unsol, fault
<1>8. Calling'
  BY <1>4 DEF TInv, Calling, Inside, Unsol, front
<1> QED
  BY <1>3, <1>5, <1>7, <1>8, TypePartsNext

LEMMA FrontType == ASSUME TInv, FrontEnd PROVE TypeOK' /\ Lines' /\ Calling'
<1>1. Rest1 /\ TypedTask
  BY TypeParts DEF TInv
<1>2. ASSUME NEW f, Entered(f), ExecStat' = "EXECUTION",
             mainGSMStateMachine' \in {mainGSMStateMachine, "IDLE"},
             smInternal' \in [Libraries -> Nat]
      PROVE  TypeOK' /\ Lines' /\ Calling'
  <2>1. f \in AnyCall /\ requests + 1 \in 0 .. MaxRequests
    BY <1>1, <1>2, AskedIs, Bounds DEF Entered, Rest1
  <2>2. Rest1'
    BY <1>1, <1>2, <2>1 DEF Entered, Rest1, handle, fault
  <2>3. TypedTask'
    BY <1>1, <1>2 DEF Entered, TypedTask, Machine, Statuses
  <2>4. Lines'
    BY <1>2, LinesSame DEF Entered, modem, fault, TInv
  <2>5. Calling'
    BY <1>2 DEF Entered, TInv, Calling, Inside, IInv, Semaphore, InCallback
  <2> QED
    BY <2>2, <2>3, <2>4, <2>5, TypePartsNext
<1>3. ASSUME NEW f, Asks(f) \/ Afresh(f)
      PROVE  TypeOK' /\ Lines' /\ Calling'
  <2>1. smInternal' \in [Libraries -> Nat]
    BY <1>1, <1>3 DEF Asks, Afresh, TypedTask
  <2> QED
    BY <1>2, <1>3, <2>1 DEF Asks, Afresh, Asking
<1>4. CASE STDModeEnable
  BY <1>1, <1>2, <1>4 DEF STDModeEnable, TypedTask
<1>5. ASSUME NEW f, LowLevel(f), f \in AnyCall,
             ExecStat' \in {ExecStat, "LL"},
             mainGSMStateMachine' \in {mainGSMStateMachine, "LL_MODE"}
      PROVE  TypeOK' /\ Lines' /\ Calling'
  <2>1. requests + 1 \in 0 .. MaxRequests
    BY <1>1, <1>5, Bounds DEF LowLevel, Rest1
  <2>2. Rest1'
    BY <1>1, <1>5, <2>1 DEF LowLevel, Rest1, handle, fault
  <2>3. TypedTask'
    BY <1>1, <1>5 DEF LowLevel, TypedTask, Machine, Statuses, task, hidden
  <2>4. Lines'
    BY <1>5, LinesSame DEF LowLevel, modem, fault, TInv
  <2>5. Calling'
    BY <1>5 DEF LowLevel, TInv, Calling, Inside, IInv, Semaphore, InCallback, task
  <2> QED
    BY <2>2, <2>3, <2>4, <2>5, TypePartsNext
<1>6. CASE LLModeEnable \/ LLWrite
  BY <1>5, <1>6, AskedIs DEF LLModeEnable, LLWrite, LowLevel
<1> QED
  BY <1>3, <1>4, <1>6, FrontEndShapes

LEMMA UnseenType == ASSUME TInv, Unseen PROVE TypeOK' /\ Lines' /\ Calling'
<1>1. Rest1 /\ TypedTask
  BY TypeParts DEF TInv
<1>2. CASE HiloInit
  <2>1. faults' \in 0 .. MaxFaults /\ ("bad" \in seen => "bad" \in seen')
    BY <1>1, <1>2, FaultType DEF HiloInit, Rest1, fault
  <2>2. Rest1'
    BY <1>1, <1>2, <2>1 DEF HiloInit, Rest1, front, handle
  <2>3. TypedTask'
    BY <1>1, <1>2 DEF HiloInit, TypedTask, mainOp, hidden
  <2>4. Lines'
    <3>1. \A S : <<>> \in Seq(S)
      OBVIOUS
    <3>2. ring' = <<>> /\ wire' = <<>>
      BY <1>2 DEF HiloInit
    <3> QED
      BY <2>1, <3>1, <3>2, LinesKept DEF TInv
  <2>5. Calling'
    BY <1>2 DEF HiloInit, TInv, Calling, Inside, mainOp, front
  <2> QED
    BY <2>2, <2>3, <2>4, <2>5, TypePartsNext
<1>3. CASE findStr
  <2>1. Rest1' /\ Lines'
    BY <1>1, <1>3, LinesSame DEF findStr, Rest1, front, handle, fault, modem, TInv
  <2>2. TypedTask'
    BY <1>1, <1>3 DEF findStr, TypedTask, mainOp, hidden
  <2>3. Calling'
    BY <1>3 DEF findStr, TInv, Calling, Inside, mainOp, front
  <2> QED
    BY <2>1, <2>2, <2>3, TypePartsNext
<1>4. CASE ResetFails
  <2>1. faults' \in 0 .. MaxFaults /\ ("bad" \in seen => "bad" \in seen')
    BY <1>1, <1>4, FaultType DEF ResetFails, SetupFails, Rest1
  <2>2. Rest1' /\ Lines'
    BY <1>1, <1>4, <2>1, LinesSame DEF ResetFails, Rest1, front, handle, modem, TInv
  <2>3. TypedTask'
    BY <1>1, <1>4 DEF ResetFails, TypedTask, mainOp, hidden
  <2>4. Calling'
    BY <1>4 DEF ResetFails, TInv, Calling, Inside, mainOp, front
  <2> QED
    BY <2>2, <2>3, <2>4, TypePartsNext
<1>5. CASE Arrive
  <2>1. Rest1' /\ TypedTask'
    BY <1>1, <1>5 DEF Arrive, Rest1, TypedTask, mainOp, task, hidden, front, handle,
       fault
  <2>2. wire \in Seq(Sent) /\ Head(wire) \in Sent /\ wire' \in Seq(Sent)
        /\ ring' = Append(ring, Head(wire))
    BY <1>5, TailType DEF Arrive, TInv, Lines
  <2>3. \A S \in {Heard, Polite} : ring \in Seq(S) => ring' \in Seq(S)
    <3> TAKE S \in {Heard, Polite}
    <3>1. Head(wire) \in S
      BY <2>2, PoliteOnes
    <3> QED
      BY <2>2, <3>1, AppendType
  <2>4. Lines'
    BY <1>5, <2>2, <2>3, LinesKept DEF TInv, Arrive, fault
  <2>5. Calling'
    BY <1>5 DEF Arrive, TInv, Calling, Inside, mainOp, front, task,
       This, Cases
  <2> QED
    BY <2>1, <2>4, <2>5, TypePartsNext
<1>6. CASE Unasked
  <2>1. PICK m \in Messages : ring' = Append(ring, m) /\ seen' = seen \cup {m.kind}
                              /\ faults' = faults + 1
    BY <1>6 DEF Unasked
  <2>2. faults' \in 0 .. MaxFaults
    BY <1>1, <1>6, <2>1, Bounds DEF Unasked, Rest1
  <2>3. Rest1' /\ TypedTask'
    BY <1>1, <1>6, <2>2 DEF Unasked, Rest1, TypedTask, mainOp, task, hidden, front,
       handle
  <2>4. m \in Heard /\ (m.kind # "bad" => m \in Polite)
    BY MessagesAssumption DEF Heard, Polite
  <2>5. Lines'
    <3>1. wire' = wire /\ ring \in Seq(Heard) /\ ring' \in Seq(Heard)
      BY <1>6, <2>1, <2>4, AppendType DEF Unasked, TInv, Lines
    <3>2. "bad" \notin seen' => m \in Polite /\ ring \in Seq(Polite)
      BY <2>1, <2>4 DEF TInv, Lines
    <3>3. "bad" \notin seen' => ring' \in Seq(Polite)
      BY <2>1, <3>2, AppendType
    <3> QED
      BY <3>1, <3>3 DEF TInv, Lines
  <2>6. Calling'
    BY <1>6 DEF Unasked, TInv, Calling, Inside, mainOp, front, task,
       This, Cases
  <2> QED
    BY <2>3, <2>5, <2>6, TypePartsNext
<1>7. CASE Forget
  <2>1. Rest1' /\ TypedTask' /\ Lines'
    BY <1>1, <1>7, LinesSame DEF Forget, Rest1, TypedTask, mainOp, task, hidden,
       front, fault, modem, TInv
  <2>2. Calling'
    BY <1>7 DEF Forget, TInv, Calling, Inside, mainOp, front, task,
       This, Cases
  <2> QED
    BY <2>1, <2>2, TypePartsNext
<1>8. CASE UNCHANGED vars
  <2>1. Rest1' /\ TypedTask' /\ Lines'
    BY <1>1, <1>8, LinesSame DEF vars, Rest1, TypedTask, mainOp, task, hidden,
       front, fault, modem, handle, TInv
  <2>2. Calling'
    BY <1>8 DEF vars, TInv, Calling, Inside, mainOp, front, task,
       This, Cases
  <2> QED
    BY <2>1, <2>2, TypePartsNext
<1> QED
  BY <1>2, <1>3, <1>4, <1>5, <1>6, <1>7, <1>8 DEF Unseen

LEMMA PlainType == ASSUME TInv, Plain PROVE TypeOK' /\ Lines' /\ Calling'
<1>1. Rest1 /\ TypedTask
  BY TypeParts DEF TInv
<1>2. CASE Close
  BY <1>2, CallType DEF Call
<1>3. CASE Nothing \/ Hibernating \/ cLLModeEnable \/ cLLWrite
  <2>1. Rest1' /\ Lines'
    BY <1>1, <1>3, LinesSame DEF Nothing, Hibernating, cLLModeEnable, cLLWrite, Rest1,
       front, handle, fault, modem, TInv
  <2>2. TypedTask'
    BY <1>1, <1>3, AskedIs DEF Nothing, Hibernating, cLLModeEnable, cLLWrite,
       TypedTask, mainOp, task, hidden, Statuses
  <2>3. Calling'
    BY <1>3 DEF Nothing, Hibernating, cLLModeEnable, cLLWrite, Called, TInv, Calling,
       Inside, mainOp, front, task
  <2> QED
    BY <2>1, <2>2, <2>3, TypePartsNext
<1>4. CASE StartCall
  <2>1. Rest1' /\ Lines'
    BY <1>1, <1>4, LinesSame DEF StartCall, Rest1, front, handle, fault, modem, TInv
  <2>2. smInternal[Lib] \in Nat
    BY <1>1, <1>4, LibraryType DEF StartCall, Lib, TypedTask
  <2>3. TypedTask'
    BY <1>1, <1>4, <2>2 DEF StartCall, TypedTask, mainOp
  <2>4. Calling'
    BY <1>4 DEF StartCall, TInv, Calling, Inside, mainOp, front
  <2> QED
    BY <2>1, <2>3, <2>4, TypePartsNext
<1>5. CASE RefuseCall
  <2>1. Function \in Callbacks
    BY <1>5 DEF RefuseCall, Refused, Callbacks, Script
  <2>2. "error" \in Results \cup {"timeout"}
    BY DEF Results, Failures
  <2>3. /\ mainGSMStateMachine' \in Machine /\ ExecStat' \in Statuses
        /\ smInternal' \in [Libraries -> Nat]
    BY <1>1, <1>5, <2>1, <2>2, CheckErrType DEF RefuseCall, TypedTask
  <2>4. Rest1' /\ Lines'
    BY <1>1, <1>5, LinesSame DEF RefuseCall, Rest1, front, handle, fault, modem, TInv
  <2>5. TypedTask'
    BY <1>1, <1>5, <2>3 DEF RefuseCall, TypedTask, hidden
  <2>6. Calling'
    BY <1>5 DEF RefuseCall, Called, TInv, Calling, Inside, front
  <2> QED
    BY <2>4, <2>5, <2>6, TypePartsNext
<1>6. CASE Suspend \/ Resume
  <2>1. Rest1' /\ Lines'
    BY <1>1, <1>6, LinesSame DEF Suspend, Resume, Rest1, front, handle, fault, modem,
       TInv
  <2>2. TypedTask'
    BY <1>1, <1>6, AskedIs DEF Suspend, Resume, TypedTask, mainOp, hidden, Statuses,
       Machine
  <2>3. Calling'
    BY <1>6 DEF Suspend, Resume, TInv, Calling, Inside, mainOp, front
  <2> QED
    BY <2>1, <2>2, <2>3, TypePartsNext
<1>7. CASE StartSetup
  <2>1. Rest1' /\ Lines'
    BY <1>1, <1>7, LinesSame DEF StartSetup, Rest1, front, handle, fault, modem, TInv
  <2>2. TypedTask'
    BY <1>1, <1>7 DEF StartSetup, TypedTask, mainOp, hidden
  <2>3. Calling'
    BY <1>7 DEF StartSetup, TInv, Calling, Inside, mainOp, front
  <2> QED
    BY <2>1, <2>2, <2>3, TypePartsNext
<1>8. CASE cSTDModeEnable
  <2>1. faults' \in 0 .. MaxFaults /\ ("bad" \in seen => "bad" \in seen')
        /\ hwReady' \in BOOLEAN
    BY <1>1, <1>8, FaultType DEF cSTDModeEnable, SetupFails, Rest1, fault
  <2>2. Rest1' /\ Lines'
    BY <1>1, <1>8, <2>1, LinesSame DEF cSTDModeEnable, Rest1, front, handle, modem,
       TInv
  <2>3. TypedTask'
    BY <1>1, <1>8, AskedIs DEF cSTDModeEnable, TypedTask, hidden, Statuses, Machine
  <2>4. Calling'
    BY <1>8 DEF cSTDModeEnable, TInv, Calling, Inside, front
  <2> QED
    BY <2>2, <2>3, <2>4, TypePartsNext
<1>9. CASE Submit
  <2>1. want \in AnyCall
    BY <1>1 DEF Rest1
  <2>2. Rest1' /\ Lines'
    BY <1>1, <1>9, LinesSame DEF Submit, Rest1, handle, fault, modem, TInv
  <2>3. TypedTask'
    BY <1>1, <1>9, <2>1 DEF Submit, TypedTask, hidden
  <2>4. Calling'
    BY <1>9 DEF Submit, TInv, Calling, Inside, IInv, Semaphore, InCallback
  <2> QED
    BY <2>2, <2>3, <2>4, TypePartsNext
<1>10. CASE Return \/ RequestReset
  <2>1. faults' \in 0 .. MaxFaults /\ ("bad" \in seen => "bad" \in seen')
    BY <1>1, <1>10, FaultType DEF Return, RequestReset, Rest1, fault
  <2>2. Rest1' /\ Lines'
    BY <1>1, <1>10, <2>1, LinesSame DEF Return, RequestReset, Rest1, front, handle,
       modem, TInv
  <2>3. TypedTask'
    BY <1>1, <1>10 DEF Return, RequestReset, TypedTask, mainOp, task, hidden, Machine
  <2>4. Calling'
    BY <1>10 DEF Return, RequestReset, TInv, Calling, Inside, mainOp, front, task,
       This, Cases
  <2> QED
    BY <2>2, <2>3, <2>4, TypePartsNext
<1> QED
  BY <1>2, <1>3, <1>4, <1>5, <1>6, <1>7, <1>8, <1>9, <1>10 DEF Plain

LEMMA InitTInv == Init => TInv
<1> SUFFICES ASSUME Init PROVE TInv
  OBVIOUS
<1>1. TypeOK
  <2>1. 0 \in 0 .. MaxRequests /\ 0 \in 0 .. MaxFaults /\ 0 \in 0 .. MaxBlocks
    BY Bounds
  <2>2. smInternal \in [Libraries -> Nat]
    BY DEF Init
  <2>3. Rest1 /\ TypedTask
    BY <2>1, <2>2, AskedIs DEF Init, Rest1, TypedTask, Statuses, Machine
  <2> QED
    BY <2>3, TypeParts
<1>2. Lines
  BY DEF Init, Lines
<1>3. Calling
  BY DEF Init, Calling, Inside
<1> QED
  BY <1>1, <1>2, <1>3, InitIInv DEF TInv

LEMMA NextTInv == TInv /\ [Next]_vars => TInv'
<1> SUFFICES ASSUME TInv, [Next]_vars PROVE TInv'
  OBVIOUS
<1>1. IInv'
  BY NextIInv DEF TInv
<1>2. TypeOK' /\ Lines' /\ Calling'
  BY StepShapes, CallType, FrontType, UnseenType, UnsolType, PlainType
<1> QED
  BY <1>1, <1>2 DEF TInv

LEMMA TypedInvariant == Spec => []TInv
<1>1. Init => TInv
  BY InitTInv
<1>2. TInv /\ [Next]_vars => TInv'
  BY NextTInv
<1> QED
  BY <1>1, <1>2, PTL DEF Spec

(* Every variable of the GSM task and of the front ends keeps its type,    *)
(* whatever the modem answers: no line makes a status, a case or a handle  *)
(* the code does not know (CheckErr, echoFind, getAnswer and the switches  *)
(* of the callbacks).                                                      *)
THEOREM TypeCorrect == Spec => []TypeOK
<1>1. TInv => TypeOK
  BY DEF TInv
<1> QED
  BY <1>1, TypedInvariant, PTL

(***************************************************************************)
(* The case numbers.  Without malformed messages smInternal is zero for    *)
(* every library but the one whose callback is under way, and that one     *)
(* counts the cases done; every way out of a callback that answers the     *)
(* request resets it.  A fault noticed by another task never meets a       *)
(* callback past its first check, so that it is met with smInternal zero.  *)
(***************************************************************************)
Running == fly = "waiting" /\ ExecStat = "EXECUTION"

AllZero == \A l \in Libraries : smInternal[l] = 0

OthersZero ==
  \A l \in Libraries :
    smInternal[l] = 0 \/ (Running /\ want \in Callbacks /\ l = LibraryOf(want))

Faulty ==
  mainGSMStateMachine = "HW_FAULT" =>
    IF Inside THEN gsm = "call" /\ at <= 2 ELSE AllZero

Sleeping ==
  /\ mainGSMStateMachine = "HIBERNATE" => gsm \in {"loop", "setup"} /\ AllZero
  /\ gsm = "closing" => ExecStat = "SUCCESS"
  /\ gsm = "setup" /\ ExecStat = "EXECUTION" => Function \in Modes

Counting ==
  want \in Callbacks \ Miscounts /\ fly # "idle" =>
    /\ ~gap
    /\ ExecStat = "EXECUTION" =>
         smInternal[LibraryOf(want)] = IF Inside THEN at ELSE path

Orderly == OthersZero /\ Faulty /\ Sleeping /\ Counting

CInv == "bad" \in seen \/ Orderly

LEMMA InsideRuns ==
  ASSUME TInv, Inside
  PROVE  /\ Running /\ Function = want /\ want \in Callbacks /\ Lib = LibraryOf(want)
         /\ Lib \in Libraries /\ smInternal \in [Libraries -> Nat]
         /\ at \in Nat /\ xSemFrontEnd = "GSM"
<1>1. /\ ExecStat = "EXECUTION" /\ fly # "idle" /\ fly # "inside"
      /\ fly \in {"idle", "inside", "waiting"} /\ xSemFrontEnd = "GSM"
  BY DEF TInv, IInv, Executing, Semaphore, InCallback, Inside, TypeOK
<1>2. Running
  BY <1>1 DEF Running
<1>3. Function = want /\ Function \in Callbacks
  BY <1>2 DEF TInv, Calling, Running
<1>4. Lib = LibraryOf(want) /\ Lib \in Libraries
  BY <1>3, LibraryType DEF Lib
<1> QED
  BY <1>1, <1>2, <1>3, <1>4 DEF TInv, TypeOK

(* Past its first check a callback sees no fault but its own.              *)
LEMMA LaterNoFault ==
  ASSUME TInv, Orderly, Inside, at > 2
  PROVE  mainGSMStateMachine # "HW_FAULT"
<1>1. ~(at <= 2)
  BY InsideRuns
<1> QED
  BY <1>1 DEF Orderly, Faulty

(* The ways a case of a callback may end: it goes on, it is left for       *)
(* another try, or the request is answered.                                *)
Proceeds(n) ==
  /\ gsm' \in {"call", "data"} /\ ExecStat' = "EXECUTION"
  /\ UNCHANGED <<fly, want, gap>>
  /\ smInternal' = [smInternal EXCEPT ![Lib] = n]
  /\ want \in Miscounts \/ n = at'
  /\ \/ mainGSMStateMachine' = "IDLE"
     \/ /\ UNCHANGED mainGSMStateMachine
        /\ mainGSMStateMachine = "HW_FAULT" => gsm' = "call" /\ at' <= 2

Retries ==
  /\ gsm' = "loop" /\ path' = at
  /\ UNCHANGED <<ExecStat, fly, want, gap, smInternal>>
  /\ \/ mainGSMStateMachine' \in {"IDLE", "CMD_PENDING"}
     \/ mainGSMStateMachine # "HW_FAULT" /\ UNCHANGED mainGSMStateMachine

Resets ==
  /\ smInternal' = [smInternal EXCEPT ![Lib] = 0]
  /\ ExecStat' # "EXECUTION" /\ UNCHANGED <<fly, want, gap>>
  /\ gsm' \in {"loop", "closing"} /\ (gsm' = "closing" => ExecStat' = "SUCCESS")
  /\ mainGSMStateMachine' # "HIBERNATE"

LEMMA OrderlyGoesOn ==
  ASSUME TInv, Orderly, Inside, NEW n, Proceeds(n)
  PROVE  Orderly'
<1> USE DEF Proceeds
<1>1. /\ Running /\ Running' /\ Inside' /\ want \in Callbacks /\ Lib = LibraryOf(want)
      /\ Lib \in Libraries /\ smInternal \in [Libraries -> Nat]
  BY InsideRuns DEF Running, Inside
<1>2. smInternal'[Lib] = n /\ \A l \in Libraries : l # Lib => smInternal'[l] = smInternal[l]
  BY <1>1
<1>3. OthersZero'
  BY <1>1, <1>2 DEF Orderly, OthersZero
<1>4. Faulty'
  BY <1>1 DEF Orderly, Faulty
<1>5. Sleeping'
  BY <1>1 DEF Orderly, Sleeping, Inside
<1>6. Counting'
  BY <1>1, <1>2 DEF Orderly, Counting, Running
<1> QED
  BY <1>3, <1>4, <1>5, <1>6 DEF Orderly

LEMMA OrderlyTries ==
  ASSUME TInv, Orderly, Inside, Retries
  PROVE  Orderly'
<1> USE DEF Retries
<1>1. Running /\ Running' /\ ~Inside'
  BY InsideRuns DEF Running, Inside
<1>2. mainGSMStateMachine # "HIBERNATE"
  BY DEF Orderly, Sleeping, Inside
<1>3. OthersZero'
  BY <1>1 DEF Orderly, OthersZero
<1>4. Faulty' /\ Sleeping'
  BY <1>2 DEF Faulty, Sleeping
<1>5. Counting'
  BY <1>1 DEF Orderly, Counting, Running
<1> QED
  BY <1>3, <1>4, <1>5 DEF Orderly

LEMMA OrderlyAnswers ==
  ASSUME TInv, Orderly, Function \in Callbacks,
         \A l \in Libraries : smInternal[l] = 0 \/ l = Lib, Resets
  PROVE  Orderly' /\ AllZero'
<1> USE DEF Resets
<1>1. AllZero'
  <2>1. Lib \in Libraries /\ smInternal \in [Libraries -> Nat]
    BY LibraryType DEF Lib, TInv, TypeOK
  <2> QED
    BY <2>1 DEF AllZero
<1>2. OthersZero' /\ Faulty'
  BY <1>1 DEF AllZero, OthersZero, Faulty, Inside
<1>3. Sleeping' /\ Counting'
  BY DEF Sleeping, Orderly, Counting
<1> QED
  BY <1>1, <1>2, <1>3 DEF Orderly

LEMMA OthersInside ==
  ASSUME TInv, Orderly, Inside
  PROVE  /\ \A l \in Libraries : smInternal[l] = 0 \/ l = Lib
         /\ mainGSMStateMachine # "HIBERNATE" /\ Function \in Callbacks
<1>1. Lib = LibraryOf(want) /\ Function \in Callbacks
  BY InsideRuns
<1> QED
  BY <1>1 DEF Orderly, OthersZero, Sleeping, Inside

(* The first cases of a script wait, write and check an echo.              *)
LEMMA EarlyCases ==
  ASSUME TInv, NEW do, InCase(do), at <= 2
  PROVE  /\ at = 0 => This.do = "free"
         /\ at = 1 => This.do = "send"
         /\ at = 2 => This.do \in {"echo", "sized"}
         /\ at \in {0, 1, 2}
<1>1. Opens(Cases) /\ at \in Nat
  BY ThisType DEF Scripts, TInv, TypeOK
<1> QED
  BY <1>1 DEF Opens, This

(* The callbacks that are not counted case by case are those that miscount. *)
LEMMA OddCases ==
  ASSUME TInv, NEW do, InCase(do), This.do \in {"take", "prompt"}
  PROVE  Function \in Miscounts
<1>1. at + 1 \in DOMAIN Cases /\ Function \in Callbacks
  BY ThisType DEF Scripts
<1> QED
  BY <1>1 DEF Miscounts, Cases, This

LEMMA CaseOrderly ==
  ASSUME TInv, Orderly, Call, ~Close
  PROVE  Orderly'
<1>0. /\ Inside /\ Function = want /\ at \in Nat /\ ExecStat = "EXECUTION"
      /\ Lib \in Libraries /\ smInternal \in [Libraries -> Nat]
  BY CaseEffect, InsideRuns DEF TInv, Inside, Running
<1>1. want \notin Miscounts => smInternal[Lib] = at
  BY <1>0, InsideRuns DEF Orderly, Counting, Running
<1>2. smInternal[Lib] + 1 = at + 1 \/ want \in Miscounts
  BY <1>1
<1>3. CASE CaseFree
  <2>1. UNCHANGED <<fly, want, gap, ExecStat>> /\ gsm = "call"
    BY <1>3 DEF CaseFree, InCase, mainOp, front
  <2>2. CASE ring = <<>>
    <3>1. /\ gsm' = "call" /\ at' = at + 1 /\ UNCHANGED mainGSMStateMachine
          /\ smInternal' = [smInternal EXCEPT ![Lib] = smInternal[Lib] + 1]
      BY <1>3, <2>1, <2>2 DEF CaseFree, Fall
    <3>2. InCase({"free"}) /\ This.do = "free"
      BY <1>3, ThisType DEF CaseFree
    <3>3. mainGSMStateMachine = "HW_FAULT" => at <= 2
      BY <1>0 DEF Orderly, Faulty
    <3>4. at <= 2 => at' <= 2
      BY <1>0, <3>1, <3>2, EarlyCases
    <3>5. Proceeds(smInternal[Lib] + 1)
      BY <1>0, <1>2, <2>1, <3>1, <3>3, <3>4 DEF Proceeds
    <3> QED
      BY <1>0, <3>5, OrderlyGoesOn
  <2>3. CASE ring # <<>>
    <3>1. /\ gsm' = "loop" /\ path' = at /\ mainGSMStateMachine' = "CMD_PENDING"
          /\ UNCHANGED smInternal
      BY <1>3, <2>3 DEF CaseFree, Leave
    <3>2. Retries
      BY <1>0, <2>1, <3>1 DEF Retries
    <3> QED
      BY <1>0, <3>2, OrderlyTries
  <2> QED
    BY <2>2, <2>3
<1>4. CASE CaseSend \/ CaseIfAny \/ CaseSkip
  <2>1. /\ UNCHANGED <<fly, want, gap, ExecStat, mainGSMStateMachine>> /\ gsm' = "call"
        /\ at' = at + 1
        /\ smInternal' = [smInternal EXCEPT ![Lib] = smInternal[Lib] + 1]
    BY <1>4 DEF CaseSend, CaseIfAny, CaseSkip, Write, Fall, InCase, mainOp, front
  <2>2. InCase({"send", "ifany", "skip"}) /\ This.do \in {"send", "ifany", "skip"}
    BY <1>4, ThisType DEF CaseSend, CaseIfAny, CaseSkip, InCase
  <2>3. mainGSMStateMachine = "HW_FAULT" => at <= 2
    BY <1>0 DEF Orderly, Faulty
  <2>4. at <= 2 => at' <= 2
    BY <1>0, <2>1, <2>2, EarlyCases
  <2>5. Proceeds(smInternal[Lib] + 1)
    BY <1>0, <1>2, <2>1, <2>3, <2>4 DEF Proceeds
  <2> QED
    BY <1>0, <2>5, OrderlyGoesOn
<1>5. CASE CasePrompt
  <2>1. UNCHANGED <<fly, want, gap, ExecStat, mainGSMStateMachine, smInternal>>
    BY <1>5 DEF CasePrompt, mainOp, front
  <2>2. InCase({"prompt"}) /\ This.do = "prompt"
    BY <1>5, ThisType DEF CasePrompt
  <2>3. mainGSMStateMachine # "HW_FAULT" /\ want \in Miscounts
    BY <1>0, <2>2, EarlyCases, LaterNoFault, OddCases
  <2>4. CASE Leave
    <3>1. Retries
      BY <2>1, <2>3, <2>4 DEF Leave, Retries
    <3> QED
      BY <1>0, <3>1, OrderlyTries
  <2>5. CASE Fall
    <3>1. smInternal' = [smInternal EXCEPT ![Lib] = smInternal[Lib]]
      BY <1>0, <2>1
    <3>2. gsm' = "call" /\ ExecStat' = "EXECUTION"
      BY <1>0, <2>1, <2>2, <2>5 DEF Fall, InCase
    <3>3. Proceeds(smInternal[Lib])
      BY <1>0, <2>1, <2>3, <3>1, <3>2 DEF Proceeds
    <3> QED
      BY <1>0, <3>3, OrderlyGoesOn
  <2> QED
    BY <1>5, <2>4, <2>5 DEF CasePrompt
<1>6. CASE CheckSucceeds
  <2>1. /\ UNCHANGED <<fly, want, gap>> /\ gsm = "call"
        /\ mainGSMStateMachine' = "IDLE" /\ ExecStat' = "EXECUTION"
    BY <1>6, CheckErrOk DEF CheckSucceeds, InCase, front
  <2>2. CASE This.do = "again"
    <3>1. /\ gsm' = "call" /\ at' = 1
          /\ smInternal' = [smInternal EXCEPT ![Lib] = 1]
      BY <1>6, <2>1, <2>2 DEF CheckSucceeds
    <3>2. Proceeds(1)
      BY <1>0, <2>1, <3>1 DEF Proceeds
    <3> QED
      BY <1>0, <3>2, OrderlyGoesOn
  <2>3. CASE This.do # "again"
    <3>1. smInternal' = [smInternal EXCEPT ![Lib] = smInternal[Lib] + 1]
      BY <1>6, <2>3 DEF CheckSucceeds, CheckErr
    <3>2. \/ This.do = "take" /\ gsm' = "data"
          \/ at' = at + 1 /\ gsm' = "call"
      BY <1>6, <2>1, <2>3 DEF CheckSucceeds, Fall
    <3>3. This.do = "take" => want \in Miscounts
      BY <1>0, <1>6, OddCases DEF CheckSucceeds
    <3>4. Proceeds(smInternal[Lib] + 1)
      BY <1>0, <1>2, <2>1, <3>1, <3>2, <3>3 DEF Proceeds
    <3> QED
      BY <1>0, <3>4, OrderlyGoesOn
  <2> QED
    BY <2>2, <2>3
<1>7. CASE CheckFails \/ CheckTimesOut \/ DataTimesOut
  <2>1. UNCHANGED <<fly, want, gap>> /\ Leave
    BY <1>7 DEF CheckFails, CheckTimesOut, DataTimesOut, front
  <2>2. PICK r \in Results \cup {"timeout"} : r # "ok" /\ CheckErr(r)
    <3>1. ASSUME CheckFails
          PROVE  Result(Head(ring)) \in Results /\ Result(Head(ring)) # "ok"
                 /\ CheckErr(Result(Head(ring)))
      BY <3>1, SomeLineIsHead, ResultType DEF CheckFails, TInv, Lines
    <3>2. CheckTimesOut \/ DataTimesOut => CheckErr("timeout")
      BY DEF CheckTimesOut, DataTimesOut
    <3> QED
      BY <1>7, <3>1, <3>2
  <2>3. CASE r = "unexpected"
    <3>1. mainGSMStateMachine' = "CMD_PENDING" /\ ExecStat' = ExecStat
      BY <1>0, <2>2, <2>3 DEF CheckErr, Status
    <3>2. smInternal' = [smInternal EXCEPT ![Lib] = smInternal[Lib]]
      BY <2>2, <2>3 DEF CheckErr
    <3>3. UNCHANGED smInternal
      BY <1>0, <3>2
    <3>4. Retries
      BY <1>0, <2>1, <3>1, <3>3 DEF Retries, Leave
    <3> QED
      BY <1>0, <3>4, OrderlyTries
  <2>4. CASE r # "unexpected"
    <3>1. smInternal' = [smInternal EXCEPT ![Lib] = 0]
      BY <2>2, <2>4 DEF CheckErr
    <3>2. mainGSMStateMachine' # "HIBERNATE" /\ ExecStat' # "EXECUTION"
      BY <2>2, <2>4 DEF CheckErr, Status, Results, Failures
    <3>3. Resets
      BY <2>1, <3>1, <3>2 DEF Resets, Leave
    <3> QED
      BY <1>0, <3>3, OthersInside, OrderlyAnswers
  <2> QED
    BY <2>3, <2>4
<1>8. CASE ParseFails \/ Finish
  <2>1. /\ UNCHANGED <<fly, want, gap, mainGSMStateMachine>>
        /\ smInternal' = [smInternal EXCEPT ![Lib] = 0]
        /\ gsm' = "closing" /\ ExecStat' = "SUCCESS"
    BY <1>8 DEF ParseFails, Finish, Done, front, hidden
  <2>2. Resets
    BY <1>0, <2>1, OthersInside DEF Resets
  <2> QED
    BY <1>0, <2>2, OthersInside, OrderlyAnswers
<1>9. CASE DataHere
  <2>1. UNCHANGED <<fly, want, gap>> /\ gsm = "data" /\ gsm' = "call" /\ CheckErr("ok")
    BY <1>9 DEF DataHere, front, hidden
  <2>2. /\ smInternal' = [smInternal EXCEPT ![Lib] = smInternal[Lib] + 1]
        /\ mainGSMStateMachine' = "IDLE" /\ ExecStat' = "EXECUTION"
    BY <2>1, CheckErrOk DEF CheckErr
  <2>3. want \in Miscounts
    <3>1. Function \in Callbacks /\ at < Len(Cases) /\ This.do = "take"
      BY <2>1 DEF TInv, Calling, Inside
    <3>2. Cases \in Seq(CaseType)
      BY <3>1, ScriptsType DEF Cases, Scripts
    <3>3. at + 1 \in DOMAIN Cases
      BY <1>0, <3>1, <3>2
    <3> QED
      BY <1>0, <3>1, <3>3 DEF Miscounts, Cases, This
  <2>4. Proceeds(smInternal[Lib] + 1)
    BY <1>0, <2>1, <2>2, <2>3 DEF Proceeds
  <2> QED
    BY <1>0, <2>4, OrderlyGoesOn
<1> QED
  BY <1>3, <1>4, <1>5, <1>6, <1>7, <1>8, <1>9 DEF Call

(***************************************************************************)
(* The steps outside the callbacks.                                        *)
(***************************************************************************)
Outside ==
  /\ UNCHANGED <<smInternal, path, gap, want>>
  /\ AllZero \/ UNCHANGED <<fly, ExecStat>>
  /\ fly' # "idle" => fly # "idle"
  /\ ExecStat' = "EXECUTION" => ExecStat = "EXECUTION"
  /\ mainGSMStateMachine' = "HW_FAULT" => mainGSMStateMachine = "HW_FAULT" \/ AllZero
  /\ mainGSMStateMachine' = "HIBERNATE" =>
       gsm' \in {"loop", "setup"} /\ (mainGSMStateMachine = "HIBERNATE" \/ AllZero)
  /\ gsm' = "closing" => ExecStat' = "SUCCESS"
  /\ gsm' = "setup" /\ ExecStat' = "EXECUTION" => Function' \in Modes

LEMMA OrderlyOutside ==
  ASSUME Orderly, ~Inside, ~Inside', Outside
  PROVE  Orderly'
<1>1. AllZero => AllZero'
  BY DEF AllZero, Outside
<1>2. OthersZero'
  <2>1. CASE AllZero
    BY <1>1, <2>1 DEF AllZero, OthersZero
  <2>2. CASE UNCHANGED <<fly, ExecStat>>
    BY <2>2 DEF Orderly, OthersZero, Outside, Running
  <2> QED
    BY <2>1, <2>2 DEF Outside
<1>3. Faulty'
  BY <1>1 DEF Orderly, Faulty, Outside
<1>4. Sleeping'
  BY <1>1 DEF Orderly, Sleeping, Outside
<1>5. Counting'
  BY DEF Orderly, Counting, Outside
<1> QED
  BY <1>2, <1>3, <1>4, <1>5 DEF Orderly

(* Nothing is under way when nobody waits for an answer.                   *)
LEMMA Unoccupied ==
  ASSUME TInv, Orderly, ~Running
  PROVE  AllZero /\ ~Inside
<1>1. AllZero
  BY DEF Orderly, OthersZero, AllZero
<1>2. ~Inside
  BY InsideRuns
<1> QED
  BY <1>1, <1>2

LEMMA PoliteUnsol ==
  ASSUME TInv, "bad" \notin seen, Unsol
  PROVE  UNCHANGED <<ExecStat, mainGSMStateMachine>>
<1>1. CASE ~SomeLine
  BY <1>1 DEF Unsol
<1>2. CASE SomeLine /\ (FirstTold = 0 \/ Told1.kind = "flood")
  BY <1>2 DEF Unsol, GSMUnsol
<1>3. CASE SomeLine /\ FirstTold # 0 /\ Told1.kind # "flood"
  <2>1. ring \in Seq(Polite)
    BY DEF TInv, Lines
  <2>2. Told1 \in Polite
    BY <1>3, <2>1, FirstToldIs
  <2>3. Told1.kind # "bad"
    BY <2>2 DEF Polite
  <2> QED
    BY <1>3, <2>3 DEF Unsol, GSMUnsol
<1> QED
  BY <1>1, <1>2, <1>3

LEMMA FrontOrderly ==
  ASSUME TInv, Orderly, FrontEnd
  PROVE  Orderly'
<1>1. fly = "idle" /\ gsm = gsm' /\ xSemFrontEnd = "free"
  BY FrontEndEffect DEF Enters, Lowers
<1>2. /\ AllZero /\ ~Inside /\ ~Inside'
      /\ ~(gsm' \in {"closing", "setup"})
  BY <1>1, Unoccupied DEF Running, Inside, TInv, IInv, Semaphore, InCallback
<1>3. ASSUME NEW f, Entered(f), ExecStat' = "EXECUTION",
             mainGSMStateMachine' \in {mainGSMStateMachine, "IDLE"},
             AllZero'
      PROVE  Orderly'
  <2>1. /\ fly' = "inside" /\ want' = f /\ path' = 0 /\ gap' = FALSE
    BY <1>3 DEF Entered
  <2>2. OthersZero' /\ Faulty'
    BY <1>2, <1>3 DEF OthersZero, AllZero, Faulty
  <2>3. Sleeping'
    BY <1>1, <1>2, <1>3 DEF Orderly, Sleeping
  <2>4. want' \in Callbacks => smInternal'[LibraryOf(want')] = 0
    BY <1>3, LibraryType DEF AllZero
  <2>5. Counting'
    BY <1>2, <2>1, <2>4 DEF Counting
  <2> QED
    BY <2>2, <2>3, <2>5 DEF Orderly
<1>4. ASSUME NEW f, Asks(f) \/ Afresh(f)
      PROVE  Orderly'
  <2>1. smInternal \in [Libraries -> Nat]
    BY DEF TInv, TypeOK
  <2>2. AllZero'
    BY <1>2, <1>4, <2>1 DEF Asks, Afresh, AllZero
  <2> QED
    BY <1>3, <1>4, <2>2 DEF Asks, Afresh, Asking
<1>5. CASE STDModeEnable
  <2>1. AllZero'
    BY <1>2, <1>5 DEF STDModeEnable, AllZero
  <2> QED
    BY <1>3, <1>5, <2>1 DEF STDModeEnable
<1>6. CASE LLModeEnable \/ LLWrite
  <2>1. Outside
    BY <1>1, <1>2, <1>6 DEF LLModeEnable, LLWrite, LowLevel, Outside, hidden, task,
       Orderly, Sleeping
  <2> QED
    BY <1>2, <2>1, OrderlyOutside
<1> QED
  BY <1>4, <1>5, <1>6, FrontEndShapes

LEMMA StartOrderly ==
  ASSUME TInv, Orderly, StartCall
  PROVE  Orderly'
<1>1. /\ gsm = "check" /\ ExecStat = "EXECUTION" /\ xSemFrontEnd = "free"
      /\ Function \in Callbacks
      /\ gsm' = "call" /\ at' = smInternal[Lib] /\ gap' = (gap \/ smInternal[Lib] # path)
      /\ UNCHANGED <<mainGSMStateMachine, ExecStat, Function, smInternal, fly, want>>
  BY DEF StartCall, Called, mainOp, front
<1>2. Running
  BY <1>1 DEF Running, TInv, IInv, Executing, Semaphore, TypeOK
<1>3. Function = want /\ Lib = LibraryOf(want) /\ Lib \in Libraries
  BY <1>1, <1>2, LibraryType DEF TInv, Calling, Running, Lib
<1>4. OthersZero'
  BY <1>1 DEF Orderly, OthersZero, Running
<1>5. Faulty'
  <2>1. mainGSMStateMachine = "HW_FAULT" => smInternal[Lib] = 0
    BY <1>1, <1>3 DEF Orderly, Faulty, AllZero, Inside
  <2> QED
    BY <1>1, <2>1 DEF Faulty, Inside
<1>6. Sleeping'
  BY <1>1 DEF Orderly, Sleeping
<1>7. Counting'
  BY <1>1, <1>2, <1>3 DEF Orderly, Counting, Running, Inside
<1> QED
  BY <1>4, <1>5, <1>6, <1>7 DEF Orderly

LEMMA PlainOrderly ==
  ASSUME TInv, Orderly, Plain
  PROVE  Orderly'
<1>1. CASE Close
  <2>1. gsm = "closing" /\ ExecStat = "SUCCESS"
    BY <1>1 DEF Close, Orderly, Sleeping
  <2>2. AllZero
    BY <2>1, Unoccupied DEF Running
  <2>3. Outside /\ ~Inside /\ ~Inside'
    BY <1>1, <2>1, <2>2 DEF Close, Outside, Inside, mainOp, front, hidden
  <2> QED
    BY <2>3, OrderlyOutside
<1>2. CASE Nothing \/ cLLModeEnable \/ cLLWrite
  <2>1. Outside /\ ~Inside /\ ~Inside'
    BY <1>2 DEF Nothing, cLLModeEnable, cLLWrite, Outside, Inside, mainOp, front,
       hidden, task, Orderly, Sleeping
  <2> QED
    BY <2>1, OrderlyOutside
<1>3. CASE StartCall
  BY <1>3, StartOrderly
<1>4. CASE RefuseCall
  <2>1. /\ Function = "cTCPWrite" /\ ExecStat = "EXECUTION" /\ gsm = "check"
        /\ xSemFrontEnd = "free" /\ gsm' = "loop"
        /\ UNCHANGED <<fly, want, gap>>
    BY <1>4 DEF RefuseCall, Refused, Called, front, hidden
  <2>2. Function \in Callbacks
    BY <2>1 DEF Callbacks, Script
  <2>3. Running
    BY <2>1 DEF Running, TInv, IInv, Executing, Semaphore, TypeOK
  <2>4. Lib = LibraryOf(want)
    BY <2>3 DEF TInv, Calling, Running, Lib
  <2>5. \A l \in Libraries : smInternal[l] = 0 \/ l = Lib
    BY <2>4 DEF Orderly, OthersZero
  <2>6. /\ smInternal' = [smInternal EXCEPT ![Lib] = 0]
        /\ mainGSMStateMachine' = "IDLE" /\ ExecStat' = "SYNTAX_ERR"
    BY <1>4 DEF RefuseCall, CheckErr, Status
  <2>7. Resets
    BY <2>1, <2>6 DEF Resets
  <2> QED
    BY <2>2, <2>5, <2>7, OrderlyAnswers
<1>5. CASE Hibernating
  <2>1. AllZero
    BY <1>5 DEF Hibernating, Orderly, Sleeping
  <2>2. Outside /\ ~Inside /\ ~Inside'
    BY <1>5, <2>1 DEF Hibernating, Outside, Inside, front, hidden, task
  <2> QED
    BY <2>2, OrderlyOutside
<1>6. CASE Suspend
  <2>1. Outside /\ ~Inside /\ ~Inside'
    BY <1>6 DEF Suspend, Outside, Inside, mainOp, front, hidden
  <2> QED
    BY <2>1, OrderlyOutside
<1>7. CASE Resume
  <2>1. gsm = "reset" /\ mainGSMStateMachine = "HW_FAULT"
    BY <1>7 DEF Resume, TInv, IInv, Suspension
  <2>2. AllZero
    BY <2>1 DEF Orderly, Faulty, Inside
  <2>3. Outside /\ ~Inside /\ ~Inside'
    BY <1>7, <2>1, <2>2 DEF Resume, Outside, Inside, front
  <2> QED
    BY <2>3, OrderlyOutside
<1>8. CASE StartSetup
  <2>1. Function \in Modes
    BY <1>8 DEF StartSetup, Called, Modes
  <2>2. Outside /\ ~Inside /\ ~Inside'
    BY <1>8, <2>1 DEF StartSetup, Called, Outside, Inside, mainOp, front, hidden,
       Orderly, Sleeping
  <2> QED
    BY <2>2, OrderlyOutside
<1>9. CASE cSTDModeEnable
  <2>1. gsm = "setup"
    BY <1>9 DEF cSTDModeEnable
  <2>2. AllZero
    <3>1. Function \in Modes => Function \notin Callbacks
      BY DEF Modes, Callbacks, Script
    <3>2. Running => want \notin Callbacks
      BY <2>1, <3>1 DEF Orderly, Sleeping, TInv, Calling, Running
    <3> QED
      BY <3>2 DEF Orderly, OthersZero, AllZero
  <2>3. Outside /\ ~Inside /\ ~Inside'
    BY <1>9, <2>1, <2>2 DEF cSTDModeEnable, Outside, Inside, front, hidden
  <2> QED
    BY <2>3, OrderlyOutside
<1>10. CASE Submit
  <2>1. /\ fly = "inside" /\ ~Inside /\ AllZero
    BY <1>10, Unoccupied DEF Submit, Running
  <2>2. gsm \notin {"closing", "setup"}
    BY <2>1 DEF TInv, IInv, Semaphore, InCallback
  <2>3. Outside /\ ~Inside'
    BY <1>10, <2>1, <2>2 DEF Submit, Outside, Inside, hidden, Orderly, Sleeping
  <2> QED
    BY <2>1, <2>3, OrderlyOutside
<1>11. CASE Return
  <2>1. AllZero /\ ~Inside
    BY <1>11, Unoccupied DEF Return, Running
  <2>2. Outside /\ ~Inside'
    BY <1>11, <2>1 DEF Return, Outside, Inside, hidden, task, mainOp, Orderly, Sleeping
  <2> QED
    BY <2>1, <2>2, OrderlyOutside
<1>12. CASE RequestReset
  <2>1. AllZero /\ ~Inside
    BY <1>12, Unoccupied DEF RequestReset, Running
  <2>2. Outside /\ ~Inside'
    BY <1>12, <2>1 DEF RequestReset, Outside, Inside, hidden, task, mainOp, front,
       Orderly, Sleeping
  <2> QED
    BY <2>1, <2>2, OrderlyOutside
<1> QED
  BY <1>1, <1>2, <1>3, <1>4, <1>5, <1>6, <1>7, <1>8, <1>9, <1>10, <1>11, <1>12
  DEF Plain

LEMMA UnseenOrderly ==
  ASSUME TInv, Orderly, Unseen
  PROVE  Orderly'
<1>1. CASE HiloInit \/ findStr \/ ResetFails
  <2>1. Outside /\ ~Inside /\ ~Inside'
    BY <1>1 DEF HiloInit, findStr, ResetFails, Outside, Inside, hidden, mainOp, front,
       Orderly, Sleeping
  <2> QED
    BY <2>1, OrderlyOutside
<1>2. CASE Arrive \/ Unasked \/ Forget \/ UNCHANGED vars
  <2>1. UNCHANGED <<mainGSMStateMachine, ExecStat, Function, smInternal, gsm, at, fly,
                    want, path, gap>>
    BY <1>2 DEF Arrive, Unasked, Forget, vars, mainOp, front, task, hidden
  <2> QED
    BY <2>1 DEF Orderly, OthersZero, Faulty, Sleeping, Counting, AllZero, Running,
       Inside
<1> QED
  BY <1>1, <1>2 DEF Unseen

LEMMA SeenGrows == ASSUME [Next]_vars PROVE seen \subseteq seen'
<1>1. UNCHANGED fault \/ (\E k : Fault(k)) => seen \subseteq seen'
  BY DEF fault, Fault
<1>2. \A n, c : Reacts(n, c) => seen \subseteq seen'
  BY <1>1 DEF Reacts
<1>3. CASE CaseSend \/ CaseIfAny \/ CheckSucceeds
  BY <1>1, <1>2, <1>3 DEF CaseSend, CaseIfAny, Write, CheckSucceeds
<1>4. CASE CaseFree \/ CaseSkip \/ CasePrompt \/ CheckFails \/ CheckTimesOut
           \/ ParseFails \/ DataHere \/ DataTimesOut \/ Finish
  BY <1>1, <1>4 DEF CaseFree, CaseSkip, CasePrompt, CheckFails, CheckTimesOut,
     ParseFails, DataHere, DataTimesOut, Finish
<1>5. CASE FrontEnd
  <2>1. UNCHANGED fault
    BY <1>5, FrontEndShapes DEF Asks, Afresh, Asking, Entered, LowLevel, STDModeEnable,
       LLModeEnable, LLWrite
  <2> QED
    BY <1>1, <2>1
<1>6. CASE Unseen
  BY <1>1, <1>6 DEF Unseen, HiloInit, findStr, ResetFails, SetupFails, Arrive, Unasked,
     Forget, vars, fault
<1>7. CASE Unsol \/ Plain
  BY <1>1, <1>7 DEF Unsol, Plain, Close, Nothing, StartCall, RefuseCall, Hibernating,
     Suspend, Resume, cLLModeEnable, cLLWrite, StartSetup, cSTDModeEnable, SetupFails,
     Submit, Return, RequestReset
<1> QED
  BY <1>3, <1>4, <1>5, <1>6, <1>7, StepShapes DEF Call

LEMMA NextCInv == TInv /\ CInv /\ [Next]_vars => CInv'
<1> SUFFICES ASSUME TInv, CInv, [Next]_vars, "bad" \notin seen' PROVE Orderly'
  BY DEF CInv
<1>1. "bad" \notin seen
  BY SeenGrows
<1>2. Orderly
  BY <1>1 DEF CInv
<1>3. CASE Unsol
  <2>1. UNCHANGED <<ExecStat, mainGSMStateMachine>>
    BY <1>1, <1>3, PoliteUnsol
  <2>2. Outside /\ ~Inside /\ ~Inside'
    BY <1>3, <2>1 DEF Unsol, Outside, Inside, front, hidden
  <2> QED
    BY <1>2, <2>2, OrderlyOutside
<1> QED
  BY <1>2, <1>3, StepShapes, CaseOrderly, FrontOrderly, UnseenOrderly, PlainOrderly

LEMMA InitCInv == Init => CInv
BY DEF Init, CInv, Orderly, OthersZero, Faulty, Sleeping, Counting, Inside

LEMMA CountingInvariant == Spec => []CInv
<1>1. Init => CInv
  BY InitCInv
<1>2. TInv /\ CInv /\ [Next]_vars => CInv'
  BY NextCInv
<1> QED
  BY <1>1, <1>2, TypedInvariant, PTL DEF Spec

(* OP_SUCCESS means that the script was run from its first case to its     *)
(* last one and came back, after every interruption, to the case it had    *)
(* left, for every callback but the two kinds that miscount (CheckErr and  *)
(* the static smInternal of the libraries).                                *)
THEOREM Complete == Spec => []SuccessIsComplete
<1>1. CInv => SuccessIsComplete
  BY DEF CInv, Orderly, Counting, SuccessIsComplete, Succeeded
<1> QED
  BY <1>1, CountingInvariant, PTL


(***************************************************************************)
(* Whose answers a request takes.  First how sequences hold their lines,   *)
(* then how the cases of a script follow each other, what the modem sends  *)
(* for them, what may be due at each case (Clean), and the steps.          *)
(***************************************************************************)

(***************************************************************************)
(* Which lines a sequence holds, and in which order: all that the rest     *)
(* looks at.  A line of two equal ones stands for both.                    *)
(***************************************************************************)
Precedes(s, x, y) == \E i, j \in 1 .. Len(s) : i < j /\ s[i] = x /\ s[j] = y

(* r holds nothing s does not hold, in no other order.                     *)
Within(r, s) ==
  /\ \A x : Contains(r, x) => Contains(s, x)
  /\ \A x, y : Precedes(r, x, y) => Precedes(s, x, y)

LEMMA TailWithin ==
  ASSUME NEW S, NEW s \in Seq(S), s # <<>>
  PROVE  /\ Contains(s, Head(s)) /\ Within(Tail(s), s)
         /\ \A x : Contains(Tail(s), x) => Precedes(s, Head(s), x)
<1>1. /\ Len(s) \in Nat \ {0} /\ Len(Tail(s)) = Len(s) - 1 /\ Head(s) = s[1]
      /\ \A i \in 1 .. Len(s) - 1 : Tail(s)[i] = s[i + 1]
  OBVIOUS
<1> DEFINE r == Tail(s)
           h == Head(s)
<1> HIDE DEF r, h
<1>2. /\ Len(s) \in Nat \ {0} /\ Len(r) = Len(s) - 1 /\ h = s[1]
      /\ \A i \in 1 .. Len(r) : r[i] = s[i + 1] /\ i + 1 \in 1 .. Len(s) /\ 1 < i + 1
  BY <1>1 DEF r, h
<1>3. Contains(s, h)
  BY <1>2 DEF Contains
<1>4. ASSUME NEW x, Contains(r, x) PROVE Contains(s, x) /\ Precedes(s, h, x)
  BY <1>2, <1>4 DEF Contains, Precedes
<1>5. ASSUME NEW x, NEW y, Precedes(r, x, y) PROVE Precedes(s, x, y)
  <2>1. PICK i, j \in 1 .. Len(r) : i < j /\ r[i] = x /\ r[j] = y
    BY <1>5 DEF Precedes
  <2>2. /\ i + 1 \in 1 .. Len(s) /\ j + 1 \in 1 .. Len(s) /\ i + 1 < j + 1
        /\ s[i + 1] = x /\ s[j + 1] = y
    BY <1>2, <2>1
  <2> QED
    BY <2>2 DEF Precedes
<1> QED
  BY <1>3, <1>4, <1>5 DEF Within, r, h

LEMMA SuffixWithin ==
  ASSUME NEW S, NEW s \in Seq(S), NEW n \in 0 .. Len(s)
  PROVE  Within(SubSeq(s, n + 1, Len(s)), s)
<1> DEFINE r == SubSeq(s, n + 1, Len(s))
<1>1. Len(r) = Len(s) - n /\ \A i \in 1 .. Len(s) - n : r[i] = s[i + n]
  BY SuffixIs
<1>2. Len(s) \in Nat
  OBVIOUS
<1> HIDE DEF r
<1>3. \A i \in 1 .. Len(r) : r[i] = s[i + n] /\ i + n \in 1 .. Len(s)
  BY <1>1, <1>2
<1>4. ASSUME NEW x, Contains(r, x) PROVE Contains(s, x)
  BY <1>3, <1>4 DEF Contains
<1>5. ASSUME NEW x, NEW y, Precedes(r, x, y) PROVE Precedes(s, x, y)
  <2>1. PICK i, j \in 1 .. Len(r) : i < j /\ r[i] = x /\ r[j] = y
    BY <1>5 DEF Precedes
  <2>2. /\ i + n \in 1 .. Len(s) /\ j + n \in 1 .. Len(s) /\ i + n < j + n
        /\ s[i + n] = x /\ s[j + n] = y
    BY <1>3, <2>1
  <2> QED
    BY <2>2 DEF Precedes
<1> QED
  BY <1>4, <1>5 DEF Within, r

LEMMA PrefixWithin ==
  ASSUME NEW S, NEW s \in Seq(S), NEW n \in 0 .. Len(s)
  PROVE  Within(SubSeq(s, 1, n), s)
<1> DEFINE r == SubSeq(s, 1, n)
<1>1. Len(r) = n /\ \A i \in 1 .. n : r[i] = s[i]
  OBVIOUS
<1>2. 1 .. n \subseteq 1 .. Len(s)
  OBVIOUS
<1> HIDE DEF r
<1>3. \A x : Contains(r, x) => Contains(s, x)
  BY <1>1, <1>2 DEF Contains
<1>4. \A x, y : Precedes(r, x, y) => Precedes(s, x, y)
  BY <1>1, <1>2 DEF Precedes
<1> QED
  BY <1>3, <1>4 DEF Within, r

LEMMA AppendWithin ==
  ASSUME NEW S, NEW s \in Seq(S), NEW t \in S
  PROVE  /\ \A x : Contains(Append(s, t), x) => Contains(s, x) \/ x = t
         /\ \A x, y : Precedes(Append(s, t), x, y) =>
                        Precedes(s, x, y) \/ (Contains(s, x) /\ y = t)
<1> DEFINE r == Append(s, t)
<1>1. /\ Len(r) = Len(s) + 1 /\ Len(s) \in Nat /\ r[Len(s) + 1] = t
      /\ \A i \in 1 .. Len(s) : r[i] = s[i]
  OBVIOUS
<1> HIDE DEF r
<1>2. \A x : Contains(r, x) => Contains(s, x) \/ x = t
  BY <1>1 DEF Contains
<1>3. ASSUME NEW x, NEW y, Precedes(r, x, y)
      PROVE  Precedes(s, x, y) \/ (Contains(s, x) /\ y = t)
  <2>1. PICK i, j \in 1 .. Len(r) : i < j /\ r[i] = x /\ r[j] = y
    BY <1>3 DEF Precedes
  <2>2. i \in 1 .. Len(s) /\ s[i] = x
    BY <1>1, <2>1
  <2>3. CASE j = Len(s) + 1
    BY <1>1, <2>1, <2>2, <2>3 DEF Contains
  <2>4. CASE j # Len(s) + 1
    <3>1. j \in 1 .. Len(s) /\ s[j] = y
      BY <1>1, <2>1, <2>4
    <3> QED
      BY <2>1, <2>2, <3>1 DEF Precedes
  <2> QED
    BY <2>3, <2>4
<1> QED
  BY <1>2, <1>3 DEF r

LEMMA ConcatWithin ==
  ASSUME NEW S, NEW s \in Seq(S), NEW t \in Seq(S)
  PROVE  /\ \A x : Contains(s \o t, x) => Contains(s, x) \/ Contains(t, x)
         /\ \A x, y : Precedes(s \o t, x, y) =>
                        \/ Precedes(s, x, y) \/ Precedes(t, x, y)
                        \/ Contains(s, x) /\ Contains(t, y)
<1> DEFINE r == s \o t
           m == Len(s)
           n == Len(t)
<1>1. /\ Len(r) = m + n /\ \A i \in 1 .. m : r[i] = s[i]
      /\ \A i \in 1 .. m + n : i > m => r[i] = t[i - m]
  BY ConcatIs
<1>2. m \in Nat /\ n \in Nat
  OBVIOUS
<1> DEFINE Low(i)  == i \in 1 .. m /\ r[i] = s[i]
           High(i) == i - m \in 1 .. n /\ r[i] = t[i - m]
<1>5. \A i \in 1 .. Len(r) : (i <= m /\ Low(i)) \/ (i > m /\ High(i))
  <2> HIDE DEF r, m, n
  <2> QED
    BY <1>1, <1>2
<1>3. ASSUME NEW x, Contains(r, x) PROVE Contains(s, x) \/ Contains(t, x)
  <2>1. PICK i \in 1 .. Len(r) : r[i] = x
    BY <1>3 DEF Contains
  <2> HIDE DEF r
  <2>2. Low(i) \/ High(i)
    BY <1>5
  <2> HIDE DEF m, n
  <2>3. Low(i) => Contains(s, x)
    BY <2>1 DEF Contains, m
  <2>4. High(i) => Contains(t, x)
    BY <2>1 DEF Contains, n
  <2> QED
    BY <2>2, <2>3, <2>4
<1>4. ASSUME NEW x, NEW y, Precedes(r, x, y)
      PROVE  \/ Precedes(s, x, y) \/ Precedes(t, x, y)
             \/ Contains(s, x) /\ Contains(t, y)
  <2>1. PICK i, j \in 1 .. Len(r) : i < j /\ r[i] = x /\ r[j] = y
    BY <1>4 DEF Precedes
  <2> HIDE DEF r
  <2>2. /\ (i <= m /\ Low(i)) \/ (i > m /\ High(i))
        /\ (j <= m /\ Low(j)) \/ (j > m /\ High(j))
    BY <1>5
  <2> HIDE DEF m, n
  <2>3. i \in Int /\ j \in Int /\ m \in Nat
    BY <1>2, <2>1
  <2>4. CASE Low(i) /\ Low(j)
    BY <2>1, <2>4 DEF Precedes, m
  <2>5. CASE High(i) /\ High(j)
    <3>1. i - m < j - m
      BY <2>1, <2>3
    <3>2. i - m \in 1 .. n /\ j - m \in 1 .. n /\ t[i - m] = x /\ t[j - m] = y
      BY <2>1, <2>5
    <3> QED
      BY <3>1, <3>2 DEF Precedes, n
  <2>6. CASE Low(i) /\ High(j)
    BY <2>1, <2>6 DEF Contains, m, n
  <2>7. (Low(i) /\ Low(j)) \/ (High(i) /\ High(j)) \/ (Low(i) /\ High(j))
    <3> HIDE DEF Low, High
    <3> QED
      BY <2>1, <2>2, <2>3
  <2> QED
    BY <2>4, <2>5, <2>6, <2>7
<1> QED
  BY <1>3, <1>4 DEF r

LEMMA ShortWithin ==
  /\ \A x : ~Contains(<<>>, x)
  /\ \A x, y : ~Precedes(<<>>, x, y)
  /\ \A t, x : Contains(<<t>>, x) <=> x = t
  /\ \A t, x, y : ~Precedes(<<t>>, x, y)
<1>1. \A x : ~Contains(<<>>, x)
  BY DEF Contains
<1>2. \A x, y : ~Precedes(<<>>, x, y)
  BY DEF Precedes
<1>3. \A t, x : Contains(<<t>>, x) <=> x = t
  BY DEF Contains
<1>4. \A t, x, y : ~Precedes(<<t>>, x, y)
  BY DEF Precedes
<1> QED
  BY <1>1, <1>2, <1>3, <1>4

(* A flattened sequence keeps its parts in their order.                    *)
FromParts(f, s, m) ==
  /\ \A x : Contains(f, x) => \E k \in 1 .. m : Contains(s[k], x)
  /\ \A x, y : Precedes(f, x, y) =>
       \/ \E k \in 1 .. m : Precedes(s[k], x, y)
       \/ \E k, l \in 1 .. m : k < l /\ Contains(s[k], x) /\ Contains(s[l], y)

LEMMA PartsGrow ==
  ASSUME NEW S, NEW s, NEW m \in Nat, NEW f \in Seq(S), s[m + 1] \in Seq(S),
         FromParts(f, s, m)
  PROVE  FromParts(f \o s[m + 1], s, m + 1)
<1> DEFINE t == s[m + 1]
<1>1. t \in Seq(S) /\ t = s[m + 1]
  OBVIOUS
<1> HIDE DEF t
<1>2. /\ \A x : Contains(f \o t, x) => Contains(f, x) \/ Contains(t, x)
      /\ \A x, y : Precedes(f \o t, x, y) =>
                     \/ Precedes(f, x, y) \/ Precedes(t, x, y)
                     \/ Contains(f, x) /\ Contains(t, y)
  BY <1>1, ConcatWithin
<1> DEFINE r == f \o t
<1> HIDE DEF r
<1>3. m + 1 \in 1 .. m + 1 /\ \A k \in 1 .. m : k \in 1 .. m + 1 /\ k < m + 1
  OBVIOUS
<1>4. ASSUME NEW x, Contains(r, x) PROVE \E k \in 1 .. m + 1 : Contains(s[k], x)
  BY <1>1, <1>2, <1>3, <1>4 DEF FromParts, r
<1>5. ASSUME NEW x, NEW y, Precedes(r, x, y)
      PROVE  \/ \E k \in 1 .. m + 1 : Precedes(s[k], x, y)
             \/ \E k, l \in 1 .. m + 1 : k < l /\ Contains(s[k], x) /\ Contains(s[l], y)
  <2>1. CASE Precedes(f, x, y)
    BY <1>3, <2>1 DEF FromParts
  <2>2. CASE Precedes(t, x, y)
    BY <1>1, <1>3, <2>2
  <2>3. CASE Contains(f, x) /\ Contains(t, y)
    BY <1>1, <1>3, <2>3 DEF FromParts
  <2> QED
    BY <1>2, <1>5, <2>1, <2>2, <2>3 DEF r
<1> QED
  BY <1>1, <1>4, <1>5 DEF FromParts, r

LEMMA FlattenWithin ==
  ASSUME NEW S, NEW n \in Nat \ {0}, NEW s \in [1 .. n -> Seq(S)]
  PROVE  FromParts(FlattenSeq(s), s, n)
<1> DEFINE F == CHOOSE f : f = [i \in 1 .. n |-> IF i = 1 THEN s[i]
                                                 ELSE f[i - 1] \o s[i]]
<1>1. Len(s) = n
  OBVIOUS
<1>2. FlattenSeq(s) = F[n]
  BY <1>1 DEF FlattenSeq
<1>3. Flattens(F, s, n)
  BY FlattenExists DEF Flattens
<1> HIDE DEF F
<1> DEFINE T == {m \in Nat : m \in 1 .. n => F[m] \in Seq(S) /\ FromParts(F[m], s, m)}
<1>4. 0 \in T
  OBVIOUS
<1>5. ASSUME NEW m \in Nat, m \in T PROVE m + 1 \in T
  <2> SUFFICES ASSUME m + 1 \in 1 .. n
               PROVE  F[m + 1] \in Seq(S) /\ FromParts(F[m + 1], s, m + 1)
    OBVIOUS
  <2>1. F[m + 1] = IF m + 1 = 1 THEN s[m + 1] ELSE F[(m + 1) - 1] \o s[m + 1]
    BY <1>3 DEF Flattens
  <2>2. s[m + 1] \in Seq(S)
    OBVIOUS
  <2>3. CASE m = 0
    <3>1. F[m + 1] = s[1] /\ m + 1 = 1
      BY <2>1, <2>3
    <3>2. FromParts(s[1], s, 1)
      BY DEF FromParts
    <3> QED
      BY <2>2, <3>1, <3>2
  <2>4. CASE m # 0
    <3>1. F[m] \in Seq(S) /\ FromParts(F[m], s, m) /\ (m + 1) - 1 = m
      BY <1>5, <2>4
    <3>2. m + 1 # 1
      BY <2>4
    <3>3. F[m + 1] = F[m] \o s[m + 1]
      <4>1. F[m + 1] = F[(m + 1) - 1] \o s[m + 1]
        BY <2>1, <3>2, Zenon
      <4> QED
        BY <3>1, <4>1, Zenon
    <3>4. F[m] \o s[m + 1] \in Seq(S)
      BY <2>2, <3>1
    <3>5. FromParts(F[m] \o s[m + 1], s, m + 1)
      BY <2>2, <3>1, PartsGrow
    <3> QED
      BY <3>3, <3>4, <3>5
  <2> QED
    BY <2>3, <2>4
<1> HIDE DEF T
<1>6. n \in T
  BY <1>4, <1>5, Induction
<1> QED
  BY <1>2, <1>6 DEF T

(***************************************************************************)
(* How the cases of a script follow each other: a write is followed by the *)
(* check of its echo, and only a write is; after the echo something is     *)
(* checked; an upload comes right after the echo, or after the one answer  *)
(* that announces it, and OK answers it; what is taken as data comes last  *)
(* but for the line that ends it.  All but cSMSSend keep to this.          *)
(***************************************************************************)
EchoChecks == {"echo", "sized"}

Uploads(c) == c.do = "upload" \/ (c.do = "parse" /\ c.text = "KSMTPUL")

End == Case("end", "")

Link(c, d) ==
  /\ Writes(c) <=> d.do \in EchoChecks
  /\ c.do \in EchoChecks =>
       d.do \in {"reply", "parse", "take", "blind", "upload", "skip"}
  /\ c.do = "skip" => d.do = "reply"
  /\ Uploads(d) => c.do \in EchoChecks \/ Uploads(c)
  /\ Uploads(c) => c.text # "OK" /\ (c.do = "parse" => d.do = "upload")
  /\ c.do = "upload" => d.do = "reply" /\ d.text = "OK"
  /\ c.do = "take" => d.do \in {"reply", "unread"} /\ d.text = "EOF"
  /\ c.do \in {"reply", "unread"} /\ c.text = "EOF" => d.do = "end"
  /\ c.do # "prompt"

Linked(s) ==
  \A k \in 1 .. Len(s) : Link(s[k], IF k = Len(s) THEN End ELSE s[k + 1])

(* A piece that is over, and one that may follow it.                       *)
Over(c) == c.do \in {"reply", "parse", "free"} /\ c.text # "EOF" /\ ~Uploads(c)

Chain(s) == s \in Seq(CaseType) /\ Len(s) >= 1 /\ Linked(s)

Piece(s) == Chain(s) /\ Over(s[Len(s)])

Follower(s) == Chain(s) /\ s[1].do \in {"send", "ifany", "parse"} /\ ~Uploads(s[1])

LEMMA LinkSeam ==
  ASSUME NEW c, NEW d, Over(c), d.do \in {"send", "ifany", "parse"}, ~Uploads(d)
  PROVE  Link(c, d)
BY DEF Link, Over, Writes, EchoChecks

LEMMA ChainJoin ==
  ASSUME NEW s, NEW t, Piece(s), Follower(t)
  PROVE  Chain(s \o t) /\ (Piece(t) => Piece(s \o t))
<1> DEFINE m == Len(s)
           n == Len(t)
           r == s \o t
<1>1. s \in Seq(CaseType) /\ t \in Seq(CaseType) /\ m \in Nat \ {0} /\ n \in Nat \ {0}
  BY DEF Piece, Follower, Chain
<1>2. /\ r \in Seq(CaseType) /\ Len(r) = m + n /\ \A i \in 1 .. m : r[i] = s[i]
      /\ \A i \in 1 .. m + n : i > m => r[i] = t[i - m]
  BY <1>1, ConcatIs
<1>3. /\ \A k \in 1 .. m : Link(s[k], IF k = m THEN End ELSE s[k + 1])
      /\ \A k \in 1 .. n : Link(t[k], IF k = n THEN End ELSE t[k + 1])
  BY DEF Piece, Follower, Chain, Linked
<1>4. Link(s[m], t[1])
  BY LinkSeam DEF Piece, Follower
<1> HIDE DEF m, n, r
<1>5. ASSUME NEW k \in 1 .. Len(r)
      PROVE  Link(r[k], IF k = Len(r) THEN End ELSE r[k + 1])
  <2>1. CASE k < m
    <3>1. /\ k \in 1 .. m /\ k + 1 \in 1 .. m /\ k # m /\ k # Len(r)
      BY <1>1, <1>2, <2>1
    <3>2. Link(s[k], s[k + 1]) /\ r[k] = s[k] /\ r[k + 1] = s[k + 1]
      BY <1>2, <1>3, <3>1
    <3> QED
      BY <3>1, <3>2
  <2>2. CASE k = m
    <3>1. /\ k \in 1 .. m /\ k + 1 \in 1 .. m + n /\ k + 1 > m /\ (k + 1) - m = 1
          /\ k # Len(r)
      BY <1>1, <1>2, <2>2
    <3>2. r[k] = s[m] /\ r[k + 1] = t[1]
      BY <1>2, <2>2, <3>1
    <3> QED
      BY <1>4, <3>1, <3>2
  <2>3. CASE k > m
    <3> DEFINE l == k - m
    <3>1. /\ l \in 1 .. n /\ k \in 1 .. m + n /\ (k = Len(r) <=> l = n)
          /\ (k # Len(r) => k + 1 \in 1 .. m + n /\ k + 1 > m /\ (k + 1) - m = l + 1)
      BY <1>1, <1>2, <2>3
    <3>2. r[k] = t[l] /\ (k # Len(r) => r[k + 1] = t[l + 1])
      BY <1>2, <2>3, <3>1
    <3> HIDE DEF l
    <3>3. Link(t[l], IF l = n THEN End ELSE t[l + 1])
      BY <1>3, <3>1
    <3> QED
      BY <3>1, <3>2, <3>3
  <2> QED
    BY <1>1, <1>2, <2>1, <2>2, <2>3
<1>6. Chain(r)
  <2>1. Linked(r)
    BY <1>5 DEF Linked
  <2>2. Len(r) >= 1
    BY <1>1, <1>2
  <2> QED
    BY <1>2, <2>1, <2>2 DEF Chain
<1>7. Piece(t) => Over(r[Len(r)])
  <2>1. m + n \in 1 .. m + n /\ m + n > m /\ (m + n) - m = n
    BY <1>1
  <2>2. r[Len(r)] = t[n]
    BY <1>2, <2>1
  <2> QED
    BY <2>2 DEF Piece, n
<1> QED
  BY <1>6, <1>7 DEF Piece, r

(* Short pieces.                                                           *)
LEMMA ChainOne ==
  ASSUME NEW a \in CaseType, Link(a, End)
  PROVE  Chain(<<a>>) /\ <<a>>[Len(<<a>>)] = a /\ <<a>>[1] = a
<1>1. <<a>> \in Seq(CaseType) /\ Len(<<a>>) = 1 /\ <<a>>[1] = a
  OBVIOUS
<1>2. Linked(<<a>>)
  BY <1>1 DEF Linked
<1> QED
  BY <1>1, <1>2 DEF Chain

LEMMA ChainThree ==
  ASSUME NEW a \in CaseType, NEW b \in CaseType, NEW c \in CaseType,
         Link(a, b), Link(b, c), Link(c, End)
  PROVE  Chain(<<a, b, c>>) /\ <<a, b, c>>[Len(<<a, b, c>>)] = c /\ <<a, b, c>>[1] = a
<1> DEFINE s == <<a, b, c>>
<1>1. /\ s \in Seq(CaseType) /\ Len(s) = 3 /\ s[1] = a /\ s[2] = b /\ s[3] = c
  OBVIOUS
<1> HIDE DEF s
<1>2. Linked(s)
  BY <1>1 DEF Linked
<1> QED
  BY <1>1, <1>2 DEF Chain, s

LEMMA ChainFour ==
  ASSUME NEW a \in CaseType, NEW b \in CaseType, NEW c \in CaseType, NEW d \in CaseType,
         Link(a, b), Link(b, c), Link(c, d), Link(d, End)
  PROVE  /\ Chain(<<a, b, c, d>>) /\ <<a, b, c, d>>[Len(<<a, b, c, d>>)] = d
         /\ <<a, b, c, d>>[1] = a
<1> DEFINE s == <<a, b, c, d>>
<1>1. /\ s \in Seq(CaseType) /\ Len(s) = 4
      /\ s[1] = a /\ s[2] = b /\ s[3] = c /\ s[4] = d
  OBVIOUS
<1> HIDE DEF s
<1>2. Linked(s)
  BY <1>1 DEF Linked
<1> QED
  BY <1>1, <1>2 DEF Chain, s

LEMMA ChainFive ==
  ASSUME NEW a \in CaseType, NEW b \in CaseType, NEW c \in CaseType, NEW d \in CaseType,
         NEW e \in CaseType,
         Link(a, b), Link(b, c), Link(c, d), Link(d, e), Link(e, End)
  PROVE  /\ Chain(<<a, b, c, d, e>>) /\ <<a, b, c, d, e>>[Len(<<a, b, c, d, e>>)] = e
         /\ <<a, b, c, d, e>>[1] = a
<1> DEFINE s == <<a, b, c, d, e>>
<1>1. /\ s \in Seq(CaseType) /\ Len(s) = 5
      /\ s[1] = a /\ s[2] = b /\ s[3] = c /\ s[4] = d /\ s[5] = e
  OBVIOUS
<1> HIDE DEF s
<1>2. Linked(s)
  BY <1>1 DEF Linked
<1> QED
  BY <1>1, <1>2 DEF Chain, s

(* Which cases may follow which.                                           *)
LEMMA LinksFrom ==
  \A t :
    /\ Link(Free, End) /\ Link(Free, Send(t))
    /\ Link(Send(t), Echo) /\ Link(Send(t), EchoSized) /\ Link(IfAny(t), Echo)
    /\ \A e \in {Echo, EchoSized} :
         Link(e, Reply(t)) /\ Link(e, Parse(t)) /\ Link(e, Upload(t)) /\ Link(e, Blind(t))
         /\ Link(e, Take(t)) /\ Link(e, Skip)
<1> TAKE t
<1> USE DEF Link, Writes, EchoChecks, Uploads
<1>1. Link(Free, End) /\ Link(Free, Send(t))
  BY DEF Free, Send, Case, End
<1>2. Link(Send(t), Echo) /\ Link(Send(t), EchoSized) /\ Link(IfAny(t), Echo)
  BY DEF Send, Echo, EchoSized, IfAny, Case
<1>3. ASSUME NEW e \in {Echo, EchoSized}
      PROVE  /\ Link(e, Reply(t)) /\ Link(e, Parse(t)) /\ Link(e, Upload(t))
             /\ Link(e, Blind(t)) /\ Link(e, Take(t)) /\ Link(e, Skip)
  <2>1. e.do \in EchoChecks
    BY CaseDos
  <2> QED
    BY <2>1 DEF Reply, Parse, Upload, Blind, Take, Skip, Case
<1> QED
  BY <1>1, <1>2, <1>3

LEMMA LinksOn ==
  /\ \A t : /\ t # "EOF" => Link(Reply(t), Reply("OK"))
            /\ Link(Reply(t), End) /\ Link(Again(t), End) /\ Link(Unread(t), End)
            /\ t # "KSMTPUL" => Link(Parse(t), Reply("OK")) /\ Link(Parse(t), End)
            /\ t # "OK" => Link(Upload(t), Reply("OK"))
            /\ Link(Blind(t), Reply("OK")) /\ Link(Blind(t), Again("EOF"))
            /\ Link(Take(t), Reply("EOF")) /\ Link(Take(t), Unread("EOF"))
  /\ Link(Parse("KSMTPUL"), Upload("CONNECT")) /\ Link(Skip, Reply("OK"))
<1> USE DEF Link, Case, Writes, EchoChecks, Uploads, End
<1>1. ASSUME NEW t, t # "EOF"
      PROVE  Link(Reply(t), Reply("OK"))
  BY <1>1 DEF Reply
<1>2. \A t : Link(Reply(t), End) /\ Link(Again(t), End) /\ Link(Unread(t), End)
  BY DEF Reply, Again, Unread
<1>3. ASSUME NEW t, t # "KSMTPUL"
      PROVE  Link(Parse(t), Reply("OK")) /\ Link(Parse(t), End)
  BY <1>3 DEF Reply, Parse
<1>4. \A t : t # "OK" => Link(Upload(t), Reply("OK"))
  BY DEF Upload, Reply
<1>5. \A t : Link(Blind(t), Reply("OK")) /\ Link(Blind(t), Again("EOF"))
  BY DEF Blind, Reply, Again
<1>6. \A t : Link(Take(t), Reply("EOF")) /\ Link(Take(t), Unread("EOF"))
  BY DEF Take, Reply, Unread
<1>7. Link(Parse("KSMTPUL"), Upload("CONNECT")) /\ Link(Skip, Reply("OK"))
  BY DEF Parse, Upload, Skip, Reply
<1> QED
  BY <1>1, <1>2, <1>3, <1>4, <1>5, <1>6, <1>7

LEMMA OverOnes ==
  /\ Over(Free)
  /\ \A t : /\ t # "EOF" => Over(Reply(t))
            /\ t # "EOF" /\ t # "KSMTPUL" => Over(Parse(t))
BY DEF Over, Uploads, Free, Reply, Parse, Case

LEMMA StartOnes ==
  \A t : /\ Send(t).do = "send" /\ IfAny(t).do = "ifany" /\ Parse(t).do = "parse"
         /\ ~Uploads(Send(t)) /\ ~Uploads(IfAny(t))
         /\ t # "KSMTPUL" => ~Uploads(Parse(t))
BY DEF Uploads, Send, IfAny, Parse, Case

LEMMA FreePiece == Piece(<<Free>>)
<1>1. Free \in CaseType /\ Link(Free, End) /\ Over(Free)
  BY CaseMakers, LinksFrom, OverOnes
<1> QED
  BY <1>1, ChainOne DEF Piece

LEMMA AskPiece ==
  \A c \in Texts : Piece(Ask(c)) /\ Follower(Ask(c)) /\ Piece(<<Free>> \o Ask(c))
<1> TAKE c \in Texts
<1>1. "OK" \in Texts /\ "OK" # "EOF"
  BY DEF Texts
<1> DEFINE a == Send(c)
           b == Echo
           d == Reply("OK")
<1>2. /\ {a, b, d} \subseteq CaseType /\ Link(a, b) /\ Link(b, d) /\ Link(d, End)
      /\ Over(d) /\ a.do = "send" /\ ~Uploads(a)
  BY <1>1, CaseMakers, LinksFrom, LinksOn, OverOnes, StartOnes
<1>3. Ask(c) = <<a, b, d>>
  BY DEF Ask
<1> HIDE DEF a, b, d
<1>4. Chain(<<a, b, d>>) /\ <<a, b, d>>[Len(<<a, b, d>>)] = d /\ <<a, b, d>>[1] = a
  BY <1>2, ChainThree
<1>5. Piece(Ask(c)) /\ Follower(Ask(c))
  BY <1>2, <1>3, <1>4 DEF Piece, Follower
<1> QED
  BY <1>5, FreePiece, ChainJoin

LEMMA FiveChain ==
  ASSUME NEW c \in Texts, NEW e \in {Echo, EchoSized}, NEW x \in CaseType, NEW y \in CaseType,
         Link(e, x), Link(x, y), Link(y, End)
  PROVE  /\ Chain(<<Free, Send(c), e, x, y>>)
         /\ Over(y) => Piece(<<Free, Send(c), e, x, y>>)
<1> DEFINE a == Free
           b == Send(c)
<1>1. {a, b, e} \subseteq CaseType /\ Link(a, b) /\ Link(b, e)
  BY CaseMakers, LinksFrom
<1> HIDE DEF a, b
<1>2. Chain(<<a, b, e, x, y>>) /\ <<a, b, e, x, y>>[Len(<<a, b, e, x, y>>)] = y
  BY <1>1, ChainFive
<1> QED
  BY <1>2 DEF Piece, a, b

LEMMA FourChain ==
  ASSUME NEW c \in Texts, NEW w \in {Send(c), IfAny(c)}, NEW x \in CaseType,
         NEW y \in CaseType, Link(Echo, x), Link(x, y), Link(y, End)
  PROVE  /\ Follower(<<w, Echo, x, y>>)
         /\ Over(y) => Piece(<<w, Echo, x, y>>)
<1> DEFINE e == Echo
<1>1. /\ {w, e} \subseteq CaseType /\ Link(w, e)
      /\ w.do \in {"send", "ifany"} /\ ~Uploads(w)
  BY CaseMakers, LinksFrom, StartOnes
<1> HIDE DEF e
<1>2. /\ Chain(<<w, e, x, y>>) /\ <<w, e, x, y>>[Len(<<w, e, x, y>>)] = y
      /\ <<w, e, x, y>>[1] = w
  BY <1>1, ChainFour DEF e
<1> QED
  BY <1>1, <1>2 DEF Piece, Follower, e

(* One command after another, the first of them when the ring is free.     *)
LEMMA PlainChains ==
  /\ {cGSMHibernate, cAPNConfig, cCALLHangUp, cCALLVoiceStart, cFSDelete, cSMTPEmailTo,
      cSMTPParamsClear, cFTPDelete, FTPStore, SMTPAttach, SMTPSubject}
       \subseteq {s \in Scripts : Piece(s)}
  /\ \A s \in {cGSMSignal, cFTPConfig, cFSSize, TcpStatus, SMSMemory} : Piece(s)
<1>1. {"PSCPOF", "KCNXCFG", "ATH", "ATD", "KFSFILE", "KSMTPTO", "KSMTPCLEAR", "KFTPDEL",
       "KFTPCLOSE", "KFTPSND", "&K3", "KCNXTIMER", "CGATT", "KSMTPSUBJECT", "CSQ", "KFTPCFG",
       "KTCPSTAT", "CPMS", "OK"} \subseteq Texts
  BY DEF Texts
<1>2. \A c \in Texts : <<Free>> \o Ask(c) \in Scripts /\ Piece(<<Free>> \o Ask(c))
  BY AskPiece, AskType
<1>3. \A s, c : Piece(s) /\ s \in Scripts /\ c \in Texts =>
                  s \o Ask(c) \in Scripts /\ Piece(s \o Ask(c))
  BY AskPiece, AskType, ChainJoin, ScriptGoesOn
<1>4. {cGSMHibernate, cAPNConfig, cCALLHangUp, cCALLVoiceStart, cFSDelete, cSMTPEmailTo,
       cSMTPParamsClear, FTPStore, SMTPSubject} \subseteq {s \in Scripts : Piece(s)}
  BY <1>1, <1>2 DEF cGSMHibernate, cAPNConfig, cCALLHangUp, cCALLVoiceStart, cFSDelete,
     cSMTPEmailTo, cSMTPParamsClear, FTPStore, SMTPSubject
<1>5. cFTPDelete \in {s \in Scripts : Piece(s)}
  BY <1>1, <1>2, <1>3 DEF cFTPDelete
<1>6. SMTPAttach \in {s \in Scripts : Piece(s)}
  <2> DEFINE a == <<Free>> \o Ask("&K3")
             b == a \o Ask("KCNXTIMER")
  <2>1. Piece(a) /\ a \in Scripts
    BY <1>1, <1>2
  <2> HIDE DEF a
  <2>2. Piece(b) /\ b \in Scripts
    BY <1>1, <1>3, <2>1
  <2>3. SMTPAttach = b \o Ask("CGATT")
    BY DEF SMTPAttach, b, a
  <2> HIDE DEF b
  <2> QED
    BY <1>1, <1>3, <2>2, <2>3
<1>7. ASSUME NEW c \in Texts, NEW x, x \in {Parse(c), Reply(c)}, c # "KSMTPUL", c # "EOF"
      PROVE  Piece(<<Free, Send(c), Echo, x, Reply("OK")>>)
  <2> DEFINE y == Reply("OK")
  <2>1. x \in CaseType /\ y \in CaseType
    BY <1>1, <1>7, CaseMakers
  <2>2. Link(Echo, x) /\ Link(x, y) /\ Link(y, End) /\ Over(y)
    BY <1>7, LinksFrom, LinksOn, OverOnes
  <2> HIDE DEF y
  <2>3. Piece(<<Free, Send(c), Echo, x, y>>)
    BY <2>1, <2>2, FiveChain
  <2> QED
    BY <2>3 DEF y
<1>8. Piece(cGSMSignal) /\ Piece(cFTPConfig) /\ Piece(cFSSize) /\ Piece(TcpStatus)
      /\ Piece(SMSMemory)
  BY <1>1, <1>7 DEF cGSMSignal, cFTPConfig, cFSSize, TcpStatus, SMSMemory
<1> QED
  BY <1>4, <1>5, <1>6, <1>8

LEMMA TcpChains ==
  \A s \in {cTCPClientOpen, cTCPClientClose, cTCPRead, cTCPWrite, cTCPStatus,
            cTCPRxFlush} : Chain(s)
<1>1. {"KTCPCFG", "OK", "KTCPCNX", "KTCPCLOSE", "KTCPDEL", "KTCPSTAT", "KTCPRCV",
       "KTCPSND", "CONNECT", "EOF"} \subseteq Texts
  BY DEF Texts
<1>2. Chain(cTCPClientOpen)
  <2> DEFINE a == Wins(Parse("KTCPCFG"), "open")
             b == Reply("OK")
             c == Send("KTCPCNX")
             d == Loses(Echo, "invalid")
             e == Loses(Reply("OK"), "invalid")
  <2>1. {a, b, c, d, e} \subseteq CaseType
    BY <1>1, CaseMakers, CaseChangers
  <2>2. /\ Link(Echo, a) /\ Link(a, b) /\ Link(b, End) /\ Over(b)
    BY DEF Link, Over, Writes, EchoChecks, Uploads, End, Echo, Wins, Parse, Reply, Case
  <2>3. Link(c, d) /\ Link(d, e) /\ Link(e, End) /\ c.do = "send" /\ ~Uploads(c)
    BY DEF Link, Writes, EchoChecks, Uploads, End, Echo, Loses, Reply, Send, Case
  <2> HIDE DEF a, b, c, d, e
  <2>4. Piece(<<Free, Send("KTCPCFG"), Echo, a, b>>)
    BY <1>1, <2>1, <2>2, FiveChain
  <2>5. Chain(<<c, d, e>>) /\ <<c, d, e>>[1] = c
    BY <2>1, <2>3, ChainThree
  <2>6. Chain(<<Free, Send("KTCPCFG"), Echo, a, b>> \o <<c, d, e>>)
    BY <2>3, <2>4, <2>5, ChainJoin DEF Follower
  <2>7. <<Free, Send("KTCPCFG"), Echo, a, b, c, d, e>>
          = <<Free, Send("KTCPCFG"), Echo, a, b>> \o <<c, d, e>>
    OBVIOUS
  <2> QED
    BY <2>6, <2>7 DEF cTCPClientOpen, a, b, c, d, e
<1>3. Chain(cTCPClientClose)
  <2> DEFINE a == Send("KTCPDEL")
             b == Echo
             c == Wins(Reply("OK"), "invalid")
             s == <<Free>> \o Ask("KTCPCLOSE")
  <2>1. {a, b, c} \subseteq CaseType
    BY <1>1, CaseMakers, CaseChangers
  <2>2. Link(a, b) /\ Link(b, c) /\ Link(c, End) /\ a.do = "send" /\ ~Uploads(a)
    BY DEF Link, Writes, EchoChecks, Uploads, End, Echo, Wins, Reply, Send, Case
  <2>3. Piece(s)
    BY <1>1, AskPiece
  <2>4. cTCPClientClose = s \o <<a, b, c>>
    BY DEF cTCPClientClose
  <2> HIDE DEF a, b, c, s
  <2>5. Follower(<<a, b, c>>)
    BY <2>1, <2>2, ChainThree DEF Follower
  <2> QED
    BY <2>3, <2>4, <2>5, ChainJoin
<1>4. Chain(cTCPRead) /\ Chain(cTCPRxFlush)
  <2> DEFINE a == Take("CONNECT")
             b == Reply("EOF")
             c == Blind("CONNECT")
             d == Again("EOF")
             w == IfAny("KTCPRCV")
  <2>1. {a, b, c, d} \subseteq CaseType
    BY <1>1, CaseMakers
  <2>2. /\ Link(Echo, a) /\ Link(a, b) /\ Link(b, End)
        /\ Link(Echo, c) /\ Link(c, d) /\ Link(d, End)
    BY LinksFrom, LinksOn
  <2>3. /\ cTCPRead = TcpStatus \o <<w, Echo, a, b>>
        /\ cTCPRxFlush = TcpStatus \o <<w, Echo, c, d>>
    BY DEF cTCPRead, cTCPRxFlush, DropBlock
  <2> HIDE DEF a, b, c, d
  <2>4. Follower(<<w, Echo, a, b>>) /\ Follower(<<w, Echo, c, d>>)
    BY <1>1, <2>1, <2>2, FourChain
  <2> HIDE DEF w
  <2> QED
    BY <2>3, <2>4, PlainChains, ChainJoin
<1>5. Chain(cTCPWrite)
  <2>1. Upload("CONNECT") \in CaseType /\ Reply("OK") \in CaseType
    BY <1>1, CaseMakers
  <2>2. /\ Link(Echo, Upload("CONNECT")) /\ Link(Upload("CONNECT"), Reply("OK"))
        /\ Link(Reply("OK"), End)
    BY LinksFrom, LinksOn
  <2> QED
    BY <1>1, <2>1, <2>2, FiveChain DEF cTCPWrite
<1> QED
  BY <1>2, <1>3, <1>4, <1>5, PlainChains DEF cTCPStatus, Piece

LEMMA UploadChains ==
  \A s \in {HTTPUpload, cFSWrite, cFSRead, cFSAppend} : Piece(s)
<1>1. {"KTCPSND", "CONNECT", "OK", "KFSFILE"} \subseteq Texts
  BY DEF Texts
<1> DEFINE u == Upload("CONNECT")
           b == Blind("CONNECT")
           r == Reply("OK")
<1>2. {u, b, r} \subseteq CaseType
  BY <1>1, CaseMakers
<1>3. /\ \A e \in {Echo, EchoSized} : Link(e, u) /\ Link(e, b)
      /\ Link(u, r) /\ Link(b, r) /\ Link(r, End) /\ Over(r)
  BY LinksFrom, LinksOn, OverOnes
<1> HIDE DEF u, b, r
<1>4. \A c \in Texts, e \in {Echo, EchoSized} :
        Piece(<<Free, Send(c), e, u, r>>) /\ Piece(<<Free, Send(c), e, b, r>>)
  BY <1>2, <1>3, FiveChain
<1>5. /\ HTTPUpload = <<Free, Send("KTCPSND"), Echo, u, r>>
      /\ cFSWrite = <<Free, Send("KFSFILE"), EchoSized, u, r>>
      /\ cFSRead = <<Free, Send("KFSFILE"), EchoSized, b, r>>
      /\ cFSAppend = <<Free, Send("KFSFILE"), EchoSized, u, r>>
  BY DEF HTTPUpload, cFSWrite, cFSRead, cFSAppend, u, b, r
<1> QED
  BY <1>1, <1>4, <1>5

LEMMA FtpChains == \A s \in {cFTPConfig, cFTPReceive, cFTPSend, cFTPDelete} : Chain(s)
<1>1. {"KFTPRCV", "CONNECT", "EOF", "KFTP_SND_DONE", "KFTPCLOSE"} \subseteq Texts
  BY DEF Texts
<1>2. Chain(cFTPReceive)
  <2>1. Take("CONNECT") \in CaseType /\ Unread("EOF") \in CaseType
    BY <1>1, CaseMakers
  <2>2. /\ Link(Echo, Take("CONNECT")) /\ Link(Take("CONNECT"), Unread("EOF"))
        /\ Link(Unread("EOF"), End)
    BY LinksFrom, LinksOn
  <2> QED
    BY <1>1, <2>1, <2>2, FiveChain DEF cFTPReceive
<1>3. Chain(cFTPSend)
  <2> DEFINE p == Parse("KFTP_SND_DONE")
             k == FTPStore \o <<p>>
  <2>1. p \in CaseType /\ Link(p, End) /\ Over(p) /\ p.do = "parse" /\ ~Uploads(p)
    BY <1>1, CaseMakers, LinksOn, OverOnes, StartOnes
  <2>4. cFTPSend = k \o Ask("KFTPCLOSE")
    BY DEF cFTPSend
  <2> HIDE DEF p
  <2>2. Follower(<<p>>) /\ Piece(<<p>>)
    BY <2>1, ChainOne DEF Follower, Piece
  <2>3. Piece(k)
    BY <2>2, PlainChains, ChainJoin
  <2> HIDE DEF k
  <2> QED
    BY <1>1, <2>3, <2>4, AskPiece, ChainJoin
<1> QED
  BY <1>2, <1>3, PlainChains DEF Piece

LEMMA SmsChains == \A s \in {cSMSRead, cSMSDelete} : Chain(s)
<1>1. {"CSCS", "CMGR", "OK", "CMGD"} \subseteq Texts
  BY DEF Texts
<1> DEFINE p == Parse("CMGR")
           r == Reply("OK")
           a == SMSMemory \o Ask("CSCS")
           b == a \o SMSFetch
<1>2. {p, r} \subseteq CaseType /\ Link(Echo, p) /\ Link(p, r) /\ Link(r, End) /\ Over(r)
  BY <1>1, CaseMakers, LinksFrom, LinksOn, OverOnes
<1>3. /\ SMSFetch = <<Send("CMGR"), Echo, p, r>>
      /\ cSMSRead = b \o Ask("CSCS") /\ cSMSDelete = SMSMemory \o Ask("CMGD")
  BY DEF SMSFetch, cSMSRead, cSMSDelete
<1> HIDE DEF p, r
<1>4. Follower(SMSFetch) /\ Piece(SMSFetch)
  BY <1>1, <1>2, <1>3, FourChain
<1>5. Piece(a)
  BY <1>1, PlainChains, AskPiece, ChainJoin
<1> HIDE DEF a
<1>6. Piece(b)
  BY <1>4, <1>5, ChainJoin
<1> HIDE DEF b
<1> QED
  BY <1>1, <1>3, <1>6, PlainChains, AskPiece, ChainJoin

LEMMA SmtpChains ==
  \A s \in {cSMTPParamsSet, cSMTPEmailTo, cSMTPEmailSend, cSMTPParamsClear} : Chain(s)
<1>1. {"KSMTPPARAM", "KSMTPPWD", "KSMTPUL", "CONNECT", "OK"} \subseteq Texts
  BY DEF Texts
<1> DEFINE k == Skip
           r == Reply("OK")
           e == Echo
<1>2. {k, r, e} \subseteq CaseType /\ Link(e, k) /\ Link(k, r) /\ Link(r, End) /\ Over(r)
  BY <1>1, CaseMakers, LinksFrom, LinksOn, OverOnes
<1>3. Chain(cSMTPParamsSet)
  <2> DEFINE a == Send("KSMTPPARAM")
             b == Send("KSMTPPWD")
             l == SMTPAttach \o <<a, e, k, r>>
  <2>0. cSMTPParamsSet = SMTPAttach \o <<a, e, k, r, b, e, k, r>>
    BY DEF cSMTPParamsSet
  <2>1. Follower(<<a, e, k, r>>) /\ Piece(<<a, e, k, r>>)
        /\ Follower(<<b, e, k, r>>)
    <3> HIDE DEF k, r
    <3> QED
      BY <1>1, <1>2, FourChain
  <2>2. a \in CaseType /\ b \in CaseType
    BY <1>1, CaseMakers
  <2> HIDE DEF a, b
  <2> HIDE DEF e, k, r
  <2>3. <<a, e, k, r>> \in Seq(CaseType) /\ <<b, e, k, r>> \in Seq(CaseType)
    BY <1>2, <2>2
  <2>4. <<a, e, k, r, b, e, k, r>> = <<a, e, k, r>> \o <<b, e, k, r>>
    OBVIOUS
  <2>5. Piece(l)
    BY <2>1, PlainChains, ChainJoin
  <2>6. SMTPAttach \in Seq(CaseType)
    BY PlainChains DEF Scripts
  <2>7. cSMTPParamsSet = l \o <<b, e, k, r>>
    <3> DEFINE x == <<a, e, k, r>>
               y == <<b, e, k, r>>
    <3>1. x \in Seq(CaseType) /\ y \in Seq(CaseType)
          /\ cSMTPParamsSet = SMTPAttach \o (x \o y) /\ l = SMTPAttach \o x
      BY <2>0, <2>3, <2>4
    <3> HIDE DEF x, y, l
    <3>2. (SMTPAttach \o x) \o y = SMTPAttach \o (x \o y)
      BY <2>6, <3>1, ConcatAssoc
    <3>3. cSMTPParamsSet = l \o y
      BY <3>1, <3>2
    <3> QED
      BY <3>3 DEF y
  <2> HIDE DEF l
  <2> QED
    BY <2>1, <2>5, <2>7, ChainJoin
<1>4. Chain(cSMTPEmailSend)
  <2> DEFINE w == Send("KSMTPUL")
             p == Parse("KSMTPUL")
             u == Upload("CONNECT")
  <2>1. {w, p, u} \subseteq CaseType /\ Link(w, e) /\ Link(e, p) /\ Link(p, u) /\ Link(u, r)
        /\ w.do = "send" /\ ~Uploads(w)
    BY <1>1, CaseMakers, LinksFrom, LinksOn, StartOnes
  <2>2. cSMTPEmailSend = SMTPSubject \o <<w, e, p, u, r>>
    BY DEF cSMTPEmailSend
  <2> HIDE DEF e, r, w, p, u
  <2>3. Follower(<<w, e, p, u, r>>)
    BY <1>2, <2>1, ChainFive DEF Follower
  <2> QED
    BY <2>2, <2>3, PlainChains, ChainJoin
<1> QED
  BY <1>3, <1>4, PlainChains DEF Piece

LEMMA HttpChain == Chain(cHTTPRequest)
<1>1. {"KTCPSTAT", "OK"} \subseteq Texts
  BY DEF Texts
<1> DEFINE x == Reply("KTCPSTAT")
           r == Reply("OK")
<1>2. {x, r} \subseteq CaseType /\ Link(Echo, x) /\ Link(x, r) /\ Link(r, End)
  BY <1>1, CaseMakers, LinksFrom, LinksOn
<1>3. cHTTPRequest = HTTPUpload \o <<Send("KTCPSTAT"), Echo, x, r>>
  BY DEF cHTTPRequest
<1> HIDE DEF x, r
<1>4. Follower(<<Send("KTCPSTAT"), Echo, x, r>>)
  BY <1>1, <1>2, FourChain
<1> QED
  BY <1>3, <1>4, UploadChains, ChainJoin

LEMMA Chains == \A f \in Callbacks \ {"cSMSSend"} : Chain(Script[f])
<1> TAKE f \in Callbacks \ {"cSMSSend"}
<1>1. \A s \in {cGSMHibernate, cGSMSignal, cAPNConfig, cHTTPRequest, cCALLHangUp,
                cCALLVoiceStart} : Chain(s)
  BY PlainChains, HttpChain DEF Piece
<1>2. \A s \in {cFSWrite, cFSRead, cFSDelete, cFSSize, cFSAppend} : Chain(s)
  BY PlainChains, UploadChains DEF Piece
<1> QED
  BY <1>1, <1>2, TcpChains, FtpChains, SmsChains, SmtpChains DEF Callbacks, Script

(* The case after the k-th one.                                            *)
After(s, k) == IF k = Len(s) THEN End ELSE s[k + 1]

LEMMA LinksAt ==
  ASSUME NEW s, Chain(s), NEW k \in 1 .. Len(s)
  PROVE  /\ Link(s[k], After(s, k)) /\ s[k] \in CaseType /\ s[k].do \in Dos
         /\ After(s, k).do # "end" => k + 1 \in 1 .. Len(s) /\ After(s, k) = s[k + 1]
<1>1. s \in Seq(CaseType) /\ Len(s) \in Nat /\ Link(s[k], After(s, k))
  BY DEF Chain, Linked, After
<1>2. End.do = "end"
  BY DEF End, Case
<1>3. s[k] \in CaseType
  BY <1>1
<1> QED
  BY <1>1, <1>2, <1>3 DEF After, CaseType

LEMMA DosAreNotEnd == "end" \notin Dos /\ End.do = "end" /\ ~Uploads(End) /\ End.text = ""
BY DEF Dos, End, Case, Uploads

(* The echo is checked right after the write.                              *)
LEMMA EchoAfterWrite ==
  ASSUME NEW s, Chain(s), NEW k \in 1 .. Len(s), k > 1, s[k].do \in EchoChecks
  PROVE  k - 1 \in 1 .. Len(s) /\ Writes(s[k - 1])
<1>1. k - 1 \in 1 .. Len(s) /\ k - 1 # Len(s) /\ (k - 1) + 1 = k
  BY DEF Chain
<1>2. After(s, k - 1) = s[k]
  BY <1>1 DEF After
<1>3. Link(s[k - 1], After(s, k - 1))
  BY <1>1, LinksAt
<1> QED
  BY <1>1, <1>2, <1>3 DEF Link

(* Data is taken by the last case but one.                                 *)
LEMMA TakeIsLate ==
  ASSUME NEW s, Chain(s), NEW k \in 1 .. Len(s), s[k].do = "take"
  PROVE  k + 1 = Len(s) /\ s[k + 1].do \in {"reply", "unread"} /\ s[k + 1].text = "EOF"
<1>1. Link(s[k], After(s, k))
  BY LinksAt
<1>2. After(s, k).do \in {"reply", "unread"} /\ After(s, k).text = "EOF"
  BY <1>1 DEF Link
<1>3. k + 1 \in 1 .. Len(s) /\ After(s, k) = s[k + 1]
  BY <1>2, LinksAt
<1>4. Link(s[k + 1], After(s, k + 1))
  BY <1>3, LinksAt
<1>5. After(s, k + 1).do = "end"
  BY <1>2, <1>3, <1>4 DEF Link
<1>6. k + 1 = Len(s)
  <2>1. ASSUME k + 1 # Len(s) PROVE FALSE
    <3>1. k + 2 \in 1 .. Len(s) /\ (k + 1) + 1 = k + 2 /\ After(s, k + 1) = s[k + 2]
      BY <1>3, <2>1 DEF After, Chain
    <3>2. s[k + 2].do \in Dos
      BY <3>1, LinksAt
    <3> QED
      BY <1>5, <3>1, <3>2, DosAreNotEnd
  <2> QED
    BY <2>1
<1> QED
  BY <1>2, <1>3, <1>6

(***************************************************************************)
(* What the modem sends for the cases of a stretch: an echo only for the   *)
(* first of them, and no OK before the data it was asked for.              *)
(***************************************************************************)
LEMMA AnswersAre ==
  ASSUME NEW c
  PROVE  /\ \A x : Contains(Answers(c), x) =>
              /\ x.kind \in {"echo", "answer", "data"}
              /\ x.kind = "echo" => c.do \in EchoChecks
              /\ x.kind = "answer" => c.do \notin EchoChecks /\ x.text = c.text
         /\ \A x, y : Precedes(Answers(c), x, y) => y.kind = "data"
<1> DEFINE e == [kind |-> "echo", text |-> c.text]
           a == [kind |-> "answer", text |-> c.text]
           d == [kind |-> "data", text |-> c.text]
<1>1. /\ e.kind = "echo" /\ a.kind = "answer" /\ a.text = c.text /\ d.kind = "data"
  OBVIOUS
<1>2. \/ Answers(c) = <<e>> /\ c.do \in EchoChecks
      \/ Answers(c) = <<a, d>> /\ c.do \notin EchoChecks
      \/ Answers(c) = <<a>> /\ c.do \notin EchoChecks
      \/ Answers(c) = <<>>
  BY DEF Answers, EchoChecks
<1> HIDE DEF e, a, d
<1>3. CASE Answers(c) = <<a, d>> /\ c.do \notin EchoChecks
  <2>1. /\ \A x : Contains(<<a, d>>, x) => x = a \/ x = d
        /\ \A x, y : Precedes(<<a, d>>, x, y) => y = d
    BY DEF Contains, Precedes
  <2> QED
    BY <1>1, <1>3, <2>1
<1>4. CASE Answers(c) = <<e>> /\ c.do \in EchoChecks
  BY <1>1, <1>4, ShortWithin
<1>5. CASE Answers(c) = <<a>> /\ c.do \notin EchoChecks
  BY <1>1, <1>5, ShortWithin
<1>6. CASE Answers(c) = <<>>
  BY <1>6, ShortWithin
<1> QED
  BY <1>2, <1>3, <1>4, <1>5, <1>6

LEMMA StretchIs ==
  ASSUME NEW s, Chain(s), NEW n \in 1 .. Len(s), ~Writes(s[n])
  PROVE  /\ \A x : Contains(AnswersFrom(s, n), x) =>
              /\ x.kind \in {"echo", "answer", "data"}
              /\ x.kind = "echo" => s[n].do \in EchoChecks
              /\ x.kind = "answer" /\ s[n].do \in EchoChecks /\ Uploads(After(s, n)) =>
                   x.text # "OK"
         /\ \A x, y : Precedes(AnswersFrom(s, n), x, y) => y.kind # "echo"
<1> DEFINE last == {k \in n .. Len(s) : s[k].do = "upload" \/ k = Len(s)
                                         \/ Writes(s[k + 1])}
           end  == CHOOSE k \in last : \A l \in last : k <= l
           m    == end - n + 1
           each == [k \in 1 .. m |-> Answers(s[n + k - 1])]
<1>1. s \in Seq(CaseType) /\ Len(s) \in Nat /\ Len(s) \in last /\ last \in SUBSET Nat
  BY DEF Chain
<1>2. AnswersFrom(s, n) = FlattenSeq(each)
  <2>1. last # {}
    BY <1>1
  <2> QED
    BY <2>1 DEF AnswersFrom
<1>3. end \in last /\ \A l \in last : end <= l
  <2> HIDE DEF last
  <2> QED
    BY <1>1, LeastExists
<1>4. end \in n .. Len(s)
  BY <1>3
<1>5. \A k \in n .. Len(s) : k < end => s[k].do # "upload" /\ k # Len(s) /\ ~Writes(s[k + 1])
  <2>1. \A k \in n .. Len(s) : k \notin last =>
           s[k].do # "upload" /\ k # Len(s) /\ ~Writes(s[k + 1])
    OBVIOUS
  <2>2. \A k \in n .. Len(s) : k < end => k \notin last
    <3> HIDE DEF last, end
    <3> QED
      BY <1>3, <1>4
  <2> QED
    BY <2>1, <2>2
<1> HIDE DEF last, end
<1>6. m \in Nat \ {0} /\ \A k \in 1 .. m : n + k - 1 \in n .. end
  BY <1>4
<1>7. each \in [1 .. m -> Seq(AnswerLines)]
  <2>1. \A k \in 1 .. m : n + k - 1 \in 1 .. Len(s)
    BY <1>1, <1>4, <1>6
  <2>2. \A k \in 1 .. m : Answers(s[n + k - 1]) \in Seq(AnswerLines)
    BY <1>1, <2>1, AnswersType
  <2> QED
    BY <2>2
<1> HIDE DEF m
<1>8. FromParts(FlattenSeq(each), each, m)
  <2> HIDE DEF each
  <2> QED
    BY <1>6, <1>7, FlattenWithin
<1> DEFINE F == FlattenSeq(each)
<1>9. /\ \A k \in 1 .. m : each[k] = Answers(s[n + k - 1])
  OBVIOUS
<1> HIDE DEF each
<1>10. /\ \A x : Contains(F, x) => \E j \in n .. end : Contains(Answers(s[j]), x)
       /\ \A x, y : Precedes(F, x, y) =>
            \/ \E j \in n .. end : Precedes(Answers(s[j]), x, y)
            \/ \E j \in n + 1 .. end : Contains(Answers(s[j]), y)
  <2>1. ASSUME NEW x, Contains(F, x) PROVE \E j \in n .. end : Contains(Answers(s[j]), x)
    <3>1. PICK k \in 1 .. m : Contains(each[k], x)
      BY <1>8, <2>1 DEF FromParts
    <3>2. n + k - 1 \in n .. end /\ each[k] = Answers(s[n + k - 1])
      BY <1>6, <1>9
    <3> QED
      BY <3>1, <3>2
  <2>2. ASSUME NEW x, NEW y, Precedes(F, x, y)
        PROVE  \/ \E j \in n .. end : Precedes(Answers(s[j]), x, y)
               \/ \E j \in n + 1 .. end : Contains(Answers(s[j]), y)
    <3>1. \/ \E k \in 1 .. m : Precedes(each[k], x, y)
          \/ \E k, l \in 1 .. m : k < l /\ Contains(each[k], x) /\ Contains(each[l], y)
      BY <1>8, <2>2 DEF FromParts
    <3>2. CASE \E k \in 1 .. m : Precedes(each[k], x, y)
      <4>1. PICK k \in 1 .. m : Precedes(each[k], x, y)
        BY <3>2
      <4>2. n + k - 1 \in n .. end /\ each[k] = Answers(s[n + k - 1])
        BY <1>6, <1>9
      <4> QED
        BY <4>1, <4>2
    <3>3. CASE \E k, l \in 1 .. m : k < l /\ Contains(each[k], x) /\ Contains(each[l], y)
      <4>1. PICK k, l \in 1 .. m : k < l /\ Contains(each[l], y)
        BY <3>3
      <4>2. n + l - 1 \in n .. end /\ each[l] = Answers(s[n + l - 1])
        BY <1>6, <1>9
      <4>3. n + l - 1 > n
        BY <4>1
      <4>4. n + l - 1 \in n + 1 .. end
        BY <4>2, <4>3
      <4> QED
        BY <4>1, <4>2, <4>4
    <3> QED
      BY <3>1, <3>2, <3>3
  <2> QED
    BY <2>1, <2>2
<1>11. \A j \in n + 1 .. end : s[j].do \notin EchoChecks
  <2> SUFFICES ASSUME NEW j \in n + 1 .. end, s[j].do \in EchoChecks PROVE FALSE
    OBVIOUS
  <2>1. j \in 1 .. Len(s) /\ j > 1 /\ j - 1 \in n .. Len(s)
    BY <1>1, <1>4
  <2>2. Writes(s[j - 1])
    BY <2>1, EchoAfterWrite
  <2>3. j - 1 # n
    BY <2>2
  <2>4. j - 2 \in n .. Len(s) /\ j - 2 < end /\ (j - 2) + 1 = j - 1
    BY <1>4, <2>1, <2>3
  <2> QED
    BY <1>5, <2>2, <2>4
<1>12. ASSUME s[n].do \in EchoChecks, Uploads(After(s, n)), NEW j \in n .. end,
              s[j].do \notin EchoChecks
       PROVE  s[j].text # "OK"
  <2>1. n + 1 \in 1 .. Len(s) /\ After(s, n) = s[n + 1]
    BY <1>12, LinksAt, DosAreNotEnd DEF Uploads
  <2>2. j # n
    BY <1>12
  <2>3. Link(s[n + 1], After(s, n + 1)) /\ Uploads(s[n + 1])
    BY <1>12, <2>1, LinksAt
  <2>4. CASE j = n + 1
    BY <2>3, <2>4 DEF Link
  <2>5. CASE j # n + 1
    <3>1. j > n + 1 /\ n + 1 \in n .. Len(s) /\ n + 1 < end
      BY <1>4, <2>1, <2>2, <2>5
    <3>2. s[n + 1].do # "upload"
      BY <1>5, <3>1
    <3>3. After(s, n + 1).do = "upload"
      BY <2>3, <3>2 DEF Uploads, Link
    <3>4. (n + 1) + 1 \in 1 .. Len(s) /\ s[(n + 1) + 1].do = "upload"
      BY <2>1, <3>3, LinksAt
    <3>5. (n + 1) + 1 \in n .. Len(s) /\ ((n + 1) + 1 < end \/ j = (n + 1) + 1)
      BY <1>4, <3>1, <3>4
    <3>6. j = (n + 1) + 1
      BY <1>5, <3>4, <3>5
    <3>7. Link(s[j], After(s, j)) /\ Uploads(s[j])
      BY <3>4, <3>6, LinksAt DEF Uploads
    <3> QED
      BY <3>7 DEF Link
  <2> QED
    BY <2>4, <2>5
<1>13. ASSUME NEW x, Contains(F, x)
       PROVE  /\ x.kind \in {"echo", "answer", "data"}
              /\ x.kind = "echo" => s[n].do \in EchoChecks
              /\ x.kind = "answer" /\ s[n].do \in EchoChecks /\ Uploads(After(s, n)) =>
                   x.text # "OK"
  <2>1. PICK j \in n .. end : Contains(Answers(s[j]), x)
    BY <1>10, <1>13
  <2>2. j = n \/ j \in n + 1 .. end
    BY <1>4
  <2> DEFINE c == s[j]
  <2>3. /\ x.kind \in {"echo", "answer", "data"}
        /\ x.kind = "echo" => c.do \in EchoChecks
        /\ x.kind = "answer" => c.do \notin EchoChecks /\ x.text = c.text
    BY <2>1, AnswersAre
  <2> QED
    BY <1>11, <1>12, <2>2, <2>3
<1>14. ASSUME NEW x, NEW y, Precedes(F, x, y) PROVE y.kind # "echo"
  <2>1. CASE \E j \in n .. end : Precedes(Answers(s[j]), x, y)
    BY <2>1, AnswersAre
  <2>2. CASE \E j \in n + 1 .. end : Contains(Answers(s[j]), y)
    BY <1>11, <2>2, AnswersAre
  <2> QED
    BY <1>10, <1>14, <2>1, <2>2
<1> QED
  BY <1>2, <1>13, <1>14 DEF F

(***************************************************************************)
(* The lines a write or an upload puts on the wire.                        *)
(***************************************************************************)
Reacted(r) ==
  /\ \A t : Contains(r, t) => t.of = requests
  /\ \A t, u : Precedes(r, t, u) => t.kind # "error" /\ u.kind # "echo"
  /\ \A t, u : Contains(r, t) /\ Contains(r, u) /\ t.kind = "error" => u.kind # "answer"

NoEcho(r)  == \A t : Contains(r, t) => t.kind # "echo"
NoError(r) == \A t : Contains(r, t) => t.kind # "error"
NoOK(r)    == \A t : Contains(r, t) /\ t.kind = "answer" => t.text # "OK"

(* The case at index n is the first the lines are meant for.               *)
Suits(r, n, c) ==
  /\ Reacted(r)
  /\ c = "" /\ Cases[n].do \notin EchoChecks => NoEcho(r)
  /\ Cases[n].do \in EchoChecks /\ Uploads(After(Cases, n)) => NoOK(r)

LEMMA ReactionIs ==
  ASSUME Function \in Callbacks, requests \in Nat, Chain(Cases), NEW n \in 1 .. Len(Cases),
         ~Writes(Cases[n]), NEW c \in Texts
  PROVE  /\ Reaction(n, c) \in Seq(Sent) /\ Suits(Reaction(n, c), n, c)
         /\ NoError(Reaction(n, c))
<1> DEFINE a == AnswersFrom(Cases, n)
           s == Cases
           g(k) == Answered(a[k].kind, IF a[k].kind = "echo" THEN c ELSE a[k].text)
           r == [k \in DOMAIN a |-> g(k)]
<1>1. n \in Nat \ {0}
  OBVIOUS
<1>2. r \in Seq(Sent)
  BY <1>1, ReactionType DEF Reaction
<1>3. Reaction(n, c) = r
  BY DEF Reaction
<1>4. a \in Seq(AnswerLines)
  BY <1>1, ScriptsType, AnswersFromType DEF Cases, Scripts
<1>5. /\ \A x : Contains(a, x) =>
           /\ x.kind \in {"echo", "answer", "data"}
           /\ x.kind = "echo" => s[n].do \in EchoChecks
           /\ x.kind = "answer" /\ s[n].do \in EchoChecks /\ Uploads(After(s, n)) =>
                x.text # "OK"
      /\ \A x, y : Precedes(a, x, y) => y.kind # "echo"
  BY StretchIs
<1> HIDE DEF a, s
<1>6. DOMAIN a = 1 .. Len(a) /\ Len(a) \in Nat
  BY <1>4
<1>7. \A k \in 1 .. Len(a) :
        /\ r[k].kind = a[k].kind /\ r[k].of = requests
        /\ r[k].kind # "echo" => r[k].text = a[k].text
  BY <1>6 DEF Answered
<1>8. Len(r) = Len(a)
  BY <1>2, <1>6
<1> HIDE DEF r
<1>9. ASSUME NEW t, Contains(r, t)
      PROVE  /\ t.of = requests /\ t.kind # "error"
             /\ t.kind = "echo" => s[n].do \in EchoChecks
             /\ t.kind = "answer" /\ s[n].do \in EchoChecks /\ Uploads(After(s, n)) =>
                  t.text # "OK"
  <2>1. PICK k \in 1 .. Len(a) : r[k] = t
    BY <1>8, <1>9 DEF Contains
  <2>2. Contains(a, a[k])
    BY DEF Contains
  <2> QED
    BY <1>5, <1>7, <2>1, <2>2
<1>10. ASSUME NEW t, NEW u, Precedes(r, t, u) PROVE Contains(r, t) /\ u.kind # "echo"
  <2>1. PICK i, j \in 1 .. Len(a) : i < j /\ r[i] = t /\ r[j] = u
    BY <1>8, <1>10 DEF Precedes
  <2>2. Precedes(a, a[i], a[j])
    BY <2>1 DEF Precedes
  <2>3. Contains(r, t)
    BY <1>8, <2>1 DEF Contains
  <2> QED
    BY <1>5, <1>7, <2>1, <2>2, <2>3
<1> QED
  BY <1>2, <1>3, <1>9, <1>10 DEF Suits, Reacted, NoEcho, NoError, NoOK, s

LEMMA PartSuits ==
  ASSUME NEW r, NEW q, Within(q, r), NEW n, NEW c, Suits(r, n, c)
  PROVE  Suits(q, n, c)
<1> USE DEF Within
<1>1. Reacted(q)
  BY DEF Suits, Reacted
<1>2. NoEcho(r) => NoEcho(q)
  BY DEF NoEcho
<1>3. NoOK(r) => NoOK(q)
  BY DEF NoOK
<1> QED
  BY <1>1, <1>2, <1>3 DEF Suits

LEMMA ErrorSuits ==
  ASSUME requests \in Nat, NEW n, NEW c \in Texts
  PROVE  LET e == Answered("error", "error")
             h == IF c = "" THEN <<>> ELSE <<Answered("echo", c)>>
         IN  h \in Seq(Sent) /\ <<e>> \in Seq(Sent) /\ Suits(h \o <<e>>, n, c)
<1> DEFINE e == Answered("error", "error")
           f == Answered("echo", c)
           h == IF c = "" THEN <<>> ELSE <<f>>
<1>1. /\ e.kind = "error" /\ e.of = requests /\ f.kind = "echo" /\ f.of = requests
      /\ e \in Sent /\ f \in Sent
  BY DEF Answered, Sent
<1> HIDE DEF e, f
<1>2. h \in Seq(Sent) /\ <<e>> \in Seq(Sent)
  <2>1. <<>> \in Seq(Sent)
    OBVIOUS
  <2> QED
    BY <1>1, <2>1, TupleType
<1>3. /\ \A x : Contains(h, x) => x = f /\ c # ""
      /\ \A x, y : ~Precedes(h, x, y)
  BY ShortWithin
<1>4. /\ \A x : Contains(<<e>>, x) <=> x = e
      /\ \A x, y : ~Precedes(<<e>>, x, y)
  BY ShortWithin
<1> DEFINE g == <<e>>
           r == h \o g
<1> HIDE DEF h, g
<1>5. /\ \A x : Contains(r, x) => Contains(h, x) \/ Contains(g, x)
      /\ \A x, y : Precedes(r, x, y) =>
                     \/ Precedes(h, x, y) \/ Precedes(g, x, y)
                     \/ Contains(h, x) /\ Contains(g, y)
  BY <1>2, ConcatWithin DEF g
<1> HIDE DEF r
<1>6. /\ \A x : Contains(r, x) => (x = f /\ c # "") \/ x = e
      /\ \A x, y : Precedes(r, x, y) => x = f /\ y = e
  BY <1>3, <1>4, <1>5 DEF g
<1>7. Reacted(r) /\ NoOK(r) /\ (c = "" => NoEcho(r))
  BY <1>1, <1>6 DEF Reacted, NoOK, NoEcho
<1> QED
  BY <1>2, <1>7 DEF Suits, r, g, h, e, f

LEMMA ReactsWithin ==
  ASSUME Function \in Callbacks, requests \in Nat, Chain(Cases), NEW n \in 1 .. Len(Cases),
         ~Writes(Cases[n]), NEW c \in Texts, wire \in Seq(Sent), Reacts(n, c)
  PROVE  \E r \in Seq(Sent) : wire' = wire \o r /\ Suits(r, n, c)
<1> DEFINE r == Reaction(n, c)
           e == Answered("error", "error")
           h == IF c = "" THEN <<>> ELSE <<Answered("echo", c)>>
<1>1. r \in Seq(Sent) /\ Suits(r, n, c)
  BY ReactionIs
<1>2. h \in Seq(Sent) /\ <<e>> \in Seq(Sent) /\ Suits(h \o <<e>>, n, c)
  BY ErrorSuits
<1>3. \/ wire' = wire \o r
      \/ \E k \in 1 .. Len(r) : wire' = wire \o SubSeq(r, 1, k - 1)
      \/ wire' = wire \o h \o <<e>>
  BY DEF Reacts
<1> HIDE DEF r, e, h
<1>4. CASE wire' = wire \o r
  BY <1>1, <1>4
<1>5. CASE \E k \in 1 .. Len(r) : wire' = wire \o SubSeq(r, 1, k - 1)
  <2>1. PICK k \in 1 .. Len(r) : wire' = wire \o SubSeq(r, 1, k - 1)
    BY <1>5
  <2>2. k - 1 \in 0 .. Len(r) /\ 1 \in Nat \ {0}
    BY <1>1
  <2>3. SubSeq(r, 1, k - 1) \in Seq(Sent) /\ Within(SubSeq(r, 1, k - 1), r)
    BY <1>1, <2>2, SubSeqType, PrefixWithin
  <2>4. Suits(SubSeq(r, 1, k - 1), n, c)
    BY <1>1, <2>3, PartSuits
  <2> QED
    BY <2>1, <2>3, <2>4
<1>6. CASE wire' = wire \o h \o <<e>>
  <2> DEFINE g == <<e>>
             q == h \o g
  <2>1. g \in Seq(Sent) /\ Suits(q, n, c) /\ wire' = (wire \o h) \o g
    BY <1>2, <1>6
  <2> HIDE DEF g
  <2>2. q \in Seq(Sent)
    BY <1>2, <2>1, ConcatType
  <2>3. wire' = wire \o q
    BY <1>2, <2>1, ConcatAssoc
  <2> QED
    BY <2>1, <2>2, <2>3
<1> QED
  BY <1>3, <1>4, <1>5, <1>6

(***************************************************************************)
(* The lines that are due, and which of them comes first: those in the     *)
(* ring before those on the wire.  Only echoes, answers and errors speak   *)
(* to a check of the tame runs; what else is in the ring passes.           *)
(***************************************************************************)
Speaks(t) == t.kind \in {"echo", "answer", "error"}

Due(t) == Speaks(t) /\ (Contains(ring, t) \/ Contains(wire, t))

Ahead(t, u) ==
  /\ Speaks(t) /\ Speaks(u)
  /\ \/ Precedes(ring, t, u) \/ Precedes(wire, t, u)
     \/ Contains(ring, t) /\ Contains(wire, u)

(* The case the request in execution is at, or will come back to, and the  *)
(* one after it; its first three are over; it took data.                   *)
Active == Running /\ want \in Callbacks
Place  == IF Inside THEN at ELSE smInternal[LibraryOf(want)]
Todo   == Script[want]
Now    == IF Active /\ Place < Len(Todo) THEN Todo[Place + 1] ELSE End
Then   == IF Active /\ Place + 1 < Len(Todo) THEN Todo[Place + 2] ELSE End
Late   == Active /\ Place >= 3
Taken  == Active /\ \E k \in 1 .. Len(Todo) : k <= Place /\ Todo[k].do = "take"

(***************************************************************************)
(* What may be due: an echo only to the check of the command just written, *)
(* and nothing of another command after it; an error only to a check, and  *)
(* never in front of an answer that check would take.                      *)
(***************************************************************************)
Echoed ==
  \A t : Due(t) /\ t.kind = "echo" => t.of = requests /\ Now.do \in EchoChecks

Erred ==
  \A t : Due(t) /\ t.kind = "error" =>
    Now.do \in Checks \cup {"skip"} /\ gsm # "data" /\ ~Taken

Pairs ==
  \A t, u : Ahead(t, u) =>
    /\ t.kind \in {"echo", "error"} => u.kind # "echo"
    /\ t.kind = "error" => u.kind # "error"
    /\ t.kind = "echo" /\ u.kind = "answer" =>
         /\ u.of = requests
         /\ Uploads(Then) => u.text # "OK"
         /\ \A v : Ahead(t, v) => v.kind # "error"

Mine == Late => \A t : Due(t) /\ t.kind = "answer" => t.of = requests

Uploading == Uploads(Now) => \A t : Due(t) /\ t.kind = "answer" => t.text # "OK"

Refusing ==
  \A t, u : Due(t) /\ Due(u) /\ t.kind = "error" /\ u.kind = "answer"
            /\ Now.do \notin EchoChecks =>
    Now.do # "skip" /\ Now.text = "OK" /\ u.text # "OK"

Clean == Echoed /\ Erred /\ Pairs /\ Mine /\ Uploading /\ Refusing

(* With nothing but answers due, little is asked of them.                  *)
Calm == \A t : Due(t) => t.kind = "answer"

LEMMA AheadDue == \A t, u : Ahead(t, u)' => Due(t)' /\ Due(u)'
<1> TAKE t, u
<1>1. ASSUME NEW s, Precedes(s, t, u) PROVE Contains(s, t) /\ Contains(s, u)
  BY <1>1 DEF Precedes, Contains
<1> QED
  BY <1>1 DEF Ahead, Due

LEMMA CalmClean == ASSUME Calm', Mine', Uploading' PROVE Clean'
<1>1. Echoed'
  BY DEF Calm, Echoed
<1>2. Erred' /\ Refusing'
  BY DEF Calm, Erred, Refusing
<1>3. Pairs'
  <2>1. ASSUME NEW t, NEW u, Ahead(t, u)' PROVE t.kind = "answer" /\ u.kind = "answer"
    BY <2>1, AheadDue DEF Calm
  <2> QED
    BY <2>1 DEF Pairs
<1> QED
  BY <1>1, <1>2, <1>3 DEF Clean

(* Nothing new is due, and what is due comes in no other order.            *)
Shrinks ==
  /\ \A t : Due(t)' => Due(t)
  /\ \A t, u : Ahead(t, u)' => Ahead(t, u)

LEMMA StillClean ==
  ASSUME Clean, Shrinks, UNCHANGED requests, Now' = Now, Then' = Then,
         Late' => Late, Taken' => Taken, gsm' = "data" => gsm = "data"
  PROVE  Clean'
<1> USE DEF Shrinks
<1>1. Echoed'
  BY DEF Clean, Echoed
<1>2. Erred'
  BY DEF Clean, Erred
<1>3. Pairs'
  BY DEF Clean, Pairs
<1>4. Mine'
  BY DEF Clean, Mine
<1>5. Uploading'
  BY DEF Clean, Uploading
<1>6. Refusing'
  BY DEF Clean, Refusing
<1> QED
  BY <1>1, <1>2, <1>3, <1>4, <1>5, <1>6 DEF Clean

LEMMA HushedClean == ASSUME ring' = <<>>, wire' = <<>> PROVE Clean'
<1>1. \A t : ~Due(t)'
  BY ShortWithin DEF Due
<1> QED
  BY <1>1, CalmClean DEF Calm, Mine, Uploading

(* r speaks in no other way than s.                                        *)
Follows(r, s) ==
  /\ \A x : Speaks(x) /\ Contains(r, x) => Contains(s, x)
  /\ \A x, y : Speaks(x) /\ Speaks(y) /\ Precedes(r, x, y) => Precedes(s, x, y)

LEMMA WithinFollows == \A r, s : (Within(r, s) => Follows(r, s)) /\ Follows(r, r)
BY DEF Within, Follows

LEMMA LinesShrink == ASSUME Follows(ring', ring), Follows(wire', wire) PROVE Shrinks
<1>1. ASSUME NEW t, Due(t)' PROVE Due(t)
  BY <1>1 DEF Due, Follows
<1>2. ASSUME NEW t, NEW u, Ahead(t, u)' PROVE Ahead(t, u)
  BY <1>2 DEF Ahead, Follows
<1> QED
  BY <1>1, <1>2 DEF Shrinks

(* The head of the ring is ahead of all that is left.                      *)
LEMMA HeadFirst ==
  ASSUME ring \in Seq(Heard), ring # <<>>, Speaks(Head(ring)),
         Follows(ring', Tail(ring)), Follows(wire', wire)
  PROVE  /\ Due(Head(ring)) /\ Shrinks
         /\ \A t : Due(t)' => Ahead(Head(ring), t)
<1> DEFINE h == Head(ring)
           s == Tail(ring)
<1>1. /\ Contains(ring, h) /\ Within(s, ring)
      /\ \A x : Contains(s, x) => Precedes(ring, h, x)
  BY TailWithin
<1> HIDE DEF h, s
<1>2. Speaks(h) /\ Follows(ring', s)
  BY DEF h, s
<1>3. Due(h)
  BY <1>1, <1>2 DEF Due
<1>4. Follows(ring', ring)
  BY <1>1, <1>2 DEF Follows, Within
<1>5. Shrinks
  BY <1>4, LinesShrink
<1>6. ASSUME NEW t, Due(t)' PROVE Ahead(h, t)
  BY <1>1, <1>2, <1>6 DEF Due, Ahead, Follows
<1> QED
  BY <1>3, <1>5, <1>6 DEF h

(* What is put on the wire comes last.                                     *)
LEMMA Extended ==
  ASSUME wire \in Seq(Sent), NEW r \in Seq(Sent), wire' = wire \o r, Follows(ring', ring)
  PROVE  /\ \A t : Due(t)' => Due(t) \/ Contains(r, t)
         /\ \A t, u : Ahead(t, u)' =>
                        \/ Ahead(t, u)
                        \/ Due(t) /\ Contains(r, u)
                        \/ Precedes(r, t, u)
<1> DEFINE w == wire \o r
<1>1. /\ \A x : Contains(w, x) => Contains(wire, x) \/ Contains(r, x)
      /\ \A x, y : Precedes(w, x, y) =>
                     \/ Precedes(wire, x, y) \/ Precedes(r, x, y)
                     \/ Contains(wire, x) /\ Contains(r, y)
  BY ConcatWithin
<1>2. wire' = w
  OBVIOUS
<1> HIDE DEF w
<1>3. ASSUME NEW t, Due(t)' PROVE Due(t) \/ Contains(r, t)
  BY <1>1, <1>2, <1>3 DEF Due, Follows
<1>4. ASSUME NEW t, NEW u, Ahead(t, u)'
      PROVE  Ahead(t, u) \/ (Due(t) /\ Contains(r, u)) \/ Precedes(r, t, u)
  <2>1. Speaks(t) /\ Speaks(u)
    BY <1>4 DEF Ahead
  <2>2. CASE Precedes(ring', t, u)
    BY <2>1, <2>2 DEF Ahead, Follows
  <2>3. CASE Precedes(wire', t, u)
    BY <1>1, <1>2, <2>1, <2>3 DEF Ahead, Due
  <2>4. CASE Contains(ring', t) /\ Contains(wire', u)
    BY <1>1, <1>2, <2>1, <2>4 DEF Ahead, Due, Follows
  <2> QED
    BY <1>4, <2>2, <2>3, <2>4 DEF Ahead
<1> QED
  BY <1>3, <1>4

(***************************************************************************)
(* Where the request in execution stands.                                  *)
(***************************************************************************)
LEMMA InsideStands ==
  ASSUME TInv, Inside
  PROVE  /\ Active /\ Place = at /\ Todo = Cases /\ at \in Nat
         /\ Late <=> at >= 3
         /\ Taken <=> \E k \in 1 .. Len(Cases) : k <= at /\ Cases[k].do = "take"
<1>1. /\ Running /\ Function = want /\ want \in Callbacks /\ at \in Nat
  BY InsideRuns
<1>2. Active /\ Place = at /\ Todo = Cases
  BY <1>1 DEF Active, Place, Todo, Cases
<1> QED
  BY <1>1, <1>2 DEF Late, Taken

LEMMA InsideNow ==
  ASSUME TInv, Inside, Chain(Cases), at < Len(Cases)
  PROVE  /\ Now = This /\ Then = After(Cases, at + 1) /\ Link(This, Then)
         /\ at + 1 \in 1 .. Len(Cases) /\ This = Cases[at + 1] /\ This.do \in Dos
<1>1. Active /\ Place = at /\ Todo = Cases /\ at \in Nat
  BY InsideStands
<1>2. at + 1 \in 1 .. Len(Cases) /\ (at + 1 < Len(Cases) <=> at + 1 # Len(Cases))
      /\ (at + 1) + 1 = at + 2
  BY <1>1 DEF Chain
<1>3. Now = This
  BY <1>1 DEF Now, This
<1>4. Then = After(Cases, at + 1)
  BY <1>1, <1>2 DEF Then, After
<1>5. This = Cases[at + 1]
  BY DEF This
<1> QED
  BY <1>2, <1>3, <1>4, <1>5, LinksAt

(* The request goes on with its script.                                    *)
Onward ==
  /\ gsm' \in {"call", "data"} /\ ExecStat' = "EXECUTION"
  /\ UNCHANGED <<Function, fly, want>>

LEMMA OnwardStands ==
  ASSUME TInv, Inside, Onward
  PROVE  /\ Active' /\ Place' = at' /\ Todo' = Cases
         /\ Late' <=> at' >= 3
         /\ Taken' <=> \E k \in 1 .. Len(Cases) : k <= at' /\ Cases[k].do = "take"
<1>1. Running /\ Function = want /\ want \in Callbacks
  BY InsideRuns
<1>2. Active' /\ Place' = at' /\ Todo' = Cases
  BY <1>1 DEF Onward, Active, Running, Place, Inside, Todo, Cases
<1> QED
  BY <1>2 DEF Late, Taken

LEMMA OnwardNow ==
  ASSUME TInv, Inside, Chain(Cases), Onward, at < Len(Cases), at' = at + 1
  PROVE  /\ Now' = Then /\ (Late' <=> at >= 2)
         /\ Then' = IF at + 2 < Len(Cases) THEN Cases[at + 3] ELSE End
<1>1. Active' /\ Place' = at' /\ Todo' = Cases /\ (Late' <=> at' >= 3)
  BY OnwardStands
<1>2. Active /\ Place = at /\ Todo = Cases /\ at \in Nat
  BY InsideStands
<1>3. Len(Cases) \in Nat /\ (at + 1) + 1 = at + 2 /\ (at + 1) + 2 = at + 3
  BY <1>2 DEF Chain
<1>4. Now' = Then
  BY <1>1, <1>2, <1>3 DEF Now, Then
<1>5. Then' = IF at + 2 < Len(Cases) THEN Cases[at + 3] ELSE End
  BY <1>1, <1>3 DEF Then
<1>6. Late' <=> at >= 2
  BY <1>1, <1>2
<1> QED
  BY <1>4, <1>5, <1>6

(* The request has no case any more.                                       *)
LEMMA Idle ==
  ASSUME ~Active'
  PROVE  Now' = End /\ Then' = End /\ ~Late' /\ ~Taken' /\ ~Uploads(Now')
         /\ Mine' /\ Uploading'
<1>1. Now' = End /\ Then' = End /\ ~Late' /\ ~Taken'
  BY DEF Now, Then, Late, Taken
<1>2. ~Uploads(Now')
  BY <1>1, DosAreNotEnd
<1> QED
  BY <1>1, <1>2 DEF Mine, Uploading

LEMMA EndIsCalm ==
  ASSUME Clean, Now.do \notin EchoChecks \cup Checks \cup {"skip"}
  PROVE  Calm
BY DEF Clean, Echoed, Erred, Calm, Due, Speaks

(* Data taken, only the last case of the script is left.                   *)
LEMMA TakenIsLast ==
  ASSUME TInv, Inside, Chain(Cases), at < Len(Cases), Taken
  PROVE  at + 1 = Len(Cases) /\ This.do \in {"reply", "unread"}
<1>1. at \in Nat /\ \E k \in 1 .. Len(Cases) : k <= at /\ Cases[k].do = "take"
  BY InsideStands
<1>2. PICK k \in 1 .. Len(Cases) : k <= at /\ Cases[k].do = "take"
  BY <1>1
<1>3. k + 1 = Len(Cases) /\ Cases[k + 1].do \in {"reply", "unread"}
  BY <1>2, TakeIsLate
<1>4. k = at
  BY <1>1, <1>2, <1>3
<1> QED
  BY <1>3, <1>4 DEF This

(* The case ahead took no data either, if this one takes none and is not   *)
(* the last.                                                               *)
LEMMA NotTakenYet ==
  ASSUME TInv, Inside, Chain(Cases), at < Len(Cases), Onward, at' = at + 1,
         This.do \notin {"reply", "unread", "take"}
  PROVE  ~Taken'
<1>1. at \in Nat /\ (Taken' <=> \E k \in 1 .. Len(Cases) : k <= at' /\ Cases[k].do = "take")
      /\ (Taken <=> \E k \in 1 .. Len(Cases) : k <= at /\ Cases[k].do = "take")
  BY InsideStands, OnwardStands
<1>2. ~Taken
  BY TakenIsLast
<1>3. \A k \in 1 .. Len(Cases) : k <= at' => k <= at \/ k = at + 1
  BY <1>1
<1>4. Cases[at + 1].do # "take"
  BY DEF This
<1> QED
  BY <1>1, <1>2, <1>3, <1>4

(***************************************************************************)
(* A callback counts its cases, but for one more after data; that one is   *)
(* past the last case it can come back to.                                 *)
(***************************************************************************)
Counts ==
  Inside =>
    /\ smInternal[Lib] >= at
    /\ \/ smInternal[Lib] = at \/ gsm = "data"
       \/ \E k \in 1 .. Len(Cases) : k <= at /\ Cases[k].do = "take"

LEMMA LeftNow ==
  ASSUME TInv, gsm = "call", Chain(Cases), Counts, at < Len(Cases), gsm' = "loop",
         UNCHANGED <<ExecStat, fly, want, smInternal>>
  PROVE  \/ /\ Now' = Now /\ Then' = Then
            /\ Late' <=> Late
            /\ Taken' <=> Taken
         \/ This.do \in {"reply", "unread"} /\ Taken /\ Now' = End /\ (Late' => at >= 3)
<1>1. /\ Inside /\ ~Inside'
  BY DEF Inside
<1>2. /\ Running /\ Lib = LibraryOf(want) /\ want \in Callbacks /\ Lib \in Libraries
      /\ smInternal[Lib] \in Nat /\ at \in Nat /\ want = Function
  BY <1>1, InsideRuns
<1>3. /\ Active' /\ Place' = smInternal[Lib] /\ Todo' = Cases
  BY <1>1, <1>2 DEF Active, Running, Place, Todo, Cases
<1>4. Active /\ Place = at /\ Todo = Cases
      /\ (Taken <=> \E k \in 1 .. Len(Cases) : k <= at /\ Cases[k].do = "take")
  BY <1>1, InsideStands
<1>5. CASE smInternal[Lib] = at
  BY <1>3, <1>4, <1>5 DEF Now, Then, Late, Taken
<1>6. CASE smInternal[Lib] # at
  <2>1. Taken /\ smInternal[Lib] >= at
    BY <1>1, <1>4, <1>6 DEF Counts
  <2>2. at + 1 = Len(Cases) /\ This.do \in {"reply", "unread"}
    BY <1>1, <2>1, TakenIsLast
  <2>3. ~(smInternal[Lib] < Len(Cases))
    BY <1>2, <1>6, <2>1, <2>2
  <2>4. Now' = End
    BY <1>3, <2>3 DEF Now
  <2>5. at \notin {0, 1, 2}
    <3>1. InCase({"reply", "unread"})
      BY <1>2, <2>2 DEF InCase, This
    <3> QED
      BY <2>2, <3>1, EarlyCases
  <2>6. at >= 3
    BY <1>2, <2>5
  <2> QED
    BY <2>1, <2>2, <2>4, <2>6
<1> QED
  BY <1>5, <1>6

(* A callback left for another try leaves what is due to that try.         *)
LEMMA LeftClean ==
  ASSUME TInv, gsm = "call", Chain(Cases), Counts, Clean, at < Len(Cases), gsm' = "loop",
         UNCHANGED <<ExecStat, fly, want, smInternal, requests, ring, wire>>
  PROVE  Clean'
<1>1. Shrinks
  BY LinesShrink, WithinFollows
<1>2. CASE Now' = Now /\ Then' = Then /\ (Late' <=> Late) /\ (Taken' <=> Taken)
  BY <1>1, <1>2, StillClean
<1>3. CASE This.do \in {"reply", "unread"} /\ Taken /\ Now' = End /\ (Late' => at >= 3)
  <2>1. Inside
    BY DEF Inside
  <2>2. Now = This /\ (Late <=> at >= 3)
    BY <2>1, InsideNow, InsideStands
  <2>3. Calm
    BY <1>3, <2>2 DEF Clean, Echoed, Erred, Calm, Due, Speaks, EchoChecks
  <2>4. Calm'
    BY <1>1, <2>3 DEF Calm, Shrinks
  <2>5. Mine'
    BY <1>1, <1>3, <2>2 DEF Clean, Mine, Shrinks
  <2>6. Uploading'
    BY <1>3, DosAreNotEnd DEF Uploading
  <2> QED
    BY <2>4, <2>5, <2>6, CalmClean
<1> QED
  BY <1>2, <1>3, LeftNow

(***************************************************************************)
(* The cases that check nothing.                                           *)
(***************************************************************************)
LEMMA CaseFreeOwn ==
  ASSUME TInv, Chain(Cases), Counts, Clean, CaseFree
  PROVE  Clean'
<1>0. InCase({"free"})
  BY DEF CaseFree
<1>1. gsm = "call" /\ Inside /\ at < Len(Cases) /\ This.do = "free"
  BY <1>0 DEF InCase, Inside, This
<1>2. UNCHANGED <<fly, want, requests, ExecStat, Function, ring, wire>>
  BY DEF CaseFree, mainOp, front, modem
<1>3. ExecStat = "EXECUTION" /\ Now = This /\ Link(This, Then) /\ (Late <=> at >= 3)
      /\ at \in Nat
  BY <1>1, InsideRuns, InsideNow, InsideStands DEF Running
<1>4. CASE ring # <<>>
  <2>1. gsm' = "loop" /\ UNCHANGED smInternal
    BY <1>4 DEF CaseFree, Leave
  <2> QED
    BY <1>1, <1>2, <2>1, LeftClean
<1>5. CASE ring = <<>>
  <2>1. gsm' = "call" /\ at' = at + 1
    BY <1>1, <1>5 DEF CaseFree, Fall
  <2>2. Onward
    BY <1>2, <1>3, <2>1 DEF Onward
  <2>3. /\ Now' = Then /\ (Late' <=> at >= 2)
        /\ Then' = IF at + 2 < Len(Cases) THEN Cases[at + 3] ELSE End
    BY <1>1, <2>1, <2>2, OnwardNow
  <2>4. Shrinks
    BY <1>2, LinesShrink, WithinFollows
  <2>5. Calm
    BY <1>1, <1>3, EndIsCalm DEF EchoChecks, Checks
  <2>6. Calm'
    BY <2>4, <2>5 DEF Calm, Shrinks
  <2>7. at # 2
    BY <1>0, <1>1, EarlyCases
  <2>8. Late' => Late
    BY <1>3, <2>3, <2>7
  <2>9. Mine'
    BY <1>2, <2>4, <2>8 DEF Clean, Mine, Shrinks
  <2>10. ~Uploads(Then)
    BY <1>1, <1>3 DEF Link, Uploads, EchoChecks
  <2>11. Uploading'
    BY <2>3, <2>10 DEF Uploading
  <2> QED
    BY <2>6, <2>9, <2>11, CalmClean
<1> QED
  BY <1>4, <1>5

LEMMA CaseSkipOwn ==
  ASSUME TInv, Chain(Cases), Clean, CaseSkip
  PROVE  Clean'
<1>0. InCase({"skip"})
  BY DEF CaseSkip
<1>1. gsm = "call" /\ Inside /\ at < Len(Cases) /\ This.do = "skip"
  BY <1>0 DEF InCase, Inside, This
<1>2. UNCHANGED <<fly, want, requests, ExecStat, Function, ring, wire>>
      /\ gsm' = "call" /\ at' = at + 1
  BY <1>1 DEF CaseSkip, Fall, mainOp, front, modem
<1>3. ExecStat = "EXECUTION" /\ Now = This /\ Link(This, Then) /\ (Late <=> at >= 3)
      /\ at \in Nat
  BY <1>1, InsideRuns, InsideNow, InsideStands DEF Running
<1>4. Onward
  BY <1>2, <1>3 DEF Onward
<1>5. /\ Now' = Then /\ (Late' <=> at >= 2)
      /\ Then' = IF at + 2 < Len(Cases) THEN Cases[at + 3] ELSE End
  BY <1>1, <1>2, <1>4, OnwardNow
<1>6. Then.do = "reply"
  BY <1>1, <1>3 DEF Link
<1>7. Shrinks
  BY <1>2, LinesShrink, WithinFollows
<1>8. at # 2
  BY <1>0, <1>1, EarlyCases
<1>9. Late' => Late
  BY <1>3, <1>5, <1>8
<1>10. \A t : Due(t) => t.kind # "echo"
  BY <1>1, <1>3 DEF Clean, Echoed, EchoChecks
<1>11. \A t, u : Due(t) /\ Due(u) /\ t.kind = "error" => u.kind # "answer"
  BY <1>1, <1>3 DEF Clean, Refusing, EchoChecks
<1>12. Echoed' /\ Refusing'
  BY <1>7, <1>10, <1>11 DEF Echoed, Refusing, Shrinks
<1>13. Erred'
  <2>1. ~Taken'
    BY <1>1, <1>2, <1>4, NotTakenYet
  <2> QED
    BY <1>2, <1>5, <1>6, <2>1 DEF Erred, Checks
<1>14. Pairs'
  <2>1. ASSUME NEW t, NEW u, Ahead(t, u)'
        PROVE  Ahead(t, u) /\ t.kind # "echo" /\ u.kind # "echo"
    BY <1>7, <1>10, <2>1, AheadDue DEF Shrinks
  <2> QED
    BY <2>1 DEF Clean, Pairs
<1>15. Mine'
  BY <1>2, <1>7, <1>9 DEF Clean, Mine, Shrinks
<1>16. Uploading'
  BY <1>5, <1>6 DEF Uploading, Uploads
<1> QED
  BY <1>12, <1>13, <1>14, <1>15, <1>16 DEF Clean

LEMMA WriteOwn ==
  ASSUME TInv, Chain(Cases), Clean, InCase({"send", "ifany"}), Write
  PROVE  Clean'
<1>1. gsm = "call" /\ Inside /\ at < Len(Cases) /\ This.do \in {"send", "ifany"}
      /\ Function \in Callbacks /\ This \in CaseType
  BY ThisType DEF InCase, Inside
<1>2. UNCHANGED <<fly, want, requests, ExecStat, Function, ring>>
      /\ gsm' = "call" /\ at' = at + 1 /\ Reacts(at + 2, This.text)
  BY <1>1 DEF Write, Fall, mainOp, front
<1>3. ExecStat = "EXECUTION" /\ Now = This /\ Link(This, Then) /\ (Late <=> at >= 3)
      /\ at \in Nat
      /\ Then = After(Cases, at + 1) /\ at + 1 \in 1 .. Len(Cases)
  BY <1>1, InsideRuns, InsideNow, InsideStands DEF Running
<1>4. Onward
  BY <1>2, <1>3 DEF Onward
<1>5. /\ Now' = Then /\ (Late' <=> at >= 2)
      /\ Then' = IF at + 2 < Len(Cases) THEN Cases[at + 3] ELSE End
  BY <1>1, <1>2, <1>4, OnwardNow
<1>6. Then.do \in EchoChecks
  BY <1>1, <1>3 DEF Link, Writes
<1>7. at + 2 \in 1 .. Len(Cases) /\ Then = Cases[at + 2] /\ (at + 1) + 1 = at + 2
      /\ (at + 2) + 1 = at + 3
  BY <1>3, <1>6, LinksAt DEF EchoChecks
<1>8. Then' = After(Cases, at + 2)
  BY <1>3, <1>5, <1>7 DEF After, Chain
<1>9. ~Writes(Cases[at + 2]) /\ Cases[at + 2].do \in EchoChecks
  BY <1>6, <1>7 DEF EchoChecks, Writes
<1>10. wire \in Seq(Sent) /\ requests \in Nat /\ This.text \in Texts
  BY <1>1 DEF TInv, TypeOK, Lines, CaseType
<1>11. PICK r \in Seq(Sent) : wire' = wire \o r /\ Suits(r, at + 2, This.text)
  BY <1>1, <1>2, <1>7, <1>9, <1>10, ReactsWithin
<1>12. Reacted(r) /\ (Uploads(Then') => NoOK(r))
  BY <1>8, <1>9, <1>11 DEF Suits
<1>13. /\ \A t : Due(t)' => Due(t) \/ Contains(r, t)
       /\ \A t, u : Ahead(t, u)' =>
                      \/ Ahead(t, u)
                      \/ Due(t) /\ Contains(r, u)
                      \/ Precedes(r, t, u)
  BY <1>2, <1>10, <1>11, Extended, WithinFollows
<1>14. Calm
  BY <1>1, <1>3, EndIsCalm DEF EchoChecks, Checks
<1>15. Echoed'
  BY <1>2, <1>5, <1>6, <1>12, <1>13, <1>14 DEF Echoed, Reacted, Calm
<1>16. Erred'
  <2>1. ~Taken'
    BY <1>1, <1>2, <1>4, NotTakenYet
  <2> QED
    BY <1>2, <1>5, <1>6, <2>1 DEF Erred, EchoChecks, Checks
<1>17. Refusing'
  BY <1>5, <1>6 DEF Refusing
<1>18. \A t, u : Ahead(t, u) => t.kind = "answer"
  BY <1>14 DEF Calm, Ahead, Due, Precedes, Contains
<1>19. Pairs'
  <2>1. ASSUME NEW t, NEW u, Ahead(t, u)', t.kind # "answer" PROVE Precedes(r, t, u)
    BY <1>13, <1>14, <1>18, <2>1 DEF Calm
  <2>2. \A t, u : Precedes(r, t, u) => Contains(r, t) /\ Contains(r, u)
    BY DEF Precedes, Contains
  <2> SUFFICES ASSUME NEW t, NEW u, Ahead(t, u)'
               PROVE  /\ t.kind \in {"echo", "error"} => u.kind # "echo"
                      /\ t.kind = "error" => u.kind # "error"
                      /\ t.kind = "echo" /\ u.kind = "answer" =>
                           /\ u.of = requests'
                           /\ Uploads(Then') => u.text # "OK"
                           /\ \A v : Ahead(t, v)' => v.kind # "error"
    BY DEF Pairs
  <2>3. t.kind \in {"echo", "error"} => u.kind # "echo" /\ t.kind # "error"
    BY <1>12, <2>1 DEF Reacted
  <2>4. ASSUME t.kind = "echo", u.kind = "answer"
        PROVE  /\ u.of = requests' /\ (Uploads(Then') => u.text # "OK")
               /\ \A v : Ahead(t, v)' => v.kind # "error"
    <3>1. Contains(r, u) /\ \A v : Ahead(t, v)' => Contains(r, v)
      BY <2>1, <2>2, <2>4
    <3> QED
      BY <1>2, <1>12, <2>4, <3>1 DEF Reacted, NoOK
  <2> QED
    BY <2>3, <2>4
<1>20. at # 2
  BY <1>1, EarlyCases DEF EchoChecks
<1>21. Mine'
  <2>1. Late' => Late
    BY <1>3, <1>5, <1>20
  <2> QED
    BY <1>2, <1>12, <1>13, <2>1 DEF Clean, Mine, Reacted
<1>22. Uploading'
  BY <1>5, <1>6 DEF Uploading, Uploads, EchoChecks
<1> QED
  BY <1>15, <1>16, <1>17, <1>19, <1>21, <1>22 DEF Clean

(***************************************************************************)
(* The line a check takes.                                                 *)
(***************************************************************************)
LEMMA HeadIs ==
  ASSUME TInv, SomeLine
  PROVE  /\ ring \in Seq(Heard) /\ ring # <<>> /\ Head(ring) \in Heard
         /\ Contains(ring, Head(ring))
<1>1. ring \in Seq(Heard) /\ ring # <<>> /\ Head(ring) \in Heard
  BY SomeLineIsHead DEF TInv, Lines
<1> QED
  BY <1>1, TailWithin

LEMMA TakenLine ==
  ASSUME NEW t \in Heard, Result(t) = "ok"
  PROVE  /\ t.kind = IF This.do \in EchoChecks THEN "echo" ELSE "answer"
         /\ This.do \notin EchoChecks => t.text = This.text
         /\ Speaks(t)
<1>1. t.kind \in {"error", "alarm", "flood"} => t.text # "ok"
  BY HeardFails DEF Failures
<1>2. CASE This.do \in EchoChecks
  <2>1. echoFind(t) = "ok"
    BY <1>2 DEF Result, EchoChecks
  <2>2. t.kind = "echo"
    BY <1>1, <2>1 DEF echoFind
  <2> QED
    BY <1>2, <2>2 DEF Speaks
<1>3. CASE This.do \notin EchoChecks
  <2>1. getAnswer(t, This.text) = "ok"
    BY <1>3 DEF Result, EchoChecks
  <2>2. t.kind = "answer" /\ t.text = This.text
    BY <1>1, <2>1 DEF getAnswer
  <2> QED
    BY <1>3, <2>2 DEF Speaks
<1> QED
  BY <1>2, <1>3

LEMMA FailedLine ==
  ASSUME NEW t, Result(t) \notin {"ok", "unexpected"}
  PROVE  t.kind \in {"error", "alarm", "flood"}
BY DEF Result, echoFind, getAnswer

(* What a check leaves of the ring was behind the line it took.            *)
LEMMA SuffixOfTail ==
  ASSUME NEW S, NEW s \in Seq(S), s # <<>>, NEW n \in 1 .. Len(s)
  PROVE  Within(SubSeq(s, n + 1, Len(s)), Tail(s))
<1> DEFINE r == SubSeq(s, n + 1, Len(s))
           t == Tail(s)
<1>1. n \in 0 .. Len(s) /\ Len(s) \in Nat
  OBVIOUS
<1>2. Len(r) = Len(s) - n /\ \A i \in 1 .. Len(s) - n : r[i] = s[i + n]
  BY <1>1, SuffixIs
<1>3. Len(t) = Len(s) - 1 /\ \A i \in 1 .. Len(s) - 1 : t[i] = s[i + 1]
  OBVIOUS
<1> HIDE DEF r, t
<1> DEFINE m == n - 1
<1>4. m \in Nat /\ \A i \in 1 .. Len(s) - n : i + m \in 1 .. Len(s) - 1 /\ (i + m) + 1 = i + n
  BY <1>1
<1> HIDE DEF m
<1>5. \A i \in 1 .. Len(r) : r[i] = t[i + m] /\ i + m \in 1 .. Len(t)
  BY <1>2, <1>3, <1>4
<1>6. ASSUME NEW x, Contains(r, x) PROVE Contains(t, x)
  BY <1>5, <1>6 DEF Contains
<1>7. ASSUME NEW x, NEW y, Precedes(r, x, y) PROVE Precedes(t, x, y)
  <2>1. PICK i, j \in 1 .. Len(r) : i < j /\ r[i] = x /\ r[j] = y
    BY <1>7 DEF Precedes
  <2>2. /\ i + m \in 1 .. Len(t) /\ j + m \in 1 .. Len(t) /\ i + m < j + m
        /\ t[i + m] = x /\ t[j + m] = y
    BY <1>4, <1>5, <2>1
  <2> QED
    BY <2>2 DEF Precedes
<1> QED
  BY <1>6, <1>7 DEF Within, r, t

(* r holds what s holds, in its order, and junk.                           *)
Besides(r, s) ==
  /\ \A x : Contains(r, x) => Contains(s, x) \/ x = Junk
  /\ \A x, y : Precedes(r, x, y) => Precedes(s, x, y) \/ x = Junk

LEMMA JunkIs == Junk \in Heard /\ Junk.kind = "junk" /\ ~Speaks(Junk)
BY DEF Junk, Heard, Unsolicited, Line, Speaks

LEMMA RestBesides ==
  ASSUME NEW r \in Rest, ring \in Seq(Heard), ring # <<>>
  PROVE  Besides(r, Tail(ring))
<1> DEFINE s == Tail(ring)
<1>1. s \in Seq(Heard) /\ Len(ring) \in Nat \ {0} /\ Len(s) = Len(ring) - 1
  BY TailType
<1>2. \/ r = s
      \/ r \in Misread
      \/ Len(ring) > 1 /\ r = Tail(s)
  BY DEF Rest
<1>3. ASSUME Within(r, s) PROVE Besides(r, s)
  BY <1>3 DEF Within, Besides
<1>4. CASE r = s
  BY <1>4 DEF Besides
<1>5. CASE \E k \in 2 .. Len(ring) + 1 : r = SubSeq(ring, k, Len(ring))
  <2>1. PICK k \in 2 .. Len(ring) + 1 : r = SubSeq(ring, k, Len(ring))
    BY <1>5
  <2>2. k - 1 \in 1 .. Len(ring) /\ (k - 1) + 1 = k
    BY <1>1
  <2>3. Within(SubSeq(ring, (k - 1) + 1, Len(ring)), Tail(ring))
    BY <2>2, SuffixOfTail
  <2>4. Within(r, s)
    BY <2>1, <2>2, <2>3
  <2> QED
    BY <1>3, <2>4
<1>6. CASE r = <<Junk>> \o s
  <2> DEFINE j == <<Junk>>
  <2>1. j \in Seq(Heard)
    BY JunkIs, TupleType
  <2>2. /\ \A x : Contains(j, x) => x = Junk
        /\ \A x, y : ~Precedes(j, x, y)
    BY ShortWithin
  <2> HIDE DEF s, j
  <2>3. /\ \A x : Contains(r, x) => Contains(j, x) \/ Contains(s, x)
        /\ \A x, y : Precedes(r, x, y) =>
                       \/ Precedes(j, x, y) \/ Precedes(s, x, y)
                       \/ Contains(j, x) /\ Contains(s, y)
    BY <1>1, <1>6, <2>1, ConcatWithin DEF j
  <2>4. Besides(r, s)
    BY <2>2, <2>3 DEF Besides
  <2> QED
    BY <2>4 DEF s
<1>7. CASE Len(ring) > 1 /\ r = Tail(s)
  <2>1. s # <<>>
    <3>1. Len(s) # 0
      BY <1>1, <1>7
    <3> HIDE DEF s
    <3> QED
      BY <3>1
  <2>2. Within(Tail(s), s)
    BY <1>1, <2>1, TailWithin
  <2> QED
    BY <1>3, <1>7, <2>2
<1> HIDE DEF s
<1>8. Besides(r, s)
  BY <1>2, <1>4, <1>5, <1>6, <1>7 DEF Misread, s
<1> QED
  BY <1>8 DEF s

LEMMA RestFollows ==
  ASSUME NEW r \in Rest, ring \in Seq(Heard), ring # <<>>
  PROVE  Follows(r, Tail(ring))
<1> DEFINE s == Tail(ring)
<1>1. Besides(r, s)
  BY RestBesides
<1> HIDE DEF s
<1>2. Follows(r, s)
  BY <1>1, JunkIs DEF Besides, Follows
<1> QED
  BY <1>2 DEF s

(* An answer is this request's, and nothing but answers comes with it.     *)
LEMMA AnswerHeard ==
  ASSUME TInv, Chain(Cases), Clean, InCase(Checks), SomeLine,
         Result(Head(ring)) = "ok", This.do \notin EchoChecks
  PROVE  Calm /\ Head(ring).of = requests /\ at >= 3
<1> DEFINE h == Head(ring)
<1>1. ring \in Seq(Heard) /\ ring # <<>> /\ h \in Heard /\ Contains(ring, h)
  BY HeadIs
<1>2. h.kind = "answer" /\ h.text = This.text /\ Speaks(h)
  BY <1>1, TakenLine
<1> HIDE DEF h
<1>3. Due(h)
  BY <1>1, <1>2 DEF Due
<1>4. Inside /\ at < Len(Cases) /\ This.do \in Checks
  BY DEF InCase, Inside, This
<1>5. Now = This
  BY <1>4, InsideNow
<1>6. /\ Late <=> at >= 3
      /\ at \in Nat
  BY <1>4, InsideStands
<1>7. ~(at <= 2)
  BY <1>4, EarlyCases DEF EchoChecks, Checks
<1>8. Late /\ at >= 3
  BY <1>6, <1>7
<1>9. h.of = requests
  BY <1>2, <1>3, <1>8 DEF Clean, Mine
<1>10. ASSUME NEW t, Due(t) PROVE t.kind = "answer"
  <2>1. t.kind # "echo"
    BY <1>5, <1>10 DEF Clean, Echoed
  <2>2. t.kind # "error"
    BY <1>2, <1>3, <1>5, <1>10 DEF Clean, Refusing
  <2> QED
    BY <1>10, <2>1, <2>2 DEF Due, Speaks
<1> QED
  BY <1>8, <1>9, <1>10 DEF Calm, h

(***************************************************************************)
(* A check that takes its line.                                            *)
(***************************************************************************)
LEMMA CheckTakes ==
  ASSUME TInv, CheckSucceeds
  PROVE  /\ InCase(Checks) /\ SomeLine /\ Result(Head(ring)) = "ok"
         /\ gsm = "call" /\ Inside /\ at < Len(Cases) /\ This.do \in Checks
         /\ Onward /\ UNCHANGED requests
         /\ Follows(ring', Tail(ring))
         /\ foreign' = (foreign \/ Head(ring).of # requests)
<1>1. InCase(Checks) /\ SomeLine /\ Result(Head(ring)) = "ok"
      /\ foreign' = (foreign \/ Head(ring).of # requests)
  BY DEF CheckSucceeds
<1>2. gsm = "call" /\ Inside /\ at < Len(Cases) /\ This.do \in Checks
  BY <1>1 DEF InCase, Inside, This
<1>3. UNCHANGED <<fly, want, requests, Function>> /\ ring' \in Rest
  BY DEF CheckSucceeds, front
<1>4. ExecStat' = "EXECUTION"
  BY CheckErrOk DEF CheckSucceeds
<1>5. gsm' \in {"call", "data"}
  BY <1>2 DEF CheckSucceeds, Fall
<1>6. Onward
  BY <1>3, <1>4, <1>5 DEF Onward
<1>7. ring \in Seq(Heard) /\ ring # <<>>
  BY <1>1, HeadIs
<1>8. Follows(ring', Tail(ring))
  BY <1>3, <1>7, RestFollows
<1> QED
  BY <1>1, <1>2, <1>3, <1>6, <1>8

LEMMA CheckMoves ==
  ASSUME CheckSucceeds
  PROVE  /\ This.do = "take" => gsm' = "data" /\ at' = at
         /\ This.do = "again" => at' = 1 /\ smInternal' = [smInternal EXCEPT ![Lib] = 1]
         /\ This.do \notin {"take", "again"} => gsm' = gsm /\ at' = at + 1
         /\ This.do # "again" => smInternal' = [smInternal EXCEPT ![Lib] = @ + 1]
         /\ This.do = "upload" => Reacts(at + 2, "")
         /\ This.do # "upload" => wire' = wire
<1>1. /\ This.do = "take" => gsm' = "data" /\ at' = at
      /\ This.do = "again" => at' = 1 /\ smInternal' = [smInternal EXCEPT ![Lib] = 1]
      /\ This.do \notin {"take", "again"} => gsm' = gsm /\ at' = at + 1
      /\ This.do = "upload" => Reacts(at + 2, "")
      /\ This.do # "upload" => wire' = wire
  BY DEF CheckSucceeds, Fall
<1>2. ASSUME This.do # "again" PROVE smInternal' = [smInternal EXCEPT ![Lib] = @ + 1]
  <2>1. CheckErr("ok")
    BY <1>2 DEF CheckSucceeds
  <2> QED
    BY <2>1 DEF CheckErr
<1> QED
  BY <1>1, <1>2

LEMMA EchoTaken ==
  ASSUME TInv, Chain(Cases), Clean, CheckSucceeds, This.do \in EchoChecks
  PROVE  Clean' /\ Head(ring).of = requests
<1> DEFINE h == Head(ring)
<1>1. /\ Inside /\ gsm = "call" /\ at < Len(Cases)
      /\ Onward /\ UNCHANGED requests /\ InCase(Checks) /\ SomeLine /\ Result(h) = "ok"
      /\ Follows(ring', Tail(ring))
  BY CheckTakes
<1>2. at' = at + 1 /\ gsm' = "call" /\ Follows(wire', wire)
  BY <1>1, CheckMoves, WithinFollows DEF EchoChecks
<1>3. ring \in Seq(Heard) /\ ring # <<>> /\ h \in Heard
  BY <1>1, HeadIs
<1>4. h.kind = "echo" /\ Speaks(h)
  BY <1>1, <1>3, TakenLine
<1>5. Due(h) /\ Shrinks /\ \A t : Due(t)' => Ahead(h, t)
  BY <1>1, <1>2, <1>3, <1>4, HeadFirst
<1> HIDE DEF h
<1>6. h.of = requests
  BY <1>4, <1>5 DEF Clean, Echoed
<1>7. Link(This, Then)
  BY <1>1, InsideNow
<1>8. /\ Now' = Then /\ (Late' <=> at >= 2)
      /\ Then' = IF at + 2 < Len(Cases) THEN Cases[at + 3] ELSE End
  BY <1>1, <1>2, OnwardNow
<1>9. ~Taken'
  BY <1>1, <1>2, NotTakenYet DEF EchoChecks
<1>10. ASSUME NEW t, Due(t)'
       PROVE  /\ t.kind # "echo"
              /\ t.kind = "answer" =>
                   /\ t.of = requests /\ (Uploads(Then) => t.text # "OK")
                   /\ \A u : Due(u)' => u.kind # "error"
  BY <1>4, <1>5, <1>10 DEF Clean, Pairs
<1>11. Echoed'
  BY <1>10 DEF Echoed
<1>12. Erred'
  <2>1. Now'.do \in Checks \cup {"skip"}
    BY <1>7, <1>8 DEF Link, Checks
  <2> QED
    BY <1>2, <1>9, <2>1 DEF Erred
<1>13. Pairs'
  <2>1. ASSUME NEW t, NEW u, Ahead(t, u)'
        PROVE  Ahead(t, u) /\ t.kind # "echo" /\ u.kind # "echo"
    BY <1>5, <1>10, <2>1, AheadDue DEF Shrinks
  <2> QED
    BY <2>1 DEF Clean, Pairs
<1>14. Mine'
  BY <1>1, <1>10 DEF Mine
<1>15. Uploading'
  BY <1>8, <1>10 DEF Uploading
<1>16. Refusing'
  BY <1>10 DEF Refusing
<1> QED
  BY <1>6, <1>11, <1>12, <1>13, <1>14, <1>15, <1>16 DEF Clean, h

(* With answers only, the next case is as clean.                           *)
LEMMA CalmOn ==
  ASSUME TInv, Inside, Chain(Cases), Clean, Calm, at < Len(Cases), at >= 3,
         This.do \notin EchoChecks, Onward, at' = at + 1, Shrinks, UNCHANGED requests
  PROVE  Clean'
<1>1. Now = This /\ Link(This, Then)
  BY InsideNow
<1>2. Late
  BY InsideStands
<1>3. Now' = Then
  BY OnwardNow
<1>4. Calm'
  BY DEF Calm, Shrinks
<1>5. Mine'
  BY <1>2 DEF Clean, Mine, Shrinks
<1>6. Uploading'
  <2>1. Uploads(Then) => Uploads(Now)
    BY <1>1 DEF Link
  <2> QED
    BY <1>3, <2>1 DEF Clean, Uploading, Shrinks
<1> QED
  BY <1>4, <1>5, <1>6, CalmClean

LEMMA AnswerTaken ==
  ASSUME TInv, Chain(Cases), Clean, CheckSucceeds, This.do \notin EchoChecks \cup {"upload"}
  PROVE  Clean'
<1> DEFINE h == Head(ring)
<1>1. /\ Inside /\ gsm = "call" /\ at < Len(Cases) /\ This.do \in Checks
      /\ Onward /\ UNCHANGED requests /\ InCase(Checks) /\ SomeLine /\ Result(h) = "ok"
      /\ Follows(ring', Tail(ring))
  BY CheckTakes
<1>2. Follows(wire', wire)
  BY CheckMoves, WithinFollows
<1>3. ring \in Seq(Heard) /\ ring # <<>> /\ h \in Heard
  BY <1>1, HeadIs
<1>4. Speaks(h)
  BY <1>1, <1>3, TakenLine
<1>5. Shrinks
  BY <1>1, <1>2, <1>3, <1>4, HeadFirst
<1>6. Calm /\ at >= 3
  BY <1>1, AnswerHeard
<1> HIDE DEF h
<1>7. Calm'
  BY <1>5, <1>6 DEF Calm, Shrinks
<1>8. CASE This.do \notin {"take", "again"}
  <2>1. at' = at + 1
    BY <1>8, CheckMoves
  <2> QED
    BY <1>1, <1>5, <1>6, <2>1, CalmOn
<1>9. CASE This.do = "take"
  <2>1. at' = at
    BY <1>9, CheckMoves
  <2>2. /\ Active' /\ Place' = at' /\ Todo' = Cases
        /\ Late' <=> at' >= 3
    BY <1>1, OnwardStands
  <2>3. Late /\ Now = This
    BY <1>1, <1>6, InsideStands, InsideNow
  <2>4. Now' = This
    BY <1>1, <2>1, <2>2 DEF Now, This
  <2>5. Mine'
    BY <1>1, <1>5, <2>3 DEF Clean, Mine, Shrinks
  <2>6. Uploading'
    BY <1>9, <2>4 DEF Uploading, Uploads
  <2> QED
    BY <1>7, <2>5, <2>6, CalmClean
<1>10. CASE This.do = "again"
  <2>1. at' = 1
    BY <1>10, CheckMoves
  <2>2. /\ Active' /\ Place' = at' /\ Todo' = Cases
        /\ Late' <=> at' >= 3
    BY <1>1, OnwardStands
  <2>3. Opens(Cases)
    BY <1>1, ThisType DEF Scripts
  <2>4. Now' = Cases[2] /\ Cases[2].do = "send"
    BY <2>1, <2>2, <2>3 DEF Now, Opens
  <2>5. Mine'
    BY <2>1, <2>2 DEF Mine
  <2>6. Uploading'
    BY <2>4 DEF Uploading, Uploads
  <2> QED
    BY <1>7, <2>5, <2>6, CalmClean
<1> QED
  BY <1>8, <1>9, <1>10

(* The text was sent: what the modem says of it is for the next check.     *)
LEMMA UploadTaken ==
  ASSUME TInv, Chain(Cases), Clean, CheckSucceeds, This.do = "upload"
  PROVE  Clean'
<1> DEFINE h == Head(ring)
<1>1. /\ Inside /\ gsm = "call" /\ at < Len(Cases)
      /\ Onward /\ UNCHANGED requests /\ InCase(Checks) /\ SomeLine /\ Result(h) = "ok"
      /\ Follows(ring', Tail(ring))
  BY CheckTakes
<1>2. at' = at + 1 /\ gsm' = "call" /\ Reacts(at + 2, "")
  BY <1>1, CheckMoves
<1>3. ring \in Seq(Heard) /\ ring # <<>> /\ Within(Tail(ring), ring)
  BY <1>1, HeadIs, TailWithin
<1>4. Follows(ring', ring)
  BY <1>1, <1>3 DEF Follows, Within
<1>5. Calm /\ at >= 3
  BY <1>1, AnswerHeard DEF EchoChecks
<1> HIDE DEF h
<1>6. /\ Now = This /\ Then = After(Cases, at + 1) /\ Link(This, Then)
      /\ at + 1 \in 1 .. Len(Cases) /\ Late
  BY <1>1, <1>5, InsideNow, InsideStands
<1>7. Then.do = "reply" /\ Then.text = "OK"
  BY <1>6 DEF Link
<1>8. at + 2 \in 1 .. Len(Cases) /\ Then = Cases[at + 2]
  <2>1. (at + 1) + 1 = at + 2
    BY <1>6, <1>1, InsideStands
  <2> QED
    BY <1>6, <1>7, <2>1, LinksAt
<1>9. ~Writes(Cases[at + 2]) /\ Cases[at + 2].do \notin EchoChecks
  BY <1>7, <1>8 DEF EchoChecks, Writes
<1>10. wire \in Seq(Sent) /\ requests \in Nat /\ "" \in Texts /\ Function \in Callbacks
  BY <1>1, ThisType DEF TInv, TypeOK, Lines, Texts
<1>11. PICK r \in Seq(Sent) : wire' = wire \o r /\ Suits(r, at + 2, "")
  BY <1>2, <1>8, <1>9, <1>10, ReactsWithin
<1>12. Reacted(r) /\ NoEcho(r)
  BY <1>9, <1>11 DEF Suits
<1>13. /\ \A t : Due(t)' => Due(t) \/ Contains(r, t)
       /\ \A t, u : Ahead(t, u)' =>
                      \/ Ahead(t, u)
                      \/ Due(t) /\ Contains(r, u)
                      \/ Precedes(r, t, u)
  BY <1>4, <1>10, <1>11, Extended
<1>14. Now' = Then
  BY <1>1, <1>2, OnwardNow
<1>15. ~Taken'
  BY <1>1, <1>2, NotTakenYet
<1>16. \A t : Due(t)' => t.kind # "echo" /\ (t.kind = "error" => Contains(r, t))
  BY <1>5, <1>12, <1>13 DEF Calm, NoEcho
<1>17. Echoed'
  BY <1>16 DEF Echoed
<1>18. Erred'
  BY <1>2, <1>7, <1>14, <1>15 DEF Erred, Checks
<1>19. Pairs'
  <2>1. ASSUME NEW t, NEW u, Ahead(t, u)'
        PROVE  t.kind # "echo" /\ u.kind # "echo"
    BY <1>16, <2>1, AheadDue
  <2>2. ASSUME NEW t, NEW u, Ahead(t, u) PROVE t.kind = "answer"
    <3>1. ASSUME NEW s, Precedes(s, t, u) PROVE Contains(s, t)
      BY <3>1 DEF Precedes, Contains
    <3> QED
      BY <1>5, <2>2, <3>1 DEF Calm, Ahead, Due
  <2>3. ASSUME NEW t, NEW u, Ahead(t, u)' PROVE t.kind # "error" \/ u.kind # "error"
    BY <1>5, <1>12, <1>13, <2>2, <2>3 DEF Calm, Reacted
  <2> QED
    BY <2>1, <2>3 DEF Pairs
<1>20. Mine'
  BY <1>1, <1>6, <1>12, <1>13 DEF Clean, Mine, Reacted
<1>21. Uploading'
  BY <1>7, <1>14 DEF Uploading, Uploads
<1>22. Refusing'
  <2>1. ASSUME NEW t, NEW u, Due(t)', Due(u)', t.kind = "error", u.kind = "answer"
        PROVE  u.text # "OK"
    <3>1. Contains(r, t)
      BY <1>16, <2>1
    <3>2. Due(u)
      BY <1>12, <1>13, <2>1, <3>1 DEF Reacted
    <3> QED
      BY <1>6, <2>1, <3>2 DEF Clean, Uploading, Uploads
  <2> QED
    BY <1>7, <1>14, <2>1 DEF Refusing
<1> QED
  BY <1>17, <1>18, <1>19, <1>20, <1>21, <1>22 DEF Clean

LEMMA CheckSucceedsOwn ==
  ASSUME TInv, Chain(Cases), Clean, CheckSucceeds
  PROVE  Clean' /\ (~foreign => ~foreign')
<1>1. /\ InCase(Checks) /\ SomeLine /\ Result(Head(ring)) = "ok"
      /\ foreign' = (foreign \/ Head(ring).of # requests)
  BY CheckTakes
<1>2. Clean'
  BY EchoTaken, AnswerTaken, UploadTaken
<1>3. Head(ring).of = requests
  BY <1>1, EchoTaken, AnswerHeard
<1> QED
  BY <1>1, <1>2, <1>3

(***************************************************************************)
(* The runs in which no unsolicited line ends a command early.             *)
(***************************************************************************)
Tame ==
  /\ seen \cap {"bad", "alarm", "flood"} = {}
  /\ ~("notice" \in seen /\ "cTCPWrite" \in Asked)

(* An unsolicited line was sent, and a notification comes of one.          *)
Signs ==
  /\ \A t : Contains(ring, t) /\ t.kind \in {"notice", "alarm", "flood", "bad"} =>
              t.kind \in seen
  /\ notif => "notice" \in seen

(* A script that is under way goes on.                                     *)
LEMMA DataOwn ==
  ASSUME TInv, Chain(Cases), Clean, DataHere
  PROVE  Clean'
<1>1. /\ gsm = "data" /\ ring # <<>> /\ ring' = Tail(ring) /\ gsm' = "call" /\ at' = at + 1
      /\ UNCHANGED <<Function, fly, want, requests, wire>> /\ CheckErr("ok")
  BY DEF DataHere, front
<1>2. Inside /\ at < Len(Cases) /\ This.do = "take" /\ Function \in Callbacks /\ at \in Nat
  BY <1>1, InsideRuns DEF TInv, Calling, Inside
<1>3. Now = This
  BY <1>2, InsideNow
<1>4. Calm
  <2>1. ASSUME NEW t, Due(t) PROVE t.kind # "echo"
    BY <1>2, <1>3, <2>1 DEF Clean, Echoed, EchoChecks
  <2>2. ASSUME NEW t, Due(t) PROVE t.kind # "error"
    BY <1>1, <2>2 DEF Clean, Erred
  <2> QED
    BY <2>1, <2>2 DEF Calm, Due, Speaks
<1>5. at >= 3
  <2>1. Opens(Cases)
    BY <1>2, ScriptsType DEF Cases, Scripts
  <2>2. at \notin {0, 1, 2}
    BY <1>2, <2>1 DEF Opens, This
  <2> QED
    BY <1>2, <2>2
<1>6. Shrinks
  <2>1. Within(Tail(ring), ring)
    BY <1>1, TailWithin DEF TInv, Lines
  <2> QED
    BY <1>1, <2>1, WithinFollows, LinesShrink
<1>7. Onward
  BY <1>1, CheckErrOk DEF Onward
<1> QED
  BY <1>1, <1>2, <1>4, <1>5, <1>6, <1>7, CalmOn DEF EchoChecks

(* A script that ends, or is given up.                                     *)
LEMMA OverClean == ASSUME Calm, Shrinks, ~Active' PROVE Clean'
<1>1. Calm'
  BY DEF Calm, Shrinks
<1> QED
  BY <1>1, Idle, CalmClean

LEMMA FailsOwn ==
  ASSUME TInv, Chain(Cases), Counts, Clean, Signs, Tame, CheckFails
  PROVE  Clean'
<1> DEFINE h == Head(ring)
           r == Result(h)
<1>1. /\ InCase(Checks) /\ SomeLine /\ r # "ok" /\ CheckErr(r)
      /\ ring' = IF r = "unexpected" THEN ring ELSE Tail(ring)
      /\ gsm' = "loop" /\ UNCHANGED <<fly, want, requests, wire>>
  BY DEF CheckFails, front, Leave
<1>2. gsm = "call" /\ Inside /\ at < Len(Cases)
  BY <1>1 DEF InCase, Inside
<1>3. /\ Running /\ Lib \in Libraries /\ smInternal \in [Libraries -> Nat]
  BY <1>2, InsideRuns
<1>4. ring \in Seq(Heard) /\ ring # <<>> /\ h \in Heard /\ Contains(ring, h)
  BY <1>1, HeadIs
<1>5. CASE r = "unexpected"
  <2>1. ExecStat' = "EXECUTION" /\ smInternal' = [smInternal EXCEPT ![Lib] = @]
    BY <1>1, <1>5 DEF CheckErr, Status
  <2>2. UNCHANGED smInternal
    BY <1>3, <2>1
  <2>3. UNCHANGED ExecStat
    BY <1>3, <2>1 DEF Running
  <2> QED
    BY <1>1, <1>2, <1>5, <2>2, <2>3, LeftClean
<1>6. CASE r # "unexpected"
  <2>1. h.kind \in {"error", "alarm", "flood"}
    BY <1>1, <1>6, FailedLine
  <2>2. h.kind = "error"
    BY <1>4, <2>1 DEF Signs, Tame
  <2>3. Speaks(h)
    BY <2>2 DEF Speaks
  <2>4. ring' = Tail(ring)
    BY <1>1, <1>6
  <2>5. Shrinks /\ Due(h) /\ \A t : Due(t)' => Ahead(h, t)
    BY <1>1, <1>4, <2>3, <2>4, WithinFollows, HeadFirst
  <2>6. Calm'
    <3> HIDE DEF h
    <3>1. ASSUME NEW t, Due(t)' PROVE t.kind \notin {"echo", "error"}
      BY <2>2, <2>5, <3>1 DEF Clean, Pairs
    <3>2. ASSUME NEW t, Due(t)' PROVE Speaks(t)
      BY <2>5, <3>2 DEF Ahead
    <3> QED
      BY <3>1, <3>2 DEF Calm, Speaks
  <2>7. r \in Failures
    BY <1>1, <1>4, <1>6, ResultType DEF Results
  <2>8. ExecStat' # "EXECUTION"
    BY <1>1, <2>7 DEF CheckErr, Status, Failures
  <2>9. ~Active'
    BY <2>8 DEF Active, Running
  <2> QED
    BY <2>6, <2>9, Idle, CalmClean
<1> QED
  BY <1>5, <1>6

LEMMA ParseOwn ==
  ASSUME TInv, Chain(Cases), Clean, ParseFails
  PROVE  Clean' /\ (~foreign => ~foreign')
<1> DEFINE h == Head(ring)
<1>1. /\ InCase({"parse"}) /\ SomeLine /\ Result(h) = "ok"
      /\ ring' = Tail(ring) /\ UNCHANGED wire /\ ExecStat' = "SUCCESS"
      /\ foreign' = (foreign \/ h.of # requests)
  BY DEF ParseFails, Done
<1>2. InCase(Checks) /\ This.do = "parse"
  BY <1>1 DEF InCase, Checks, This
<1>3. Calm /\ h.of = requests
  BY <1>1, <1>2, AnswerHeard DEF EchoChecks
<1>4. Shrinks
  <2>1. ring \in Seq(Heard) /\ ring # <<>>
    BY <1>1, HeadIs
  <2>2. Within(Tail(ring), ring)
    BY <2>1, TailWithin
  <2> QED
    BY <1>1, <2>2, WithinFollows, LinesShrink
<1>5. ~Active'
  BY <1>1 DEF Active, Running
<1>6. Clean'
  BY <1>3, <1>4, <1>5, OverClean
<1> QED
  BY <1>1, <1>3, <1>6

LEMMA FinishOwn ==
  ASSUME TInv, Chain(Cases), Clean, Finish
  PROVE  Clean'
<1>1. /\ gsm = "call"
      /\ at >= Len(Cases) \/ InCase({"unread", "ifany"})
      /\ UNCHANGED <<ring, wire>> /\ ExecStat' = "SUCCESS"
  BY DEF Finish, PastTheLast, InCase, Done, modem
<1>2. Inside
  BY <1>1 DEF Inside
<1>3. Place = at /\ Todo = Cases /\ at \in Nat
  BY <1>2, InsideStands
<1>4. Calm
  <2>1. CASE at >= Len(Cases)
    <3>1. ~(Place < Len(Todo))
      BY <1>3, <2>1 DEF Chain
    <3>2. Now = End
      BY <3>1 DEF Now
    <3> QED
      BY <3>2, DosAreNotEnd, EndIsCalm DEF EchoChecks, Checks
  <2>2. CASE InCase({"unread", "ifany"})
    <3>1. at < Len(Cases) /\ This.do \in {"unread", "ifany"}
      BY <2>2 DEF InCase, This
    <3>2. Now = This
      BY <1>2, <3>1, InsideNow
    <3> QED
      BY <3>1, <3>2, EndIsCalm DEF EchoChecks, Checks
  <2> QED
    BY <1>1, <2>1, <2>2
<1>5. Shrinks
  BY <1>1, WithinFollows, LinesShrink
<1>6. ~Active'
  BY <1>1 DEF Active, Running
<1> QED
  BY <1>4, <1>5, <1>6, OverClean

(***************************************************************************)
(* The count of the cases.                                                 *)
(***************************************************************************)
LEMMA CountsOn ==
  ASSUME TInv, Inside, Counts, Onward, at' = at + 1,
         smInternal' = [smInternal EXCEPT ![Lib] = @ + 1]
  PROVE  Counts'
<1> DEFINE n == smInternal[Lib]
           m == smInternal'[Lib]
<1>1. Lib \in Libraries /\ smInternal \in [Libraries -> Nat] /\ at \in Nat
  BY InsideRuns
<1>2. Lib' = Lib /\ Cases' = Cases
  BY DEF Onward, Lib, Cases
<1>3. n \in Nat /\ m = n + 1
  BY <1>1
<1>4. /\ n >= at
      /\ \/ n = at \/ gsm = "data"
         \/ \E k \in 1 .. Len(Cases) : k <= at /\ Cases[k].do = "take"
  BY DEF Counts
<1> HIDE DEF n, m
<1>5. m >= at' /\ (n = at => m = at')
  BY <1>1, <1>3, <1>4
<1>6. ASSUME NEW k \in 1 .. Len(Cases), k <= at PROVE k <= at'
  BY <1>1, <1>6
<1>7. gsm = "data" => at + 1 \in 1 .. Len(Cases) /\ Cases[at + 1].do = "take"
  <2> SUFFICES ASSUME gsm = "data"
               PROVE  at + 1 \in 1 .. Len(Cases) /\ Cases[at + 1].do = "take"
    OBVIOUS
  <2>1. at < Len(Cases) /\ This.do = "take" /\ Function \in Callbacks
    BY DEF TInv, Calling, Inside
  <2>2. Len(Cases) \in Nat
    BY <2>1, ScriptsType DEF Cases, Scripts
  <2> QED
    BY <1>1, <2>1, <2>2 DEF This
<1>8. at + 1 <= at'
  BY <1>1
<1>9. n = at \/ \E k \in 1 .. Len(Cases) : k <= at' /\ Cases[k].do = "take"
  BY <1>4, <1>6, <1>7, <1>8
<1> QED
  BY <1>2, <1>5, <1>9 DEF Counts, m

LEMMA CheckSucceedsCounts ==
  ASSUME TInv, Counts, CheckSucceeds
  PROVE  Counts'
<1>1. gsm = "call" /\ Inside /\ Onward
  BY CheckTakes
<1>2. Lib \in Libraries /\ smInternal \in [Libraries -> Nat] /\ at \in Nat
  BY <1>1, InsideRuns
<1>3. Lib' = Lib
  BY <1>1 DEF Onward, Lib
<1>4. CASE This.do \notin {"take", "again"}
  BY <1>1, <1>4, CheckMoves, CountsOn
<1>5. CASE This.do = "take"
  <2>1. gsm' = "data" /\ at' = at /\ smInternal' = [smInternal EXCEPT ![Lib] = @ + 1]
    BY <1>5, CheckMoves
  <2>2. smInternal[Lib] >= at
    BY <1>1 DEF Counts
  <2>3. smInternal'[Lib] = smInternal[Lib] + 1 /\ smInternal[Lib] \in Nat
    BY <1>2, <2>1
  <2>4. smInternal'[Lib] >= at'
    BY <1>2, <2>1, <2>2, <2>3
  <2> QED
    BY <1>3, <2>1, <2>4 DEF Counts
<1>6. CASE This.do = "again"
  <2>1. at' = 1 /\ smInternal' = [smInternal EXCEPT ![Lib] = 1]
    BY <1>6, CheckMoves
  <2>2. smInternal'[Lib] = 1
    BY <1>2, <2>1
  <2> QED
    BY <1>3, <2>1, <2>2 DEF Counts
<1> QED
  BY <1>4, <1>5, <1>6

(***************************************************************************)
(* The signs of an unsolicited line.                                       *)
(***************************************************************************)
Unsaid(t) == t.kind \in {"notice", "alarm", "flood", "bad"}

LEMMA SignsKept ==
  ASSUME Signs, seen \subseteq seen', notif' => notif,
         \A t : Contains(ring', t) /\ Unsaid(t) => Contains(ring, t)
  PROVE  Signs'
BY DEF Signs, Unsaid

LEMMA TailSigns ==
  ASSUME ring \in Seq(Heard), ring # <<>>
  PROVE  \A t : Contains(Tail(ring), t) => Contains(ring, t)
BY TailWithin DEF Within

LEMMA CallSigns ==
  ASSUME TInv, Signs, seen \subseteq seen', Call, ~Close
  PROVE  Signs'
<1>1. CASE \/ CaseFree \/ CaseSend \/ CaseIfAny \/ CaseSkip \/ CheckTimesOut
           \/ DataTimesOut \/ Finish
  <2>1. UNCHANGED <<ring, notif>>
    BY <1>1 DEF CaseFree, CaseSend, CaseIfAny, CaseSkip, CheckTimesOut, DataTimesOut,
       Finish, Write, modem, handle
  <2> QED
    BY <2>1, SignsKept
<1>2. CASE CasePrompt
  <2>1. UNCHANGED notif /\ ring' \in {ring, <<>>}
    BY <1>2 DEF CasePrompt, handle
  <2> QED
    BY <2>1, ShortWithin, SignsKept
<1>3. CASE CheckFails \/ ParseFails
  <2>1. UNCHANGED notif /\ ring' \in {ring, Tail(ring)} /\ SomeLine
    BY <1>3 DEF CheckFails, ParseFails, handle
  <2>2. ring \in Seq(Heard) /\ ring # <<>>
    BY <2>1, HeadIs
  <2> QED
    BY <2>1, <2>2, TailSigns, SignsKept
<1>4. CASE DataHere
  <2>1. UNCHANGED notif /\ ring' = Tail(ring) /\ ring # <<>> /\ ring \in Seq(Heard)
    BY <1>4 DEF DataHere, handle, TInv, Lines
  <2> QED
    BY <2>1, TailSigns, SignsKept
<1>5. CASE CheckSucceeds
  <2>1. UNCHANGED notif /\ ring' \in Rest /\ SomeLine
    BY <1>5 DEF CheckSucceeds
  <2>2. ring \in Seq(Heard) /\ ring # <<>>
    BY <2>1, HeadIs
  <2>3. Besides(ring', Tail(ring))
    BY <2>1, <2>2, RestBesides
  <2>4. \A t : Contains(ring', t) /\ Unsaid(t) => Contains(ring, t)
    <3> DEFINE s == Tail(ring)
    <3>1. \A t : Contains(s, t) => Contains(ring, t)
      BY <2>2, TailSigns
    <3> HIDE DEF s
    <3>2. Besides(ring', s)
      BY <2>3 DEF s
    <3> QED
      BY <3>1, <3>2, JunkIs DEF Besides, Unsaid
  <2> QED
    BY <2>1, <2>4, SignsKept
<1> QED
  BY <1>1, <1>2, <1>3, <1>4, <1>5 DEF Call

(* GSMUnsol takes lines out; the notification is one of them.              *)
LEMMA UnsolLeaves ==
  ASSUME TInv, Unsol
  PROVE  /\ \/ Within(ring', ring)
            \/ ring' = <<>>
            \/ ring' = <<Crumb>>
         /\ notif' => notif \/ Contains(ring, KTCP_NOTIF)
<1>0. ring \in Seq(Heard)
  BY DEF TInv, Lines
<1>1. Within(ring, ring)
  BY DEF Within
<1>2. CASE ~SomeLine
  BY <1>1, <1>2 DEF Unsol
<1>3. CASE SomeLine /\ (FirstTold = 0 \/ Told1.kind = "flood")
  BY <1>3 DEF Unsol, GSMUnsol
<1>4. CASE SomeLine /\ FirstTold # 0 /\ Told1.kind # "flood"
  <2>1. FirstTold \in 1 .. Len(ring)
    BY <1>0, <1>4, FirstToldIs
  <2>2. ring' = SubSeq(ring, FirstTold + 1, Len(ring)) /\ notif' = (notif \/ Told1 = KTCP_NOTIF)
    BY <1>4 DEF Unsol, GSMUnsol
  <2>3. Within(SubSeq(ring, FirstTold + 1, Len(ring)), ring)
    BY <1>0, <2>1, SuffixWithin
  <2>4. Contains(ring, Told1)
    BY <2>1 DEF Told1, Contains
  <2> QED
    BY <2>2, <2>3, <2>4
<1> QED
  BY <1>2, <1>3, <1>4

LEMMA NextSigns ==
  ASSUME TInv, Signs, [Next]_vars
  PROVE  Signs'
<1>1. seen \subseteq seen'
  BY SeenGrows
<1>2. CASE Call /\ ~Close
  BY <1>1, <1>2, CallSigns
<1>3. CASE FrontEnd
  <2>1. UNCHANGED <<ring, notif>>
    <3>1. CASE \E f : Asks(f) \/ Afresh(f)
      BY <3>1 DEF Asks, Afresh, Asking, Entered, modem, handle
    <3>2. CASE STDModeEnable
      BY <3>2 DEF STDModeEnable, Entered, modem, handle
    <3>3. CASE LLModeEnable \/ LLWrite
      BY <3>3 DEF LLModeEnable, LLWrite, LowLevel, modem, handle
    <3> QED
      BY <1>3, <3>1, <3>2, <3>3, FrontEndShapes
  <2> QED
    BY <1>1, <2>1, SignsKept
<1>4. CASE Plain
  <2>1. UNCHANGED <<ring, notif>>
    BY <1>4 DEF Plain, Close, Nothing, StartCall, RefuseCall, Hibernating, Suspend,
       Resume, cLLModeEnable, cLLWrite, StartSetup, cSTDModeEnable, Submit, Return,
       RequestReset, modem, handle
  <2> QED
    BY <1>1, <2>1, SignsKept
<1>5. CASE Unsol
  <2>1. /\ \/ Within(ring', ring)
           \/ ring' = <<>>
           \/ ring' = <<Crumb>>
        /\ notif' => notif \/ Contains(ring, KTCP_NOTIF)
    BY <1>5, UnsolLeaves
  <2>2. ~Unsaid(Crumb) /\ KTCP_NOTIF.kind = "notice"
    BY DEF Unsaid, Crumb, KTCP_NOTIF, Line
  <2>3. \A t : Contains(ring', t) /\ Unsaid(t) => Contains(ring, t)
    BY <2>1, <2>2, ShortWithin DEF Within
  <2>4. notif' => "notice" \in seen'
    BY <1>1, <2>1, <2>2 DEF Signs
  <2> QED
    BY <1>1, <2>3, <2>4 DEF Signs, Unsaid
<1>6. CASE HiloInit \/ findStr \/ ResetFails \/ Forget \/ UNCHANGED vars
  <2>1. ring' \in {ring, <<>>} /\ (notif' => notif)
    BY <1>6 DEF HiloInit, findStr, ResetFails, Forget, vars, modem, handle
  <2> QED
    BY <1>1, <2>1, ShortWithin, SignsKept
<1>7. CASE Arrive
  <2>1. /\ wire \in Seq(Sent) /\ ring \in Seq(Heard) /\ wire # <<>>
        /\ ring' = Append(ring, Head(wire)) /\ UNCHANGED notif
    BY <1>7 DEF TInv, Lines, Arrive, handle
  <2>2. Head(wire) \in Sent
    BY <2>1, TailType
  <2>3. Head(wire) \in Heard /\ ~Unsaid(Head(wire))
    BY <2>2 DEF Heard, Sent, Unsaid
  <2>4. \A t : Contains(ring', t) => Contains(ring, t) \/ t = Head(wire)
    BY <2>1, <2>3, AppendWithin
  <2> QED
    BY <1>1, <2>1, <2>3, <2>4, SignsKept
<1>8. CASE Unasked
  <2>1. PICK m \in Messages : ring' = Append(ring, m) /\ seen' = seen \cup {m.kind}
    BY <1>8 DEF Unasked
  <2>2. ring \in Seq(Heard) /\ m \in Heard /\ UNCHANGED notif
    BY <1>8, MessagesAssumption DEF TInv, Lines, Heard, Unasked, handle
  <2>3. \A t : Contains(ring', t) => Contains(ring, t) \/ t = m
    BY <2>1, <2>2, AppendWithin
  <2> QED
    BY <2>1, <2>2, <2>3 DEF Signs
<1> QED
  BY <1>2, <1>3, <1>4, <1>5, <1>6, <1>7, <1>8, StepShapes DEF Unseen

(***************************************************************************)
(* The invariant.  It says nothing while the modem is about to be set up   *)
(* again, and at the first step of the setup everything due is dropped.    *)
(***************************************************************************)
Dirty ==
  \/ gsm = "loop" /\ mainGSMStateMachine \in {"HW_FAULT", "LL_MODE"}
  \/ /\ want = "cSTDModeEnable" /\ fly # "idle" /\ ExecStat = "EXECUTION"
     /\ mainGSMStateMachine # "HIBERNATE"
  \/ gsm \in {"reset", "setup"} /\ at = 0

Silent == gsm \in {"reset", "setup"} /\ at # 0 => ring = <<>> /\ wire = <<>>

Own == ~foreign /\ Silent /\ Counts /\ (~Dirty => Clean)

OInv == Signs /\ (Tame => Own)

LEMMA ModesAside == "cSTDModeEnable" \notin Callbacks /\ "cTCPWrite" \in Callbacks
BY DEF Callbacks, Script

(***************************************************************************)
(* The steps of a callback.                                                *)
(***************************************************************************)
LEMMA CallStands ==
  ASSUME TInv, "cSMSSend" \notin Asked, Inside
  PROVE  Chain(Cases) /\ ~Dirty
<1>1. Running /\ Function = want /\ want \in Callbacks
  BY InsideRuns
<1>2. want \in Asked
  BY <1>1 DEF TInv, Calling, Running
<1>3. Chain(Cases)
  BY <1>1, <1>2, Chains DEF Cases
<1> QED
  BY <1>1, <1>3, ModesAside DEF Dirty, Inside

LEMMA CaseOwn ==
  ASSUME TInv, Signs, Tame, Inside, Chain(Cases), Clean, Counts, Call, ~Close
  PROVE  /\ ~foreign => ~foreign'
         /\ Clean' \/ (gsm' = "loop" /\ mainGSMStateMachine' = "HW_FAULT")
<1>1. CASE CaseFree
  BY <1>1, CaseFreeOwn DEF CaseFree
<1>2. CASE CaseSend \/ CaseIfAny
  <2>1. InCase({"send", "ifany"}) /\ Write
    BY <1>2 DEF CaseSend, CaseIfAny, InCase
  <2> QED
    BY <2>1, WriteOwn DEF Write
<1>3. CASE CaseSkip
  BY <1>3, CaseSkipOwn DEF CaseSkip
<1>4. CASE CasePrompt
  <2>1. at < Len(Cases) /\ This.do = "prompt"
    BY <1>4 DEF CasePrompt, InCase, This
  <2>2. Link(This, Then)
    BY <2>1, InsideNow
  <2> QED
    BY <2>1, <2>2 DEF Link
<1>5. CASE CheckSucceeds
  BY <1>5, CheckSucceedsOwn
<1>6. CASE CheckFails
  BY <1>6, FailsOwn DEF CheckFails
<1>7. CASE CheckTimesOut
  BY <1>7 DEF CheckTimesOut, Leave, CheckErr
<1>8. CASE DataTimesOut
  BY <1>8 DEF DataTimesOut, Leave, CheckErr
<1>9. CASE ParseFails
  BY <1>9, ParseOwn
<1>10. CASE DataHere
  BY <1>10, DataOwn DEF DataHere, hidden
<1>11. CASE Finish
  BY <1>11, FinishOwn DEF Finish, hidden
<1> QED
  BY <1>1, <1>2, <1>3, <1>4, <1>5, <1>6, <1>7, <1>8, <1>9, <1>10, <1>11 DEF Call

LEMMA CaseCounts ==
  ASSUME TInv, Inside, Chain(Cases), Counts, Call, ~Close
  PROVE  Counts'
<1>1. /\ IInv /\ ExecStat = "EXECUTION"
  BY InsideRuns DEF TInv, Running
<1>2. CASE ~Inside'
  BY <1>2 DEF Counts
<1>3. ASSUME Inside', at' = at + 1, smInternal' = [smInternal EXCEPT ![Lib] = @ + 1],
             UNCHANGED <<Function, fly, want>>, ExecStat' = "EXECUTION"
      PROVE  Counts'
  BY <1>3, CountsOn DEF Onward, Inside
<1>4. CASE CaseFree
  <2>1. CASE ring # <<>>
    BY <1>2, <1>4, <2>1 DEF CaseFree, Leave, Inside
  <2>2. CASE ring = <<>>
    <3>1. /\ at' = at + 1 /\ gsm' = gsm /\ UNCHANGED <<Function, fly, want, ExecStat>>
          /\ smInternal' = [smInternal EXCEPT ![Lib] = @ + 1]
      BY <1>4, <2>2 DEF CaseFree, Fall, mainOp, front
    <3> QED
      BY <1>1, <1>3, <3>1 DEF Inside
  <2> QED
    BY <2>1, <2>2
<1>5. CASE CaseSend \/ CaseIfAny \/ CaseSkip
  <2>1. /\ at' = at + 1 /\ gsm' = gsm /\ UNCHANGED <<Function, fly, want, ExecStat>>
        /\ smInternal' = [smInternal EXCEPT ![Lib] = @ + 1]
    BY <1>5 DEF CaseSend, CaseIfAny, CaseSkip, Write, Fall, mainOp, front
  <2> QED
    BY <1>1, <1>3, <2>1 DEF Inside
<1>6. CASE CasePrompt
  <2>1. at < Len(Cases) /\ This.do = "prompt"
    BY <1>6 DEF CasePrompt, InCase, This
  <2>2. Link(This, Then)
    BY <2>1, InsideNow
  <2> QED
    BY <2>1, <2>2 DEF Link
<1>7. CASE CheckSucceeds
  BY <1>7, CheckSucceedsCounts
<1>8. CASE CheckFails \/ CheckTimesOut \/ DataTimesOut \/ ParseFails \/ Finish
  BY <1>2, <1>8 DEF CheckFails, CheckTimesOut, DataTimesOut, ParseFails, Finish, Leave,
     Done, Inside
<1>9. CASE DataHere
  <2>1. /\ at' = at + 1 /\ gsm' = "call" /\ UNCHANGED <<Function, fly, want>>
        /\ CheckErr("ok")
    BY <1>9 DEF DataHere, front
  <2>2. ExecStat' = "EXECUTION" /\ smInternal' = [smInternal EXCEPT ![Lib] = @ + 1]
    BY <2>1, CheckErrOk DEF CheckErr
  <2> QED
    BY <1>3, <2>1, <2>2 DEF Inside
<1> QED
  BY <1>4, <1>5, <1>6, <1>7, <1>8, <1>9 DEF Call

LEMMA CallOwn ==
  ASSUME TInv, "cSMSSend" \notin Asked, Signs, Tame, Own, Call, ~Close
  PROVE  Own'
<1>1. gsm \in {"call", "data"} /\ (GoesOn \/ Leaves \/ Ends)
  BY CaseEffect DEF TInv
<1>2. Inside
  BY <1>1 DEF Inside
<1>3. Chain(Cases) /\ ~Dirty
  BY <1>2, CallStands
<1>4. ~foreign /\ Counts /\ Clean
  BY <1>3 DEF Own
<1>5. gsm' \in {"call", "data", "loop", "closing"}
  BY <1>1 DEF GoesOn, Leaves, Ends
<1>6. Silent'
  BY <1>5 DEF Silent
<1>7. Counts'
  BY <1>2, <1>3, <1>4, CaseCounts
<1>8. /\ ~foreign => ~foreign'
      /\ Clean' \/ (gsm' = "loop" /\ mainGSMStateMachine' = "HW_FAULT")
  BY <1>2, <1>3, <1>4, CaseOwn
<1> QED
  BY <1>4, <1>6, <1>7, <1>8 DEF Own, Dirty

(***************************************************************************)
(* Outside of a callback.                                                  *)
(***************************************************************************)
LEMMA OutsideClean ==
  ASSUME Clean, Shrinks, ~Inside, ~Inside',
         UNCHANGED <<ExecStat, fly, want, smInternal, requests>>
  PROVE  Clean'
<1>1. /\ Active' <=> Active
      /\ Place' = Place /\ Todo' = Todo
  BY DEF Active, Running, Place, Todo
<1>2. Now' = Now /\ Then' = Then
  BY <1>1 DEF Now, Then
<1>3. (Late' => Late) /\ (Taken' => Taken)
  BY <1>1 DEF Late, Taken
<1>4. gsm' # "data"
  BY DEF Inside
<1> QED
  BY <1>2, <1>3, <1>4, StillClean

LEMMA SameClean ==
  ASSUME Clean, Shrinks,
         UNCHANGED <<ExecStat, fly, want, smInternal, requests, gsm, at>>
  PROVE  Clean'
<1>1. /\ Active' <=> Active
      /\ Place' = Place /\ Todo' = Todo
  BY DEF Active, Running, Place, Todo, Inside
<1>2. Now' = Now /\ Then' = Then
  BY <1>1 DEF Now, Then
<1>3. (Late' => Late) /\ (Taken' => Taken)
  BY <1>1 DEF Late, Taken
<1> QED
  BY <1>2, <1>3, StillClean

LEMMA SameShrinks == ASSUME UNCHANGED <<ring, wire>> PROVE Shrinks
BY WithinFollows, LinesShrink

(* At the first case of a script, and without one, only answers are due;   *)
(* and nothing is asked of them.                                           *)
LEMMA RestCalm == ASSUME Clean, ~Active PROVE Calm
<1>1. Now = End
  BY DEF Now
<1> QED
  BY <1>1, DosAreNotEnd, EndIsCalm DEF EchoChecks, Checks

LEMMA ZeroNow ==
  ASSUME AllZero, ~Inside
  PROVE  Now.do \in {"free", "end"}
<1>1. CASE Active
  <2>1. want \in Callbacks
    BY <1>1 DEF Active
  <2>2. Place = 0
    BY <2>1, LibraryType DEF Place, AllZero
  <2>3. Opens(Todo)
    BY <2>1, ScriptsType DEF Todo, Scripts
  <2> QED
    BY <1>1, <2>2, <2>3 DEF Now, Opens
<1>2. CASE ~Active
  BY <1>2, DosAreNotEnd DEF Now
<1> QED
  BY <1>1, <1>2

LEMMA ZeroClean ==
  ASSUME Calm, Shrinks, AllZero', ~Inside'
  PROVE  Clean'
<1>1. Calm'
  BY DEF Calm, Shrinks
<1>2. CASE ~Active'
  BY <1>1, <1>2, Idle, CalmClean
<1>3. CASE Active'
  <2>1. want' \in Callbacks
    BY <1>3 DEF Active
  <2>2. Place' = 0
    BY <2>1, LibraryType DEF Place, AllZero
  <2>3. Opens(Todo')
    BY <2>1, ScriptsType DEF Todo, Scripts
  <2>4. Now'.do = "free"
    BY <1>3, <2>2, <2>3 DEF Now, Opens
  <2>5. Mine'
    BY <2>2 DEF Mine, Late
  <2>6. Uploading'
    BY <2>4 DEF Uploading, Uploads
  <2> QED
    BY <1>1, <2>5, <2>6, CalmClean
<1> QED
  BY <1>2, <1>3

(***************************************************************************)
(* The steps of the modem, and those that look at nothing.                 *)
(***************************************************************************)
LEMMA ArriveShrinks == ASSUME TInv, Arrive PROVE Shrinks
<1> DEFINE h == Head(wire)
           w == Tail(wire)
<1>1. /\ wire \in Seq(Sent) /\ ring \in Seq(Heard) /\ wire # <<>>
      /\ ring' = Append(ring, h) /\ wire' = w
  BY DEF TInv, Lines, Arrive
<1>2. /\ Contains(wire, h) /\ Within(w, wire)
      /\ \A x : Contains(w, x) => Precedes(wire, h, x)
  BY <1>1, TailWithin
<1>3. h \in Heard
  BY <1>1, TailType, SentIsHeard
<1> HIDE DEF h, w
<1>4. /\ \A x : Contains(ring', x) => Contains(ring, x) \/ x = h
      /\ \A x, y : Precedes(ring', x, y) =>
                     Precedes(ring, x, y) \/ (Contains(ring, x) /\ y = h)
  BY <1>1, <1>3, AppendWithin
<1>5. ASSUME NEW t, Due(t)' PROVE Due(t)
  BY <1>1, <1>2, <1>4, <1>5 DEF Due, Within
<1>6. ASSUME NEW t, NEW u, Ahead(t, u)' PROVE Ahead(t, u)
  <2>1. Speaks(t) /\ Speaks(u)
    BY <1>6 DEF Ahead
  <2>2. CASE Precedes(ring', t, u)
    BY <1>2, <1>4, <2>1, <2>2 DEF Ahead
  <2>3. CASE Precedes(wire', t, u)
    BY <1>1, <1>2, <2>1, <2>3 DEF Ahead, Within
  <2>4. CASE Contains(ring', t) /\ Contains(wire', u)
    BY <1>1, <1>2, <1>4, <2>1, <2>4 DEF Ahead, Within
  <2> QED
    BY <1>6, <2>2, <2>3, <2>4 DEF Ahead
<1> QED
  BY <1>5, <1>6 DEF Shrinks

LEMMA UnaskedShrinks == ASSUME TInv, Unasked PROVE Shrinks
<1>1. PICK m \in Messages : ring' = Append(ring, m)
  BY DEF Unasked
<1>2. m \in Unsolicited /\ ring \in Seq(Heard) /\ UNCHANGED wire
  BY MessagesAssumption DEF TInv, Lines, Unasked
<1>3. ~Speaks(m) /\ m \in Heard
  <2>1. \A k, x : Line(k, x).kind = k
    BY DEF Line
  <2>2. /\ RING.kind = "notice" /\ BUSY.kind = "notice" /\ CMTI.kind = "notice"
        /\ CDS.kind = "notice" /\ CREG.kind = "notice"
        /\ KTCP_NOTIF.kind = "notice" /\ KTCP_DATA.kind = "notice"
    BY <2>1 DEF RING, BUSY, CMTI, CDS, CREG, KTCP_NOTIF, KTCP_DATA
  <2>3. /\ NO_CARRIER.kind = "alarm" /\ CMS_ERROR.kind = "alarm" /\ CME_ERROR.kind = "alarm"
        /\ KFTP_ERROR.kind = "flood" /\ Malformed.kind = "bad" /\ Junk.kind = "junk"
    BY <2>1 DEF NO_CARRIER, CMS_ERROR, CME_ERROR, KFTP_ERROR, Malformed, Junk
  <2>4. m.kind \in {"notice", "alarm", "flood", "bad", "junk"}
    BY <1>2, <2>2, <2>3 DEF Unsolicited
  <2> QED
    BY <1>2, <2>4 DEF Speaks, Heard
<1>4. Follows(ring', ring)
  BY <1>1, <1>2, <1>3, AppendWithin DEF Follows
<1> QED
  BY <1>2, <1>4, WithinFollows, LinesShrink

LEMMA UnsolShrinks == ASSUME TInv, Unsol PROVE Shrinks
<1>1. \/ Within(ring', ring)
      \/ ring' = <<>>
      \/ ring' = <<Crumb>>
  BY UnsolLeaves
<1>2. ~Speaks(Crumb)
  BY DEF Speaks, Crumb, Line
<1>3. Follows(ring', ring)
  BY <1>1, <1>2, ShortWithin DEF Follows, Within
<1>4. UNCHANGED wire
  BY DEF Unsol
<1> QED
  BY <1>3, <1>4, WithinFollows, LinesShrink

LEMMA SameOwn ==
  ASSUME Own, Shrinks, Dirty => Dirty',
         UNCHANGED <<ExecStat, Function, fly, want, smInternal, requests, gsm, at, foreign>>,
         gsm \in {"reset", "setup"} => UNCHANGED <<ring, wire>>
  PROVE  Own'
<1>1. Silent'
  BY DEF Own, Silent
<1>2. Counts'
  BY DEF Own, Counts, Inside, Lib, Cases
<1>3. ~Dirty' => Clean'
  BY SameClean DEF Own
<1> QED
  BY <1>1, <1>2, <1>3 DEF Own

LEMMA UnseenOwn == ASSUME TInv, Own, Unseen PROVE Own'
<1>1. CASE HiloInit
  <2>1. /\ ring' = <<>> /\ wire' = <<>> /\ gsm' = gsm /\ gsm \in {"reset", "setup"}
        /\ UNCHANGED foreign
    BY <1>1 DEF HiloInit, hidden
  <2>2. Clean'
    BY <2>1, HushedClean
  <2> QED
    BY <2>1, <2>2 DEF Own, Silent, Counts, Inside
<1>2. CASE findStr
  <2>1. /\ gsm \in {"reset", "setup"} /\ gsm' = gsm /\ UNCHANGED <<ring, wire, foreign>>
        /\ at # 0
    BY <1>2 DEF findStr, modem, hidden
  <2>2. ring' = <<>> /\ wire' = <<>>
    BY <2>1 DEF Own, Silent
  <2>3. Clean'
    BY <2>2, HushedClean
  <2> QED
    BY <2>1, <2>2, <2>3 DEF Own, Silent, Counts, Inside
<1>3. CASE ResetFails
  <2>1. gsm = "reset" /\ gsm' = gsm /\ at' = 0 /\ UNCHANGED foreign
    BY <1>3 DEF ResetFails, hidden
  <2> QED
    BY <2>1 DEF Own, Silent, Counts, Inside, Dirty
<1>4. CASE Arrive
  <2>1. /\ UNCHANGED <<ExecStat, Function, fly, want, smInternal, requests, gsm, at, foreign>>
        /\ UNCHANGED mainGSMStateMachine /\ gsm \notin {"reset", "setup"}
    BY <1>4 DEF Arrive, mainOp, front, task, hidden
  <2>2. Dirty => Dirty'
    BY <2>1 DEF Dirty
  <2> QED
    BY <1>4, <2>1, <2>2, ArriveShrinks, SameOwn
<1>5. CASE Unasked
  <2>1. /\ UNCHANGED <<ExecStat, Function, fly, want, smInternal, requests, gsm, at, foreign>>
        /\ UNCHANGED mainGSMStateMachine /\ gsm \notin {"reset", "setup"}
    BY <1>5 DEF Unasked, mainOp, front, task, hidden
  <2>2. Dirty => Dirty'
    BY <2>1 DEF Dirty
  <2> QED
    BY <1>5, <2>1, <2>2, UnaskedShrinks, SameOwn
<1>6. CASE Forget \/ UNCHANGED vars
  <2>1. /\ UNCHANGED <<ExecStat, Function, fly, want, smInternal, requests, gsm, at, foreign>>
        /\ UNCHANGED <<mainGSMStateMachine, ring, wire>>
    BY <1>6 DEF Forget, vars, mainOp, front, task, modem, hidden
  <2>2. Dirty => Dirty'
    BY <2>1 DEF Dirty
  <2> QED
    BY <2>1, <2>2, SameShrinks, SameOwn
<1> QED
  BY <1>1, <1>2, <1>3, <1>4, <1>5, <1>6 DEF Unseen

(***************************************************************************)
(* The steps of the front ends.                                            *)
(***************************************************************************)
LEMMA EnteredOwn ==
  ASSUME TInv, Orderly, Own, NEW f, Entered(f), ExecStat' = "EXECUTION", AllZero',
         Dirty => Dirty'
  PROVE  Own'
<1>1. /\ fly = "idle" /\ ~suspended /\ xSemFrontEnd = "free"
      /\ foreign' = FALSE /\ UNCHANGED <<gsm, at, ring, wire>>
  BY DEF Entered, modem
<1>2. ~Active /\ ~Inside /\ ~Inside' /\ gsm \notin {"reset", "setup"}
  BY <1>1, InsideRuns DEF Active, Running, Inside, TInv, IInv, Semaphore, InCallback,
     Suspension
<1>3. ~Dirty' => Clean'
  BY <1>1, <1>2, RestCalm, SameShrinks, ZeroClean DEF Own
<1> QED
  BY <1>1, <1>2, <1>3 DEF Own, Silent, Counts

LEMMA FrontOwn ==
  ASSUME TInv, Orderly, Own, FrontEnd
  PROVE  Own'
<1>1. fly = "idle" /\ gsm = gsm' /\ xSemFrontEnd = "free" /\ ~suspended
  BY FrontEndEffect DEF Enters, Lowers
<1>2. AllZero /\ ~Inside /\ ~Inside' /\ gsm \in {"loop", "check"}
  BY <1>1, Unoccupied DEF Running, Inside, TInv, TypeOK, IInv, Semaphore, InCallback,
     Suspension
<1>3. ASSUME NEW f, Asks(f) \/ Afresh(f) PROVE Own'
  <2>1. smInternal \in [Libraries -> Nat]
    BY DEF TInv, TypeOK
  <2>2. AllZero'
    BY <1>2, <1>3, <2>1 DEF Asks, Afresh, AllZero
  <2>3. Entered(f) /\ ExecStat' = "EXECUTION" /\ UNCHANGED mainGSMStateMachine
    BY <1>3 DEF Asks, Afresh, Asking
  <2>4. Dirty => Dirty'
    BY <1>1, <1>2, <2>3 DEF Dirty
  <2> QED
    BY <2>2, <2>3, <2>4, EnteredOwn
<1>4. CASE STDModeEnable
  <2>1. AllZero'
    BY <1>2, <1>4 DEF STDModeEnable, AllZero
  <2>2. /\ Entered("cSTDModeEnable") /\ ExecStat' = "EXECUTION"
        /\ mainGSMStateMachine' = IF mainGSMStateMachine = "LL_MODE" THEN "IDLE"
                                  ELSE mainGSMStateMachine
    BY <1>4 DEF STDModeEnable
  <2>3. fly' = "inside" /\ want' = "cSTDModeEnable"
    BY <2>2 DEF Entered
  <2>4. Dirty => Dirty'
    BY <1>1, <1>2, <2>2, <2>3 DEF Dirty
  <2> QED
    BY <2>1, <2>2, <2>4, EnteredOwn
<1>5. CASE LLModeEnable \/ LLWrite
  <2>1. /\ UNCHANGED <<fly, ring, wire, foreign>>
        /\ \/ mainGSMStateMachine' = "LL_MODE"
           \/ UNCHANGED mainGSMStateMachine
    BY <1>5 DEF LLModeEnable, LLWrite, LowLevel, modem, hidden
  <2>2. Dirty => Dirty'
    BY <1>1, <1>2, <2>1 DEF Dirty
  <2>3. ~Active /\ ~Active'
    BY <1>1, <2>1 DEF Active, Running
  <2>4. ~Dirty' => Clean'
    BY <2>1, <2>2, <2>3, RestCalm, SameShrinks, OverClean DEF Own
  <2> QED
    BY <1>1, <1>2, <2>1, <2>4 DEF Own, Silent, Counts
<1> QED
  BY <1>3, <1>4, <1>5, FrontEndShapes

(***************************************************************************)
(* The other steps of the two tasks.                                       *)
(***************************************************************************)
LEMMA UnsolOwn ==
  ASSUME TInv, Own, Unsol, UNCHANGED <<ExecStat, mainGSMStateMachine>>
  PROVE  Own'
<1>1. /\ gsm = "loop" /\ mainGSMStateMachine \in {"IDLE", "CMD_PENDING"} /\ gsm' = "check"
      /\ UNCHANGED <<smInternal, fly, want, requests, foreign>>
  BY DEF Unsol, front, hidden
<1>2. ~Inside /\ ~Inside' /\ (Dirty => Dirty')
  BY <1>1 DEF Inside, Dirty
<1>3. ~Dirty' => Clean'
  BY <1>1, <1>2, UnsolShrinks, OutsideClean DEF Own
<1> QED
  BY <1>1, <1>2, <1>3 DEF Own, Silent, Counts

LEMMA StartOwn ==
  ASSUME TInv, Own, StartCall
  PROVE  Own'
<1>1. /\ gsm = "check" /\ ExecStat = "EXECUTION" /\ xSemFrontEnd = "free"
      /\ Function \in Callbacks /\ gsm' = "call" /\ at' = smInternal[Lib]
      /\ UNCHANGED <<ExecStat, Function, smInternal, fly, want, requests, ring, wire, foreign>>
  BY DEF StartCall, Called, mainOp, front, modem
<1>2. Running
  BY <1>1 DEF Running, TInv, IInv, Executing, Semaphore, TypeOK
<1>3. Function = want /\ Lib = LibraryOf(want) /\ Lib \in Libraries
  BY <1>1, <1>2, LibraryType DEF TInv, Calling, Running, Lib
<1>4. smInternal[Lib] \in Nat
  BY <1>3 DEF TInv, TypeOK
<1>5. ~Dirty
  BY <1>1, <1>3, ModesAside DEF Dirty
<1>6. /\ Active' <=> Active
      /\ Place' = Place /\ Todo' = Todo
  BY <1>1, <1>3 DEF Active, Running, Place, Todo, Inside
<1>7. Now' = Now /\ Then' = Then
  BY <1>6 DEF Now, Then
<1>8. (Late' => Late) /\ (Taken' => Taken)
  BY <1>6 DEF Late, Taken
<1>9. Clean'
  BY <1>1, <1>5, <1>7, <1>8, SameShrinks, StillClean DEF Own
<1>10. Counts'
  <2>1. Lib' = Lib
    BY <1>1 DEF Lib
  <2>2. smInternal'[Lib'] = at' /\ at' \in Nat
    BY <1>1, <1>4, <2>1
  <2> QED
    BY <2>2 DEF Counts
<1> QED
  BY <1>1, <1>9, <1>10 DEF Own, Silent

LEMMA PlainOwn ==
  ASSUME TInv, Orderly, Signs, Tame, Own, Plain
  PROVE  Own'
<1>1. CASE Close \/ Nothing
  <2>1. /\ gsm \in {"closing", "check"} /\ gsm' = "loop"
        /\ UNCHANGED <<ExecStat, smInternal, fly, want, requests, ring, wire, foreign>>
        /\ gsm = "closing" \/ UNCHANGED mainGSMStateMachine
    BY <1>1 DEF Close, Nothing, mainOp, front, modem, hidden
  <2>2. gsm = "closing" => ExecStat = "SUCCESS"
    BY DEF Orderly, Sleeping
  <2>3. ~Inside /\ ~Inside' /\ (Dirty => Dirty')
    BY <2>1, <2>2 DEF Inside, Dirty
  <2>4. ~Dirty' => Clean'
    BY <2>1, <2>3, SameShrinks, OutsideClean DEF Own
  <2> QED
    BY <2>1, <2>3, <2>4 DEF Own, Silent, Counts
<1>2. CASE StartCall
  BY <1>2, StartOwn
<1>3. CASE RefuseCall
  <2>1. Function = "cTCPWrite" /\ notif /\ ExecStat = "EXECUTION" /\ gsm = "check"
        /\ xSemFrontEnd = "free"
    BY <1>3 DEF RefuseCall, Refused, Called
  <2>2. Running
    BY <2>1 DEF Running, TInv, IInv, Executing, Semaphore, TypeOK
  <2>3. "cTCPWrite" \in Asked
    BY <2>1, <2>2 DEF TInv, Calling, Running
  <2> QED
    BY <2>1, <2>3 DEF Signs, Tame
<1>4. CASE Hibernating
  <2>1. /\ gsm = "loop" /\ gsm' = gsm /\ mainGSMStateMachine = "HIBERNATE"
        /\ UNCHANGED <<smInternal, ring, wire, foreign>>
    BY <1>4 DEF Hibernating, task, modem, hidden
  <2>2. AllZero /\ AllZero' /\ ~Inside /\ ~Inside' /\ ~Dirty
    BY <2>1 DEF Orderly, Sleeping, AllZero, Inside, Dirty
  <2>3. Calm
    BY <2>2, ZeroNow, EndIsCalm DEF Own, EchoChecks, Checks
  <2>4. Clean'
    BY <2>1, <2>2, <2>3, SameShrinks, ZeroClean
  <2> QED
    BY <2>1, <2>2, <2>4 DEF Own, Silent, Counts
<1>5. CASE Suspend \/ StartSetup
  <2>1. gsm' \in {"reset", "setup"} /\ at' = 0 /\ UNCHANGED foreign
    BY <1>5 DEF Suspend, StartSetup, hidden
  <2> QED
    BY <2>1 DEF Own, Silent, Counts, Inside, Dirty
<1>6. CASE Resume \/ cSTDModeEnable
  <2>1. /\ gsm \in {"reset", "setup"} /\ gsm' \in {"loop", "setup"} /\ at # 0
        /\ UNCHANGED <<ring, wire, foreign>>
    BY <1>6 DEF Resume, cSTDModeEnable, HiloStdModeOn, SetupFails, SetupCommands, modem,
       hidden
  <2>2. ring' = <<>> /\ wire' = <<>>
    BY <2>1 DEF Own, Silent
  <2>3. Clean'
    BY <2>2, HushedClean
  <2> QED
    BY <2>1, <2>2, <2>3 DEF Own, Silent, Counts, Inside
<1>7. CASE cLLModeEnable \/ cLLWrite
  <2>1. gsm' = "loop" /\ mainGSMStateMachine' = "LL_MODE" /\ UNCHANGED foreign
    BY <1>7 DEF cLLModeEnable, cLLWrite, task, hidden
  <2> QED
    BY <2>1 DEF Own, Silent, Counts, Inside, Dirty
<1>8. CASE Submit
  <2>1. /\ fly = "inside" /\ fly' = "waiting"
        /\ UNCHANGED <<mainGSMStateMachine, ExecStat, smInternal, gsm, at, want, ring, wire,
                       foreign>>
    BY <1>8 DEF Submit, modem, hidden
  <2>2. ~Active /\ AllZero /\ ~Inside
    BY <2>1, Unoccupied DEF Active, Running
  <2>3. AllZero' /\ ~Inside' /\ (Dirty => Dirty')
    BY <2>1, <2>2 DEF AllZero, Inside, Dirty
  <2>4. ~Dirty' => Clean'
    BY <2>1, <2>2, <2>3, RestCalm, SameShrinks, ZeroClean DEF Own
  <2> QED
    BY <2>1, <2>3, <2>4 DEF Own, Silent, Counts
<1>9. CASE Return
  <2>1. /\ fly = "waiting" /\ fly' = "idle" /\ ExecStat # "EXECUTION"
        /\ UNCHANGED <<mainGSMStateMachine, ExecStat, Function, smInternal, gsm, at, want,
                       ring, wire, foreign>>
    BY <1>9 DEF Return, task, mainOp, modem, hidden
  <2>2. ~Active /\ ~Active' /\ ~Inside
    BY <2>1, Unoccupied DEF Active, Running
  <2>3. ~Inside' /\ (Dirty => Dirty')
    BY <2>1, <2>2 DEF Inside, Dirty
  <2>4. ~Dirty' => Clean'
    BY <2>1, <2>2, <2>3, RestCalm, SameShrinks, OverClean DEF Own
  <2> QED
    BY <2>1, <2>3, <2>4 DEF Own, Silent, Counts
<1>10. CASE RequestReset
  <2>1. /\ fly = "idle" /\ mainGSMStateMachine' = "HW_FAULT"
        /\ UNCHANGED <<ExecStat, Function, fly, want, smInternal, requests, gsm, at,
                       foreign, ring, wire>>
    BY <1>10 DEF RequestReset, mainOp, front, task, modem, hidden
  <2>2. Dirty => Dirty'
    BY <2>1 DEF Dirty
  <2> QED
    BY <2>1, <2>2, SameShrinks, SameOwn
<1> QED
  BY <1>1, <1>2, <1>3, <1>4, <1>5, <1>6, <1>7, <1>8, <1>9, <1>10 DEF Plain

(***************************************************************************)
(* The invariant of the answers.                                           *)
(***************************************************************************)
LEMMA NextOInv ==
  ASSUME "cSMSSend" \notin Asked, TInv, CInv, OInv, [Next]_vars
  PROVE  OInv'
<1>1. Signs'
  BY NextSigns DEF OInv
<1>2. ASSUME Tame' PROVE Own'
  <2>1. Tame
    BY <1>2, SeenGrows DEF Tame
  <2>2. "bad" \notin seen /\ Own /\ Signs
    BY <2>1 DEF Tame, OInv
  <2>3. Orderly
    BY <2>2 DEF CInv
  <2>4. CASE Unsol
    BY <2>2, <2>4, PoliteUnsol, UnsolOwn
  <2> QED
    BY <2>1, <2>2, <2>3, <2>4, StepShapes, CallOwn, FrontOwn, UnseenOwn, PlainOwn
<1> QED
  BY <1>1, <1>2 DEF OInv

LEMMA InitOInv == Init => OInv
<1> SUFFICES ASSUME Init PROVE OInv
  OBVIOUS
<1>1. /\ ring = <<>> /\ wire = <<>> /\ notif = FALSE /\ foreign = FALSE /\ gsm = "loop"
      /\ fly = "idle"
  BY DEF Init
<1>2. Signs
  BY <1>1, ShortWithin DEF Signs
<1>3. \A t : ~Due(t)
  BY <1>1, ShortWithin DEF Due
<1>4. Clean
  <2>1. ~Active
    BY <1>1 DEF Active, Running
  <2>2. \A t, u : ~Ahead(t, u)
    BY <1>1, ShortWithin DEF Ahead
  <2> QED
    BY <1>3, <2>1, <2>2 DEF Clean, Echoed, Erred, Pairs, Mine, Uploading, Refusing
<1> QED
  BY <1>1, <1>2, <1>4 DEF OInv, Own, Silent, Counts, Inside

(* Every line a successful command took for its answer was the answer to   *)
(* it, unless an unsolicited error or a notification ended a command early *)
(* (echoFind, getAnswer and CheckErr of Hilo.c, and the restart of the     *)
(* modem after a timeout); the gateway never asks for cSMSSend.            *)
THEOREM OwnAnswers ==
  ASSUME "cSMSSend" \notin Asked
  PROVE  Spec => []SuccessIsOwn
<1>1. Init => OInv
  BY InitOInv
<1>2. TInv /\ CInv /\ OInv /\ [Next]_vars => OInv'
  BY NextOInv
<1>3. OInv => SuccessIsOwn
  BY DEF OInv, Own, Tame, SuccessIsOwn
<1> QED
  BY <1>1, <1>2, <1>3, TypedInvariant, CountingInvariant, PTL DEF Spec
==============================================================================
