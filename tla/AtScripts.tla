------------------------------ MODULE AtScripts ------------------------------
(***************************************************************************)
(* The modem services of the Flyport libraries (gprs/Libs/Flyport libs) as *)
(* data.  Every callback cXxx is one switch over the static smInternal of  *)
(* its file, whose cases fall through: write a command, check its echo,    *)
(* check each line of its answer.  A script is the sequence of its cases,  *)
(* case 0 first; GsmCommand executes them.  The parameters of the commands *)
(* and the delays between the cases are left out.                          *)
(***************************************************************************)
EXTENDS Naturals, Sequences, SequencesExt

(* won and lost are what a case does to the handle of the socket when its  *)
(* check succeeds and when it does not, "keep" for nothing.                *)
Case(do, text) == [do |-> do, text |-> text, won |-> "keep", lost |-> "keep"]

Free      == Case("free", "")      \* the ring has to be empty
Send(c)   == Case("send", c)       \* write command c
Echo      == Case("echo", "")      \* CheckEcho of the command written last
EchoSized == Case("sized", "")     \* ... skipping strlen(sizeStr) more bytes
Reply(a)  == Case("reply", a)      \* CheckCmd of answer a
Parse(a)  == Case("parse", a)      \* ... getfield on it may break the switch
Take(a)   == Case("take", a)       \* ... then data, awaited; CheckErr again
Blind(a)  == Case("blind", a)      \* ... then data, read but not awaited
Upload(a) == Case("upload", a)     \* ... then the data is written
Prompt    == Case("prompt", ">")   \* looked for once, neither timed nor failed
Skip      == Case("skip", "")      \* smInternal++ and no more
IfAny(c)  == Case("ifany", c)      \* no data in the socket ends the call
Again(a)  == Case("again", a)      \* CheckCmd, then start over at case 1
Unread(a) == Case("unread", a)     \* the modem's line no case reads

Wins(c, h)   == [c EXCEPT !.won = h]
Loses(c, h)  == [c EXCEPT !.lost = h]

(* One command of one line that is answered with OK.                       *)
Ask(c) == <<Send(c), Echo, Reply("OK")>>

(***************************************************************************)
(* TCPlib.c.  A failed connect gives the handle up, and so does one whose  *)
(* answer has not come yet when another line is read first.                *)
(***************************************************************************)
cTCPClientOpen ==
  <<Free, Send("KTCPCFG"), Echo, Wins(Parse("KTCPCFG"), "open"), Reply("OK"),
    Send("KTCPCNX"), Loses(Echo, "invalid"), Loses(Reply("OK"), "invalid")>>

cTCPClientClose ==
  <<Free>> \o Ask("KTCPCLOSE")
    \o <<Send("KTCPDEL"), Echo, Wins(Reply("OK"), "invalid")>>

TcpStatus ==
  <<Free, Send("KTCPSTAT"), Echo, Parse("KTCPSTAT"), Reply("OK")>>

cTCPRead ==
  TcpStatus \o <<IfAny("KTCPRCV"), Echo, Take("CONNECT"), Reply("EOF")>>

cTCPWrite  == <<Free, Send("KTCPSND"), Echo, Upload("CONNECT"), Reply("OK")>>
cTCPStatus == TcpStatus

DropBlock   == <<IfAny("KTCPRCV"), Echo, Blind("CONNECT"), Again("EOF")>>
cTCPRxFlush == TcpStatus \o DropBlock

(* HILOlib.c and DATAlib.c.                                                *)
cGSMHibernate == <<Free>> \o Ask("PSCPOF")
cGSMSignal    == <<Free, Send("CSQ"), Echo, Parse("CSQ"), Reply("OK")>>
cAPNConfig    == <<Free>> \o Ask("KCNXCFG")

(* FTPlib.c.  The end of a received file is never read.                    *)
cFTPConfig  == <<Free, Send("KFTPCFG"), Echo, Parse("KFTPCFG"), Reply("OK")>>
cFTPReceive ==
  <<Free, Send("KFTPRCV"), Echo, Take("CONNECT"), Unread("EOF")>>
FTPStore   == <<Free>> \o Ask("KFTPSND")
cFTPSend   == FTPStore \o <<Parse("KFTP_SND_DONE")>> \o Ask("KFTPCLOSE")
cFTPDelete  == <<Free>> \o Ask("KFTPDEL") \o Ask("KFTPCLOSE")

(* HTTPlib.c: the cases after 8 are cut off by its break.                  *)
HTTPUpload   == <<Free, Send("KTCPSND"), Echo, Upload("CONNECT"), Reply("OK")>>
cHTTPRequest ==
  HTTPUpload \o <<Send("KTCPSTAT"), Echo, Reply("KTCPSTAT"), Reply("OK")>>

(* SMSlib.c.                                                               *)
SMSAddress == <<Free>> \o Ask("CSMP") \o <<Send("CMGS"), Echo>>
cSMSSend   ==
  SMSAddress \o <<Prompt, Send("text"), Echo, Parse("CMGS"), Reply("OK")>>

SMSMemory  == <<Free, Send("CPMS"), Echo, Reply("CPMS"), Reply("OK")>>
SMSFetch   == <<Send("CMGR"), Echo, Parse("CMGR"), Reply("OK")>>
cSMSRead   == SMSMemory \o Ask("CSCS") \o SMSFetch \o Ask("CSCS")
cSMSDelete == SMSMemory \o Ask("CMGD")

(* SMTPlib.c.                                                              *)
SMTPAttach     == <<Free>> \o Ask("&K3") \o Ask("KCNXTIMER") \o Ask("CGATT")
cSMTPParamsSet ==
  SMTPAttach \o <<Send("KSMTPPARAM"), Echo, Skip, Reply("OK"),
                  Send("KSMTPPWD"), Echo, Skip, Reply("OK")>>

cSMTPEmailTo     == <<Free>> \o Ask("KSMTPTO")
SMTPSubject      == <<Free>> \o Ask("KSMTPSUBJECT")
cSMTPEmailSend   ==
  SMTPSubject \o <<Send("KSMTPUL"), Echo, Parse("KSMTPUL"), Upload("CONNECT"),
                   Reply("OK")>>
cSMTPParamsClear == <<Free>> \o Ask("KSMTPCLEAR")

(* FSlib.c.  The length to skip is a local that only case 1 computes.      *)
cFSWrite  == <<Free, Send("KFSFILE"), EchoSized, Upload("CONNECT"), Reply("OK")>>
cFSRead   == <<Free, Send("KFSFILE"), EchoSized, Blind("CONNECT"), Reply("OK")>>
cFSDelete == <<Free>> \o Ask("KFSFILE")
cFSSize   == <<Free, Send("KFSFILE"), Echo, Parse("KFSFILE"), Reply("OK")>>
cFSAppend == <<Free, Send("KFSFILE"), EchoSized, Upload("CONNECT"), Reply("OK")>>

(* CALLlib.c.                                                              *)
cCALLHangUp     == <<Free>> \o Ask("ATH")
cCALLVoiceStart == <<Free>> \o Ask("ATD")

(* FP_GSM, the table of the callbacks, and the file of each.               *)
Script ==
  [cTCPClientOpen |-> cTCPClientOpen, cTCPClientClose |-> cTCPClientClose,
   cTCPRead |-> cTCPRead, cTCPWrite |-> cTCPWrite, cTCPStatus |-> cTCPStatus,
   cTCPRxFlush |-> cTCPRxFlush, cGSMHibernate |-> cGSMHibernate,
   cGSMSignal |-> cGSMSignal, cAPNConfig |-> cAPNConfig,
   cFTPConfig |-> cFTPConfig, cFTPReceive |-> cFTPReceive,
   cFTPSend |-> cFTPSend, cFTPDelete |-> cFTPDelete,
   cHTTPRequest |-> cHTTPRequest, cSMSSend |-> cSMSSend,
   cSMSRead |-> cSMSRead, cSMSDelete |-> cSMSDelete,
   cSMTPParamsSet |-> cSMTPParamsSet, cSMTPEmailTo |-> cSMTPEmailTo,
   cSMTPEmailSend |-> cSMTPEmailSend, cSMTPParamsClear |-> cSMTPParamsClear,
   cFSWrite |-> cFSWrite, cFSRead |-> cFSRead, cFSDelete |-> cFSDelete,
   cFSSize |-> cFSSize, cFSAppend |-> cFSAppend,
   cCALLHangUp |-> cCALLHangUp, cCALLVoiceStart |-> cCALLVoiceStart]

Callbacks == DOMAIN Script

Library ==
  [TCPlib |-> {"cTCPClientOpen", "cTCPClientClose", "cTCPRead", "cTCPWrite",
               "cTCPStatus", "cTCPRxFlush"},
   HILOlib |-> {"cGSMHibernate", "cGSMSignal"},
   DATAlib |-> {"cAPNConfig"},
   FTPlib |-> {"cFTPConfig", "cFTPReceive", "cFTPSend", "cFTPDelete"},
   HTTPlib |-> {"cHTTPRequest"},
   SMSlib |-> {"cSMSSend", "cSMSRead", "cSMSDelete"},
   SMTPlib |-> {"cSMTPParamsSet", "cSMTPEmailTo", "cSMTPEmailSend",
                "cSMTPParamsClear"},
   FSlib |-> {"cFSWrite", "cFSRead", "cFSDelete", "cFSSize", "cFSAppend"},
   CALLlib |-> {"cCALLHangUp", "cCALLVoiceStart"}]

Libraries  == DOMAIN Library
LibraryOf(f) == CHOOSE l \in Libraries : f \in Library[l]

(* The lines the modem sends for the command of the case at index n of a   *)
(* script: those the cases up to the next write wait for.                  *)
Writes(c) == c.do \in {"send", "ifany"}

Answers(c) ==
  CASE c.do \in {"echo", "sized"} -> <<[kind |-> "echo", text |-> c.text]>>
    [] c.do \in {"take", "blind"} -> <<[kind |-> "answer", text |-> c.text],
                                       [kind |-> "data", text |-> c.text]>>
    [] c.do \in {"reply", "parse", "upload", "prompt", "again", "unread"} ->
         <<[kind |-> "answer", text |-> c.text]>>
    [] OTHER -> <<>>

AnswersFrom(s, n) ==
  LET last == {k \in n .. Len(s) : s[k].do = "upload" \/ k = Len(s)
                                    \/ Writes(s[k + 1])}
      end  == CHOOSE k \in last : \A l \in last : k <= l
  IN  IF last = {} THEN <<>>
      ELSE FlattenSeq([k \in 1 .. end - n + 1 |-> Answers(s[n + k - 1])])
==============================================================================
