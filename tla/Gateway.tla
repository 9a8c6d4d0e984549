------------------------------- MODULE Gateway -------------------------------
(***************************************************************************)
(* The two tasks of the gateway and what they share                        *)
(* (project/gmgw/taskFlyport.c, taskModbus.c).  FlyportTask keeps the MQTT *)
(* connection, hands the server's commands to TaskModbus through           *)
(* xQueueModbus and publishes what comes back through xQueueMqtt; both     *)
(* queues have one place.  TaskModbus runs the commands and polls the      *)
(* slaves of the configuration, which FlyportTask rewrites with TaskModbus *)
(* suspended wherever it happens to be.                                    *)
(*                                                                         *)
(* The tasks have one priority and are time-sliced: their steps interleave *)
(* freely.  A Modbus transaction is one wait with an outcome, a call into  *)
(* the MQTT client one step that reaches the server while the TCP          *)
(* connection lives.  The advertisement, the signal query, the LEDs and    *)
(* the inside of a firmware download are left out.                         *)
(***************************************************************************)
EXTENDS Naturals, Sequences, SequencesExt

CONSTANTS
  Inis,         \* the configuration files the server sends
  MAX_NUM_POLL_TASKS,
  MaxCmds,      \* bound on the commands of the server
  MaxConfigs,   \* bound on its configurations and upgrades
  MaxDrops,     \* bound on lost connections and failed attempts
  MaxRestarts,  \* bound on the restarts of the gateway
  ForeignFrames \* another slave's frame may be taken for the answer

(* A file gives the number of slaves of its line sid (0 without one) and   *)
(* the feeds of its [poll] sections, each with the registers behind it; it *)
(* may hold a line that is refused.                                        *)
Polls == [fid : Nat, reg : Nat]
Files == [nSlaves : Nat, polls : Seq(Polls), valid : BOOLEAN]

ASSUME GatewayAssumption ==
  /\ {MaxCmds, MaxConfigs, MaxDrops, MaxRestarts} \subseteq Nat
  /\ MAX_NUM_POLL_TASKS \in Nat /\ ForeignFrames \in BOOLEAN
  /\ Inis \subseteq Files

VARIABLES
  fly,          \* where FlyportTask is
  held,         \* the command or message it works on
  ini,          \* the configuration file it is applying
  connected, init, config,
  hModbusTask,  \* "ready" or "suspended"
  task,         \* where TaskModbus is
  cmd,          \* the command in ucMBBuf
  ucRcvFrame,   \* the pointer has been set by a command that succeeded
  i, j,         \* the loop indices of do_poll
  asked,        \* registers of the poll under way
  xQueueModbus, xQueueMqtt,
  link,         \* the TCP connection to the server lives
  arrived, answered,        \* commands received; the one answered last
  configs, drops, restarts  \* what the bounds count

flyport == <<fly, held, ini>>
shared  == <<connected, init, config, hModbusTask>>
modbus  == <<task, cmd, ucRcvFrame, i, j, asked>>
queues  == <<xQueueModbus, xQueueMqtt>>
server  == <<link, arrived, answered>>
bounds  == <<configs, drops, restarts>>
vars    == <<flyport, shared, modbus, queues, server, bounds>>

NoMsg      == [type |-> "none"]
Cmd(c)     == [type |-> "cmd", seqno |-> c]
Rsp(c)     == [type |-> "rsp", seqno |-> c]
Feed(f, r) == [type |-> "feed", fid |-> f, reg |-> r]
NoPoll     == [fid |-> 0, reg |-> 0]
NoFile     == [nSlaves |-> 0, polls |-> <<>>, valid |-> TRUE]

NoConfig   == [nSlaves |-> 0, nTasks |-> 0,
               pollTask |-> [k \in 1 .. MAX_NUM_POLL_TASKS |-> NoPoll]]

Init ==
  /\ fly = "top" /\ held = NoMsg /\ ini = NoFile
  /\ connected = FALSE /\ init = FALSE /\ config = NoConfig
  /\ hModbusTask = "ready"
  /\ task = "receive" /\ cmd = 0 /\ ucRcvFrame = FALSE
  /\ i = 0 /\ j = 0 /\ asked = 0
  /\ xQueueModbus = <<>> /\ xQueueMqtt = <<>>
  /\ link = FALSE
  /\ arrived = 0 /\ answered = 0 /\ configs = 0 /\ drops = 0 /\ restarts = 0

(* The RAM is that of a gateway that has just started.                     *)
Restart ==
  /\ restarts < MaxRestarts
  /\ fly' = "top" /\ held' = NoMsg /\ ini' = NoFile
  /\ connected' = FALSE /\ init' = FALSE /\ config' = NoConfig
  /\ hModbusTask' = "ready"
  /\ task' = "receive" /\ cmd' = 0 /\ ucRcvFrame' = FALSE
  /\ i' = 0 /\ j' = 0 /\ asked' = 0
  /\ xQueueModbus' = <<>> /\ xQueueMqtt' = <<>>
  /\ link' = FALSE /\ restarts' = restarts + 1
  /\ UNCHANGED <<arrived, answered, configs, drops>>

(***************************************************************************)
(* FlyportTask.                                                            *)
(***************************************************************************)
Fly(from, to) == fly = from /\ fly' = to

Top ==
  \/ /\ ~connected /\ Fly("top", "connect")
     /\ init' = FALSE
     /\ UNCHANGED <<held, ini, connected, config, hModbusTask, modbus, queues,
                    server, bounds>>
  \/ /\ connected /\ Fly("top", "drain")
     /\ UNCHANGED <<held, ini, shared, modbus, queues, server, bounds>>

Connect ==
  /\ Fly("connect", "drain")
  /\ link' = TRUE /\ connected' = TRUE
  /\ UNCHANGED <<held, ini, init, config, hModbusTask, modbus, queues, arrived,
                 answered, bounds>>

ConnectFails ==
  /\ drops < MaxDrops /\ Fly("connect", "top")
  /\ drops' = drops + 1
  /\ UNCHANGED <<held, ini, shared, modbus, queues, server, configs, restarts>>

(* xQueueReceive without waiting.                                          *)
Drain ==
  \/ /\ xQueueMqtt # <<>> /\ Fly("drain", "publish")
     /\ held' = Head(xQueueMqtt) /\ xQueueMqtt' = Tail(xQueueMqtt)
     /\ UNCHANGED <<ini, shared, modbus, xQueueModbus, server, bounds>>
  \/ /\ xQueueMqtt = <<>> /\ Fly("drain", "loop")
     /\ UNCHANGED <<held, ini, shared, modbus, queues, server, bounds>>

(* The result of the publication is ignored: on a dead connection the      *)
(* message is gone.                                                        *)
Publish ==
  /\ Fly("publish", "loop")
  /\ held' = NoMsg
  /\ answered' = IF link /\ held.type = "rsp" THEN held.seqno ELSE answered
  /\ UNCHANGED <<ini, shared, modbus, queues, link, arrived, bounds>>

(* MQTTClient_loop: the connection is found dead, nothing came, or the     *)
(* callback is called with a command, a configuration or an upgrade.       *)
LoopEnds ==
  /\ Fly("loop", "top")
  /\ connected' = link
  /\ UNCHANGED <<held, ini, init, config, hModbusTask, modbus, queues, server,
                 bounds>>

CommandComes ==
  /\ link /\ arrived < MaxCmds /\ Fly("loop", "cmdsend")
  /\ arrived' = arrived + 1 /\ held' = Cmd(arrived + 1)
  /\ UNCHANGED <<ini, shared, modbus, queues, link, answered, bounds>>

ConfigComes ==
  /\ link /\ configs < MaxConfigs /\ Fly("loop", "config")
  /\ ini' \in Inis
  /\ hModbusTask' = "suspended" /\ configs' = configs + 1
  /\ UNCHANGED <<held, connected, init, config, modbus, queues, server, drops,
                 restarts>>

UpgradeComes ==
  /\ link /\ configs < MaxConfigs /\ Fly("loop", "upgrade")
  /\ hModbusTask' = "suspended" /\ configs' = configs + 1
  /\ UNCHANGED <<held, ini, connected, init, config, modbus, queues, server,
                 drops, restarts>>

(* xQueueSend waits 2000 ticks for a free place, then gives up.            *)
Queue ==
  /\ Fly("cmdsend", "top") /\ xQueueModbus = <<>>
  /\ xQueueModbus' = <<held>> /\ held' = NoMsg
  /\ UNCHANGED <<ini, shared, modbus, xQueueMqtt, server, bounds>>

(* Mutant: the send to xQueueModbus is tried again until it succeeds.      *)
QueueRetries ==
  /\ Fly("cmdsend", "cmdsend") /\ xQueueModbus # <<>>
  /\ UNCHANGED <<held, ini, shared, modbus, queues, server, bounds>>

QueueTimeout ==
  /\ Fly("cmdsend", "top") /\ xQueueModbus # <<>>
  /\ held' = NoMsg
  /\ UNCHANGED <<ini, shared, modbus, queues, server, bounds>>

(* do_config: the file is applied line by line to the configuration in     *)
(* force; ini_parse never returns a negative number, so the rest follows   *)
(* whatever it found.                                                      *)
Parse ==
  /\ Fly("config", "mbinit")
  /\ init' = FALSE
  /\ config' =
       [nSlaves  |-> IF ini.nSlaves = 0 THEN config.nSlaves ELSE ini.nSlaves,
        nTasks   |-> IF Len(ini.polls) > MAX_NUM_POLL_TASKS
                     THEN MAX_NUM_POLL_TASKS ELSE Len(ini.polls),
        pollTask |-> [k \in 1 .. MAX_NUM_POLL_TASKS |->
                        IF k <= Len(ini.polls) THEN ini.polls[k]
                                               ELSE config.pollTask[k]]]
  /\ UNCHANGED <<held, ini, connected, hModbusTask, modbus, queues, server,
                 bounds>>

(* eMBInit and eMBEnable, either of which may refuse.                      *)
StartModbus ==
  /\ Fly("mbinit", "cfgrsp")
  /\ init' \in BOOLEAN
  /\ UNCHANGED <<held, ini, connected, config, hModbusTask, modbus, queues,
                 server, bounds>>

(* Mutant: an upgrade that fails early leaves TaskModbus suspended.        *)
ResumeForgets ==
  /\ Fly("cfgrsp", "top") \/ Fly("upgrade", "top")
  /\ hModbusTask' = IF fly = "upgrade" THEN hModbusTask ELSE "ready"
  /\ UNCHANGED <<held, ini, connected, init, config, modbus, queues, server,
                 bounds>>

Resume ==
  /\ Fly("cfgrsp", "top") \/ Fly("upgrade", "top")
  /\ hModbusTask' = "ready"
  /\ UNCHANGED <<held, ini, connected, init, config, modbus, queues, server,
                 bounds>>

(* do_upgrade resets the chip whatever became of the download.             *)
UpgradeResets == fly = "upgrade" /\ Restart

----------------------------------------------------------------------------
(***************************************************************************)
(* TaskModbus.                                                             *)
(***************************************************************************)
Modbus(from, to) ==
  hModbusTask = "ready" /\ task = from /\ task' = to

(* Mutant: xQueuePeek, the command stays in the queue.                     *)
ReceivePeeks ==
  \/ /\ xQueueModbus # <<>> /\ Modbus("receive", "check")
     /\ cmd' = Head(xQueueModbus).seqno
     /\ UNCHANGED <<flyport, shared, ucRcvFrame, i, j, asked, queues, server,
                    bounds>>
  \/ /\ xQueueModbus = <<>> /\ Modbus("receive", "pollcheck")
     /\ UNCHANGED <<flyport, shared, cmd, ucRcvFrame, i, j, asked, queues,
                    server, bounds>>

Receive ==
  \/ /\ xQueueModbus # <<>> /\ Modbus("receive", "check")
     /\ cmd' = Head(xQueueModbus).seqno /\ xQueueModbus' = Tail(xQueueModbus)
     /\ UNCHANGED <<flyport, shared, ucRcvFrame, i, j, asked, xQueueMqtt,
                    server, bounds>>
  \/ /\ xQueueModbus = <<>> /\ Modbus("receive", "pollcheck")
     /\ UNCHANGED <<flyport, shared, cmd, ucRcvFrame, i, j, asked, queues,
                    server, bounds>>

(* A command for a gateway that is not configured is dropped.              *)
Check ==
  /\ Modbus("check", IF init THEN "command" ELSE "pollcheck")
  /\ UNCHANGED <<flyport, shared, cmd, ucRcvFrame, i, j, asked, queues, server,
                 bounds>>

(* eMBMSendData.  Only a success sets the pointer through which the        *)
(* response is built.                                                      *)
CommandSucceeds ==
  /\ Modbus("command", "reply") /\ ucRcvFrame' = TRUE
  /\ UNCHANGED <<flyport, shared, cmd, i, j, asked, queues, server, bounds>>

CommandFails ==
  /\ Modbus("command", "reply")
  /\ UNCHANGED <<flyport, shared, cmd, ucRcvFrame, i, j, asked, queues, server,
                 bounds>>

(* A pointer never set is undefined behaviour: it was harmless in          *)
(* CommandFails, here it is an address the chip traps.  A frame of another *)
(* slave sets it to an odd address, which always traps.                    *)
Trap ==
  /\ hModbusTask = "ready" /\ task = "command"
  /\ ~ucRcvFrame \/ ForeignFrames
  /\ Restart

(* xQueueSend(xQueueMqtt, .., portMAX_DELAY).                              *)
Send(m) == xQueueMqtt = <<>> /\ xQueueMqtt' = <<m>>

Reply ==
  /\ Modbus("reply", "pollcheck")
  /\ Send(Rsp(cmd))
  /\ UNCHANGED <<flyport, shared, cmd, ucRcvFrame, i, j, asked, xQueueModbus,
                 server, bounds>>

PollCheck ==
  /\ Modbus("pollcheck", IF init THEN "poll" ELSE "receive")
  /\ i' = 0
  /\ UNCHANGED <<flyport, shared, cmd, ucRcvFrame, j, asked, queues, server,
                 bounds>>

(* Mutant: the loop runs to nTasks inclusive.                              *)
DueOffByOne ==
  /\ i <= config.nTasks /\ Modbus("poll", "slave")
  /\ j' = 0
  /\ UNCHANGED <<flyport, shared, cmd, ucRcvFrame, i, asked, queues, server,
                 bounds>>

(* do_poll: a task that is due goes through the slaves, another is passed. *)
Due ==
  /\ i < config.nTasks /\ Modbus("poll", "slave")
  /\ j' = 0
  /\ UNCHANGED <<flyport, shared, cmd, ucRcvFrame, i, asked, queues, server,
                 bounds>>

NotDue ==
  /\ i < config.nTasks /\ Modbus("poll", "poll")
  /\ i' = i + 1
  /\ UNCHANGED <<flyport, shared, cmd, ucRcvFrame, j, asked, queues, server,
                 bounds>>

PollEnds ==
  /\ i >= config.nTasks /\ Modbus("poll", "receive")
  /\ UNCHANGED <<flyport, shared, cmd, ucRcvFrame, i, j, asked, queues, server,
                 bounds>>

(* The arguments of eMBMReadRegisters are read before the transaction.     *)
PollSlave ==
  /\ j < config.nSlaves /\ Modbus("slave", "wait")
  /\ asked' = config.pollTask[i + 1].reg
  /\ UNCHANGED <<flyport, shared, cmd, ucRcvFrame, i, j, queues, server,
                 bounds>>

SlavesEnd ==
  /\ j >= config.nSlaves /\ Modbus("slave", "poll")
  /\ i' = i + 1
  /\ UNCHANGED <<flyport, shared, cmd, ucRcvFrame, j, asked, queues, server,
                 bounds>>

PollFails ==
  /\ Modbus("wait", "slave")
  /\ j' = j + 1
  /\ UNCHANGED <<flyport, shared, cmd, ucRcvFrame, i, asked, queues, server,
                 bounds>>

(* The feed is looked up after the transaction.                            *)
PollSucceeds ==
  /\ Modbus("wait", "feed")
  /\ cmd' = config.pollTask[i + 1].fid
  /\ UNCHANGED <<flyport, shared, ucRcvFrame, i, j, asked, queues, server,
                 bounds>>

SendFeed ==
  /\ Modbus("feed", "slave")
  /\ Send(Feed(cmd, asked))
  /\ j' = j + 1
  /\ UNCHANGED <<flyport, shared, cmd, ucRcvFrame, i, asked, xQueueModbus,
                 server, bounds>>

----------------------------------------------------------------------------
LinkDown ==
  /\ link /\ drops < MaxDrops
  /\ link' = FALSE /\ drops' = drops + 1
  /\ UNCHANGED <<flyport, shared, modbus, queues, arrived, answered, configs,
                 restarts>>

FlyportTask ==
  \/ Top \/ Connect \/ ConnectFails \/ Drain \/ Publish \/ LoopEnds
  \/ CommandComes \/ ConfigComes \/ UpgradeComes \/ Queue \/ QueueTimeout
  \/ Parse \/ StartModbus \/ Resume \/ UpgradeResets

TaskModbus ==
  \/ Receive \/ Check \/ CommandSucceeds \/ CommandFails \/ Trap \/ Reply
  \/ PollCheck \/ Due \/ NotDue \/ PollEnds \/ PollSlave \/ SlavesEnd
  \/ PollFails \/ PollSucceeds \/ SendFeed

Next == FlyportTask \/ TaskModbus \/ LinkDown

(* Both tasks have the same priority and the scheduler is preemptive: each *)
(* that can take a step takes one in the end.                              *)
Spec     == Init /\ [][Next]_vars
FairSpec == Spec /\ WF_vars(FlyportTask) /\ WF_vars(TaskModbus)

(***************************************************************************)
(* Properties.                                                             *)
(***************************************************************************)
Messages ==
  {NoMsg} \cup [type : {"cmd", "rsp"}, seqno : Nat]
          \cup [type : {"feed"}, fid : Nat, reg : Nat]

FlagsOK == {connected, init, ucRcvFrame, link} \subseteq BOOLEAN

(* Every variable has its type, and the poll loop never indexes the table  *)
(* of poll tasks past its end, even when the configuration shrinks while   *)
(* TaskModbus is inside the loop (taskModbus.c:56-63).                     *)
TypeOK ==
  /\ FlagsOK
  /\ fly \in {"top", "connect", "drain", "publish", "loop", "cmdsend",
              "config", "mbinit", "cfgrsp", "upgrade"}
  /\ held \in Messages /\ ini \in Files
  /\ config \in [nSlaves : Nat, nTasks : 0 .. MAX_NUM_POLL_TASKS,
                 pollTask : [1 .. MAX_NUM_POLL_TASKS -> Polls]]
  /\ hModbusTask \in {"ready", "suspended"}
  /\ task \in {"receive", "check", "command", "reply", "pollcheck", "poll",
               "slave", "wait", "feed"}
  /\ cmd \in Nat /\ i \in Nat /\ j \in Nat /\ asked \in Nat
  /\ task \in {"slave", "wait", "feed"} => i < MAX_NUM_POLL_TASKS
  /\ xQueueModbus \in Seq(Messages) /\ Len(xQueueModbus) <= 1
  /\ xQueueMqtt \in Seq(Messages) /\ Len(xQueueMqtt) <= 1
  /\ {arrived, answered, configs, drops, restarts} \subseteq Nat

(* The commands on their way through the gateway, oldest first, by place.  *)
Of(m)      == IF m.type \in {"cmd", "rsp"} THEN <<m.seqno>> ELSE <<>>
OfQueue(q) == IF q = <<>> THEN <<>> ELSE Of(q[1])
Published  == IF fly = "publish" THEN Of(held) ELSE <<>>
Answered   == OfQueue(xQueueMqtt)
Running    == IF task \in {"check", "command", "reply"} THEN <<cmd>> ELSE <<>>
Queued     == OfQueue(xQueueModbus)
Offered    == IF fly = "cmdsend" THEN Of(held) ELSE <<>>

Pending == Published \o (Answered \o (Running \o (Queued \o Offered)))

Pipeline == INSTANCE CommandPipeline WITH pending <- Pending

(* Commands are answered at most once and in their order, and one that was *)
(* given up stays given up, through configurations, lost connections and   *)
(* restarts (taskFlyport.c:282-307, 443-453, taskModbus.c:75-107).         *)
IsPipeline == Pipeline!Spec

(* Every command leaves the gateway in the end, answered or given up: the  *)
(* two tasks never wait for each other's queue for ever                    *)
(* (taskFlyport.c:286, taskModbus.c:25).                                   *)
EveryCommandEnds ==
  \A c \in 1 .. MaxCmds :
    Contains(Pending, c) ~> ~Contains(Pending, c)

(* TaskModbus always gets rid of a message, though xQueueSend waits        *)
(* without limit and FlyportTask may be reconnecting.                      *)
SendMsgEnds == task \in {"reply", "feed"} ~> task \notin {"reply", "feed"}

(* The feeds that some file the server sends defines.                      *)
IsFeed(m) ==
  m.type = "feed" =>
    \E f \in Inis : \E k \in DOMAIN f.polls :
      f.polls[k] = [fid |-> m.fid, reg |-> m.reg]

(* README:30, "fid=1 ;Feed ID", beside "reg=0 ;Start register address":     *)
(* what is published under a feed are the registers of that feed.          *)
FeedIsItsRegisters == IsFeed(held)

(* mb.c:533, "Check if the frame is for us. If not ignore the frame": only *)
(* an upgrade restarts a gateway whose pointer is set.                     *)
ForeignFrameIgnored ==
  [][restarts' = restarts \/ fly = "upgrade" \/ ~ucRcvFrame]_vars

(* ini.h:59, "Returns 0 on success, line number of first error on parse    *)
(* error": the server is told OK for a valid file only.                    *)
OkMeansValid == fly = "cfgrsp" /\ init => ini.valid

(***************************************************************************)
(* The inductive invariant: which kind of message is where.                *)
(***************************************************************************)
RouteInv ==
  /\ fly = "publish" => held.type \in {"rsp", "feed"}
  /\ fly = "cmdsend" => held.type = "cmd"
  /\ xQueueModbus # <<>> => xQueueModbus[1].type = "cmd"
  /\ xQueueMqtt # <<>> => xQueueMqtt[1].type \in {"rsp", "feed"}
=============================================================================
