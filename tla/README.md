# A TLA+ verification of the GeeLink gateway

The repository holds the firmware of a gateway on an OpenPicus Flyport board
(PIC24, FreeRTOS): an MQTT server reaches it over GPRS, and Modbus slaves hang
on its RS485 line. This directory holds TLA+ modules of its core, the TLC
configurations that check them and proofs that TLAPS checks. Paths below are
relative to `src/`; `Flyport libs` is `gprs/Libs/Flyport libs`.

Contents: 1 the system, 2 the modules, 3 the runs, 4 fairness, 5 the proofs,
6 what the models found, 7 what is only model-checked, 8 what is not modelled,
9 what could follow.

## 1. The system

### 1.1 Tasks, interrupts, shared state

| Actor | Code | Talks to |
| --- | --- | --- |
| GSMTask | `project/gmgw/Main.c:162-282`, `gprs/Hilo.c`, the services in `Flyport libs` | the modem's UART; FlyportTask through `xQueue`, `xSemFrontEnd`, `mainOpStatus`; it suspends FlyportTask on a hardware fault |
| FlyportTask | `project/gmgw/taskFlyport.c`, `mqtt/MQTTClient.c`, `tcpclient/TCPClient.c` | GSMTask; TaskModbus through `xQueueModbus`, `xQueueMqtt`, `config`, `init`; it suspends TaskModbus to configure |
| TaskModbus | `project/gmgw/taskModbus.c`, `modbus/` | the RS485 line through the Modbus port |
| T4 interrupt | `modbus/port/porttimer.c` | the end of a Modbus frame |
| U2RX interrupt | `modbus/port/portserial.c` | every byte of the RS485 line |
| GSM RX interrupt | `gprs/Hilo.c:610-680` | every byte of the modem |

The three tasks have one priority; the scheduler preempts them every
millisecond. `ENTER_CRITICAL_SECTION` raises the interrupt level to 1 and so
masks T4 and the tick. The UART interrupts have the default level 4 and are
masked by nothing: they come between any two instructions, those of T4's
handler included.

### 1.2 Components

| Component | State | Operations | What is hard | What makes it correct |
| --- | --- | --- | --- | --- |
| Modbus RTU master (`modbus/rtu/mbrtu.c`) | receive and transmit state, one buffer for both directions, its position | start, stop, send, receive, the two byte-level machines, the timer's | interrupts nest; the answer overwrites the request | a success is the slave's answer; the machine is idle between transactions; no assertion fails |
| Transactions (`modbus/mb.c`) | status, the event awaited | read registers, send data, init, enable, disable | timeout against a late answer; a new configuration in the middle | every transaction ends; a failure is the slave's |
| Port (`modbus/port/*.c`, `rs485/RS485Helper.c`) | event queue of one place, T4, direction of the line | post, wait, enable, disable, send, receive | an interrupt that is pending while it is switched off | the receiver is off while the master sends |
| Serial ring (`gprs/Hilo.c:610-900`, `Flyport libs/HWlib.c`) | buffer, two indices, `last_op`, overflow flag | store, read, peek, seek, size, flush | reader and interrupt share every variable without a lock | bytes come out once and in order; indices stay inside |
| Gateway tasks (`project/gmgw/taskFlyport.c`, `taskModbus.c`) | two queues of one place, configuration, `init`, the loop indices | connect, command, configuration, upgrade, publish, poll | two queues in opposite directions; the configuration changes under the loops | commands are answered in order and once; nobody waits for ever |
| ASCII master (`modbus/ascii/mbascii.c`) | as RTU, with half bytes and a character timeout | as RTU | the length of a frame is the slave's choice; an error leaves the timer on | as RTU |
| PowerOne master (`modbus/powerone/powerone.c`) | as RTU, with frames of fixed length | a read is a sequence of transactions | an answer does not say what it answers | the registers are those asked for, in order |
| GSM command layer (`project/gmgw/Main.c`, `gprs/Hilo.c`) | `mainOpStatus`, `mainGSM`, `mainGSMStateMachine`, `smInternal` of every callback | request, dispatch, write, wait for an answer, echo, error, unsolicited message, fault | static state of a callback that was left early; suspension anywhere | a caller gets the status of its own command |
| Modem services (`Flyport libs/*lib.c`) | their parameters, the handle of a socket, files and messages | open, close, read, write, flush, status; APN, FTP, HTTP, SMTP, SMS, file system, hibernation, low level mode | each is a script of 4 to 18 cases entered again where it was left | a success went through the whole script |
| TCP, MQTT (`tcpclient/TCPClient.c`, `mqtt/MQTTClient.c`) | socket, block buffer, packet buffer, keep-alive times | connect, read, write, publish, subscribe, loop, ping | partial reads, dead sockets, packet lengths | a packet is delivered whole or not at all |
| FreeRTOS (`gprs/Libs/FreeRTOS`) | lists of tasks, queues with two locks, tick and missed ticks | create, delay, suspend, resume, send, receive, post, tick | interrupts between the test of a queue and the place on its list; wrapping ticks | no wake-up is lost, waits are exact, queues are lists |
| Others | | | | INI parser, SPI flash, hashes, RS232 output, hardware registers, boot loader, Modbus slave functions: see 8 |

### 1.3 Hazards

`PROJECT.json` lists the hazards with their lines. They come in six groups:

- interrupts between two statements of a task (the Modbus machines, the ring,
  the kernel's queues);
- state that outlives the operation it belonged to (events, pending
  interrupts, `smInternal`, the block of a TCP client, a pointer never set);
- answers that come late, or that are taken for the answer to something else;
- tasks that wait for each other or are suspended anywhere;
- a modem that is restarted under a command, a network that goes away;
- lengths at the limit of a buffer, of eight bits, or of the tick's sixteen.

## 2. The modules

### 2.1 `ModbusRtuMaster`

One transaction after another on an RS485 line with its slaves.

| State | Code |
| --- | --- |
| `pc`, `tid`, `req`, `status`, `rcvLen`, `result` | where TaskModbus is in `eMBMReadRegisters` / `eMBMSendData` (`mb.c:445-545`) and what it got |
| `eRcvState`, `eSndState`, `usSndBufferCount`, `usRcvBufferPos`, `buf` | the statics of `mbrtu.c` |
| `event` | `xQueueHdl` of `portevent.c`, one place |
| `timerOn`, `t4if`, `t4` | `T4CON.TON`, `T4IF`, the point T4's handler has reached |
| `rxOn`, `shift` | the direction of the RS485 driver, the byte in the UART |
| `cfg`, `startBy`, `startAt` | `do_config` calling `eMBInit`/`eMBEnable`, and who runs `eMBRTUStart` up to where |
| `pending`, `wire`, `answers` | the slaves: requests heard, the frame being sent, all answers ever begun |
| `abort` | the assertion that stopped the program |

A byte is the pair of its frame and its index in it. The CRC check is then
exactly what it is for: the buffer holds all bytes of one good frame, in
order. Frames that collide or come in part give no good frame.

Every statement of the handlers that another actor could observe is a step:
`eMBRTUStart` writes the state, the direction and the timer in three steps,
T4's handler posts the event, leaves the bus, stops the timer and sets the
state in separate steps, and U2RX may come between any two of them. A byte
takes at least 80 microseconds and t3.5 is at least 1750; the critical sections
and T4's handler last a few. `Strike` therefore admits one hardware event in
each such window, at any point of it.

The environment has three switches. `LateReplies`: a slave may answer after
the master gave up. `FrameGaps`: a slave may pause inside a frame for more than
t3.5. `Reconfigure`: FlyportTask may suspend TaskModbus anywhere and run
`eMBInit`. With all three off the environment is called orderly.

Abstracted: register values, function codes (a frame says whether it `fits` the
request), baud rates, the arithmetic of the CRC.

### 2.2 `SerialRing` and `ByteFifo`

`SerialRing` has one step for each statement of `GSMRead`, `GSMpRead`,
`GSMpSeek`, `GSMBufferSize` and `GSMFlush` that reads or writes a variable
shared with `GSMRxInt`, and steps for the interrupt, which may store a burst
(the depth of the hardware FIFO) and is atomic to the reader. A byte is its
number in the order of arrival. The module keeps the code's curiosities: the
size may come out negative, `last_op` is set after the last byte is taken, the
full ring resets itself.

`MaxUnread` is the number of unread bytes at which the modem stops. Below
`Size` it says that the ring never fills; above, the ring overflows as in the
code. Everything but the types is stated for the former: a ring that overflows
throws all its bytes away by design.

`ByteFifo` is the promise: bytes come out once each, in order, until all that
is left is thrown away.

### 2.3 `Gateway` and `CommandPipeline`

`Gateway` composes FlyportTask and TaskModbus.

| State | Code |
| --- | --- |
| `fly`, `held`, `ini` | where FlyportTask is (`taskFlyport.c:268-456`), the message in its hands, the file it applies |
| `connected`, `init`, `config`, `hModbusTask` | the variables of those names, the last with the state of the task |
| `task`, `cmd`, `ucRcvFrame`, `i`, `j`, `asked` | TaskModbus (`taskModbus.c:15-125`): its place, the command in `ucMBBuf`, whether the pointer was ever set, the loops of `do_poll` |
| `xQueueModbus`, `xQueueMqtt` | the two queues of one place |
| `link`, `arrived`, `answered` | the TCP connection and what the server sees |

A Modbus transaction is one wait with an outcome: that it ends, and that a
success is the slave's answer, are results about `ModbusRtuMaster`. A file is
the number of its slaves and the list of its `[poll]` sections. A restart
(a trap, or the reset at the end of an upgrade) loses all RAM and stays
possible wherever the code has one.

`CommandPipeline` is the promise to the server: a sequence of pending commands
of which the oldest is answered, any one may be given up, and all may be
forgotten. `Pending` maps the gateway's places to it: what is being published,
the answer in `xQueueMqtt`, the command in work, the one in `xQueueModbus`, the
one FlyportTask offers.

### 2.4 `AtScripts`, `GsmCommand` and `RemoteCall`

`GsmCommand` is GSMTask between its client and the modem.

| State | Code |
| --- | --- |
| `ExecStat`, `Function` | `mainOpStatus` (`Hilo.c`), which `xSemFrontEnd` guards |
| `mainGSMStateMachine`, `hwReady` | the variables of those names in `Main.c` and `Hilo.c` |
| `smInternal` | the static of that name in each library |
| `gsm`, `at`, `suspended` | where GSMTask is in its loop or in a callback, the case it runs; FlyportTask suspended by it (`Main.c:245`) |
| `fly`, `want` | FlyportTask inside a front end or polling `LastExecStat` |
| `ring`, `wire` | lines received and lines the modem will send; each carries the number of the request it answers, which the code cannot see |
| `socket`, `notif` | the two things a script changes in a `TCP_SOCKET` |
| `path`, `gap`, `foreign`, `unparsed`, `reset` | history: the cases run so far, and what went wrong on the way |

The callbacks of the libraries are all alike, a `switch` whose cases fall
through, each of them a write or a check. `AtScripts` holds them as data, one
sequence of cases for each callback, with its irregularities (the check of
data that is made twice, the prompt of `cSMSSend` that is not checked, the
field whose absence ends the switch). `GsmCommand` interprets a case as the
code does: `GSMWrite`, `WaitUntilReply`, `CheckEcho`, `CheckCmd`, `CheckErr`
with its five results, `ErrorHandler`, `GSMUnsol`, and the reset.

The modem answers a command by its lines, refuses it, stays silent, answers
after the timeout, cuts its answer off, or speaks unasked at any moment.

`cTCPRxFlush` alone has a loop around its switch. A field that is not found ends
the switch but not the loop, which goes on with the next case, so `ParseFails` is
not for it. Entered past its last case it goes round for ever: `FlushSpins` is
that loop, a step of GSMTask that changes nothing and after which no other comes.

`RemoteCall` is the promise to a client: a call is accepted after the verdict
of the one before was read, gets one verdict, and keeps it; only a failing modem
spoils a verdict and only its repair gives one that nobody earned.

### 2.5 `TcpClient`, `MqttClient` and `MqttSession`

FlyportTask as a client of the modem layer, whose calls are steps with a
verdict as in `RemoteCall` (a restart answers the call under way with success).

| State | Code |
| --- | --- |
| `at`, `stack`, `result` | where FlyportTask is, the functions it will return to, the value returned |
| `number`, `rxLen`, `notif` | `TCP_SOCKET` |
| `buff`, `size`, `idx`, `tick` | `TCPClient_t`, `tick` as an age |
| `packet`, `rd` | the buffer of `MQTTClient_t`, the locals of `MQTTClient_readPacket` |
| `connected`, `topics`, `pingOutstanding`, `sinceIn`, `sinceOut` | FlyportTask and `MQTTClient_t`, times as ages |
| `hwFault`, `registered`, `sessions`, `session`, `link`, `rcv`, `wire` | the modem, its sockets (leaked ones included), the connection |
| `log`, `due`, `granted`, `handed`, `garbled` | the server: what it sent and owes, what the callback works on |

The bytes of incoming packets are kept, for their lengths are what is read
wrong; `Base` stands for 128 and a run uses 8, with which the arithmetic of the
length bytes is the same. What is written is its length.

`MqttSession` is the promise: the callback gets messages the server published
on this connection, whole, in order and at most once.

### 2.6 `FreeRtosTasks`, `FreeRtosQueue` and `BoundedQueue`

`FreeRtosTasks` has the functions of `tasks.c` and `list.c` as operators on a
kernel (its lists, the tick, the missed ticks, the current task).
`FreeRtosQueue` runs them: each task makes calls of its own choice, and a step
is one critical section or the code between two. The tick and the interrupts
that post come between any two steps: interrupts of the kernel's priority, as
T4 is, which posts the end of an RTU frame. U2RX, which posts the end of an
ASCII or PowerOne frame, has a higher one, and no critical section holds it off.
`PostsInUnlock = TRUE` lets a post into one of them, the first half of
`prvUnlockQueue`. That is enough to show what goes wrong there; it is not a model
of U2RX in the others (`queue.c:465`, `848`, `tasks.c:1092`), so nothing that
holds is claimed with it, neither by a run nor by a theorem.
`BoundedQueue` is the promise about the items.

### 2.7 `MasterPort`, `ModbusAsciiMaster`, `PowerOneMaster`, `SerialModes`

`MasterPort` is the transaction of `mb.c`, the ports and the line for the two
masters that are not RTU, `ModbusAsciiMaster` and `PowerOneMaster` are their
byte-level machines, and `SerialModes` composes them: a configuration may set
the other mode between two transactions. The state is that of
`ModbusRtuMaster` with `eBytePos`, `mode`, and `parts`, the answers of which a
PowerOne read consists. A character knows its frame, its kind (colon, digit, CR,
LF, bad) and its index. The variables of the master in use stand for both, as
the other is idle; the buffer is the sequence of what was stored, so that
`usRcvBufferPos` is its length, or half of it. What an answer may suffer is
`Noise`: silence, the end cut off, a pause of more than T4, a damaged
character, a second colon, another slave's answer.

## 3. The runs

| Run | Question | Bounds |
| --- | --- | --- |
| `rtu_orderly` | with prompt slaves: types, assertions, clean starts, successes and failures told truly, the timer, termination | 2 slaves, 3 transactions, buffer of 3 bytes, requests of 2, answers of 1 (too short), 2 and 4 (too long) bytes, damaged or not |
| `rtu_hostile` | with answers that are late or have pauses: half duplex and termination | 1 slave, 2 transactions |
| `rtu_reconfigure` | with configurations at any moment and otherwise orderly slaves: clean starts, true successes, termination | 1 slave, 2 transactions |
| `ring_headroom` | a ring that never fills, with flushes: types, order, no invented byte, refinement of `ByteFifo` | ring of 3, bursts of 2, 6 bytes, at most 2 unread, reads of 1 and 3 bytes, seeks from 0 and 1 |
| `gateway` | types, refinement of `CommandPipeline`, every command ends, every message leaves TaskModbus | 3 commands, 2 configurations of 2 kinds, 1 lost connection or failed attempt, 1 restart, a table of 2 poll tasks |
| `gsm_gateway` | the services the gateway calls: callbacks run alone, a success was earned by answers to this request, refinement of `RemoteCall`, requests end but for a flush that spins | 2 requests, 2 faults of 7 kinds, 3 unsolicited messages |
| `gsm_services` | every service of the libraries: a success went through its whole script, refinement of `RemoteCall` | 2 requests, 1 fault, every unsolicited message |
| `net` | types, refinement of `MqttSession`, a ping is outstanding only while its answer is to come, a dead connection is noticed, a lost one comes back | 1 fault of 6 kinds, 1 modem socket, blocks of 6 bytes, messages of 1 and 2 length bytes and one whose packet has `Base` bytes, packet buffer of 11 |
| `net_eager` | the disagreement about the callback (section 6) | no fault, a server that sends on behind its SUBACK |
| `rtos` | types, no lost wake-up, waits are exact, refinement of `BoundedQueue` | 2 tasks, of which one waits for ever and the other for 2 ticks or not at all, 1 queue of 2, 2 items, 1 interrupt, ticks modulo 4, 1 missed tick |
| `rtos_unmasked` | the disagreement about wake-ups: the same with an interrupt that is not masked in `prvUnlockQueue` | as `rtos`, queue of 1 |
| `modes` | ASCII and PowerOne in turn: types, true successes, every transaction ends | 2 transactions, ASCII frames of the shortest legal length, one more, and more than the buffer, PowerOne reads of 1 and 2 groups from two places |

Why the bounds are enough. *RTU*: what one transaction can leave to the next
is one event, one pending interrupt, one byte and one frame; a second
transaction meets it, a third starts after the repair. A buffer of three bytes
has a frame below, at and above every limit. The states grow with the
interleavings, not with the sizes. *Ring*: indices of a ring of three wrap
twice within six bytes, a burst can carry the writer past the end while the
reader is at any index; requests below and above what is there both occur.
*Gateway*: three commands fill all places at once (one in work, one queued, one
offered) and make the two-second timeout happen; two files, one with more
sections than the table and a bad line, change both loop bounds in both
directions. The bounds on configurations, lost connections and restarts limit
only how often they happen. *GSM*: what a request leaves to the next is lines,
the `smInternal` of its library and the state of the machine; a second request
of any kind meets it. Two faults meet each other in the six scripts of the
gateway, one meets every case of the 28 scripts. *Net*: packets are
shorter than a block, as long, and up to twice as long, so blocks end at many
places of them, and a block can hold more than the first packet of a
connection: with a block as short as a CONNACK nothing a stale `rxLen` adds to
the first read is ever seen. The ages go one beyond the limit they are compared
with. *FreeRTOS*: the queues of the program have one place (the
event, the two of the gateway) and three (the calls of GSMTask, `Main.c:107`). A
queue of two is empty, full or between, has an order to keep, and its positions
wrap at every second item; the items differ, so an overtaking shows. A queue of
one is the case of `rtos_unmasked`. The ticks wrap after four, and delays of two ticks
reach across the wrap from half of the starts; the two tasks and the interrupt
are a sender, a receiver and a thief in any order. *Modes*: as RTU; the read of
two groups has a second request whose answer could be taken for the first.

`CHECK_DEADLOCK FALSE` stands in the RTU runs in which a failed assertion stops
the program or the transactions come to their bound in the middle of an open
answer, and in the GSM runs, which end when the requests are used up. The
others never stop, and TLC checks that.

The invariants of section 5 (`OrderlyInv`, `FailureInv`, `PromptInv`, `RingInv`, `RouteInv`;
`IInv`, `TInv` and `CInv` of `GsmCommand_proofs`; `IInv`, `KInv`, `Locks` and
`WInv` of `FreeRtosQueue_proofs`; `CInv` and `DInv` of `MqttClient_proofs`;
`IInv` of `SerialModes_proofs`) were checked
as invariants of these instances before they were proved, `WInv` with queues of
one item and of two.

## 4. Fairness

*RTU* (`Fairness` in the module): timers expire, interrupts that are pending
are served, a frame on the line ends, a slave that heard a request answers or
is silent for good (weak fairness of each). TaskModbus has strong fairness:
interrupts and configurations hold it up again and again, but between two of
them it runs, since FlyportTask waits for the network. Nothing obliges TaskModbus
to begin a transaction or the server to send a configuration.

*Gateway* (`FairSpec`): weak fairness of each task as a whole. They have the
same priority and the tick preempts, so a task that can go on does. No fairness
for the server, the connection or a restart. That a suspended TaskModbus goes
on is a consequence: FlyportTask comes to `Resume`. Weak fairness of the whole
task leaves the outcome of a transaction open, so the liveness properties hold
whatever the slaves do. `ConnectFails` is counted: the code tries for ever, and
while it does nobody empties `xQueueMqtt`. `SendMsgEnds` and `EveryCommandEnds`
therefore say that TaskModbus and the commands go on *if* the network comes back.

*GSM* (`FairSpec`): both tasks run and lines that were sent arrive. Nothing
obliges the modem to speak unasked or the application to ask. That a modem that
stays silent does not stop a request is the code's doing: its timeouts are steps
of GSMTask. The exception, written into `RequestEnds`, is a `cTCPRxFlush` that is
entered past its last case (section 6). `gsm_services` is safety only: `cSMSSend` waits for its prompt
without a limit (`SMSlib.c:263-295`), so that `RequestEnds` fails for it.

*Net* (`FairSpec`): weak fairness of both tasks and of the modem's return to the
network; strong fairness of time, of data on a living connection, and of the
server's answers. Those three move in the model only at the steps of FlyportTask
that can notice them (`Shares`), hence strong instead of weak. Nobody is
obliged to publish, and the link need not stay.

*Modes* (`Fairness`): weak fairness of the task's steps, of the timer and of the
two interrupts, and of the slave's line. Requests and configurations need not
come.

*Ring* and *FreeRTOS*: safety only.

## 5. The proofs

All constants are arbitrary values that satisfy the named assumptions
(`SizesAssumption`, `EnvAssumption`, `RingAssumption`, `GatewayAssumption`,
`GsmAssumption`, `MessagesAssumption`, `TasksAssumption`, `QueueAssumption`,
`PortAssumption`, `AsciiAssumption`, `RequestAssumption`, `TcpAssumption`,
`MqttAssumption`).

### 5.1 `ModbusRtuMaster_proofs`

| Theorem | Says | Assumes |
| --- | --- | --- |
| `TypeCorrect` | types; the receive position stays in the buffer | nothing |
| `TheLineIsHalfDuplex` | the receiver is off while the master has bytes to send | nothing: late answers, pauses and configurations allowed |
| `NoAssertFails` | no assertion of `mbrtu.c` fails | `Orderly` |
| `EveryStartIsClean` | idle receiver, stopped timer, empty queue, quiet line at every start | `Prompt`: configurations at any moment, frames of any length |
| `TheReceiverIsTimed` | outside its handler the timer runs exactly while a frame comes in | `Orderly` |
| `EverySuccessIsTheAnswer` | a success is a good, complete answer to this very request | `Prompt`, the same |
| `EveryFailureIsTheSlaves` | a failure means that the slave sent no good answer that fits the buffer | `Orderly` |

`Prompt` is the environment without late answers and without pauses, `Orderly`
the one that has no configurations and no frame that fills the buffer exactly
either. Neither is wider than it must be: TLC breaks each of the two properties
under `Prompt` as soon as a late answer or (with three transactions) a pause is
admitted, and each of the other three under `Orderly` as soon as any of the
three switches is on.

The inductive invariant of `Orderly` is `OrderlyInv`: `PhaseInv` (outside the
wait the line and the machines are quiet), `ReplyInv` (what lies in the buffer
when the answer is taken out), and during the wait `TimerInv` (the point T4's
handler has reached against the receive state) and `LineInv` (the bytes in the
buffer are the first bytes of the frame on the line). None of the properties is
inductive alone: that T4 finds a receiver that is not idle depends on the timer
being started with the first byte, that the buffer holds the answer on nobody
else writing to it, and that on the phase.

A configuration breaks most of this: it drops the byte in the UART, sets the
receiver idle under a frame whose later bytes are then stored from the front
again, stops the timer under a receiver that a byte has just made active (the
next `eMBRTUStart` repairs that), or leaves a pending T4 interrupt an idle
receiver, which stops the program. What `PromptInv` keeps is little, and enough.
`PortInv`: outside the wait nothing is on the line, in the port or in the queue;
only after a timeout may the receiver be active or on the bus, until
`eMBRTUStart` has passed that write. `WaitInv`: whatever moves during the wait
is of one answer to the open request, T4 comes when the line is quiet, the event
when the receiver has left the bus, and once a frame has come in the buffer's
first byte is of that answer. More than the first byte is not needed: the CRC
says the rest, for it is right only of all bytes of the frame the first belongs
to.

`FailureInv` adds what a failure needs, the place of the answer to the open
request: the frame on the line is the only one, and once it was sent it lies in
the buffer in full, with its event under way, until the master takes it out,
unless it was longer than the buffer.

The half-duplex theorem needs none of this: it is inductive as it stands. The
step that makes the transmitter busy takes the receiver off the bus, the one
that puts it on finds the transmitter idle, and no other step, of an interrupt
or of a new configuration, turns either on.

### 5.2 `SerialRing_proofs`

| Theorem | Says | Assumes |
| --- | --- | --- |
| `TypeCorrect` | no index leaves the ring | nothing: the ring may fill |
| `ReadsAreInOrder` | what a call copies is the oldest bytes, in order | `MaxUnread < Size` |
| `NoByteIsInvented` | what a copy loop still has to copy has arrived | `MaxUnread < Size` |
| `RingIsFifo` | the ring implements `ByteFifo` | `MaxUnread < Size` |

`IndexInv` carries the first: the test for the last index stays true until the
increment, since the interrupt never moves `bufind_r` except to 0. `RingInv`
carries the rest: the distance of the indices is the number of unread bytes and
the places between them hold them (`Holds`); the interrupt can take an empty
ring for a full one only while `GSMRead` is about to set `last_op`
(`EmptyIsKnown`), and the reset it then makes loses nothing; the computed size
never exceeds what is unread (`SizeInv`).

### 5.3 `Gateway_proofs`

| Theorem | Says | Assumes |
| --- | --- | --- |
| `TypeCorrect` | types; no poll index leaves its table, no queue holds two messages | nothing |
| `CommandsArePipelined` | the tasks and queues implement `CommandPipeline` | nothing |

`RouteInv` says which kind of message lies where. The refinement proof takes
the five places of `Pending` apart (`Line`), shows for every action which place
changes (`FlyportMoves`, `ModbusMoves`), and then, by the algebra of
concatenation alone, that the line as a whole stays, grows at the end, loses
its head or loses one (`LineMoves`, `LineReceives`, `LineAnswers`,
`LineLoses`).

### 5.4 `GsmCommand_proofs`

| Theorem | Says | Assumes |
| --- | --- | --- |
| `CallbackAlone` | while a callback runs GSMTask holds the semaphore and no front end is inside | nothing: any services, messages and faults |
| `Refinement` | the command layer implements `RemoteCall` | nothing |
| `TypeCorrect` | types; the handle is one of its two meanings, the bounds hold | nothing |
| `Complete` | a success went through its script from the first case to the last | nothing but the exceptions `SuccessIsComplete` names |
| `OwnAnswers` | every line a successful request took for its answer was the answer to it | `cSMSSend` is not asked for, which the gateway never does (section 8); the exceptions `SuccessIsOwn` names |

The first two need not know what is in the ring: a check lets the callback go on or
leave with some status, and `RemoteCall` allows any verdict there. What they
need is who may be where when the status changes: `Semaphore`, `Suspension`
(FlyportTask is suspended exactly during a reset for a fault), `Executing` (a
callback runs on a request in execution, hence somebody waits) and `Asleep`
(in hibernation no success waits that the front end's refusal could overwrite).

The types are `TInv`: what a check makes of a line becomes `ExecStat`, so the
kinds of lines in the ring and on the wire belong to it (`Lines`), and with
them what the 28 scripts are made of (`ScriptsType`) and what the modem sends
for a write (`AnswersFromType`). A callback runs for the request that waits
(`Calling`).

`Complete` is `CInv`. While no malformed message was met, `smInternal` is zero
for every library but the one whose callback is under way, where it counts the
cases done (`OthersZero`, `Counting`). A callback that leaves with a verdict
resets it, one that comes back finds it where it was, and a fault that
FlyportTask asks for meets it at zero or before its first check (`Faulty`).

`OwnAnswers` is `OInv`. The code cannot see whose answer a line is: a check
takes any line with the right text, and OK is the answer to almost everything.
What keeps the answers apart is in no single place. A callback first waits for
an empty ring; every write is followed by the check of its echo; a failure
drops the line it read and ends the command; a timeout restarts the modem,
which drops what is due. But an empty ring says nothing of what is still on the
wire, and a request that failed on an error may have left an answer there.
`Clean` says what may be due, in the ring or on the wire, at each case of a
script (`Now`, `Then`):

- an echo is of this request, and due only to the check of it (`Echoed`);
- behind an echo come answers of this request or one error, not both, and no
  second echo (`Pairs`): once the check has taken its echo, nothing that is left
  of another command can be due;
- from the fourth case on every answer due is of this request (`Mine`);
- an error is due to a check only, not while data is awaited or after it
  (`Erred`), and never beside an answer that check would take (`Refusing`);
- the answer that starts an upload is not OK, and no OK is due before the text
  is sent (`Uploading`): what the modem says of the text is the first.

None of the six is inductive without the others, and all of them need how the
cases of a script follow each other: `Link` states it of two cases, `Chain` of
a script, and `Chains` proves it of the 27 scripts but `cSMSSend`, piece by
piece (`ChainJoin`), since they are concatenated. `StretchIs` and `ReactsWithin`
then say what a write or an upload can put on the wire, whole, cut or refused.
Lines are compared by which there are and which is ahead of which (`Within`,
`Precedes`, `Follows`), never by their places. While the modem is about to be
set up again nothing is claimed (`Dirty`); the first step of the setup drops
everything due, and until the setup ends nothing arrives (`Silent`). `Counts`
is needed for a callback that takes data: its count runs one ahead, but there
only the last case is left. The exceptions enter in two places: an unsolicited
error ends a command whose answers are due, and a notification does so for
`cTCPWrite` (`Tame`; `Signs` says that such a line was really sent).

### 5.5 `FreeRtosQueue_proofs`

| Theorem | Says | Assumes |
| --- | --- | --- |
| `QueuesAreLists` | every queue is a bounded first-in first-out list | `PostsInUnlock = FALSE` |
| `TypeCorrect` | every task that exists is in one list of tasks, once; rings, locks and tick in range | `PostsInUnlock = FALSE` |
| `NoWakeupIsLost` | an item or a place is never left with a task waiting for it and nobody on the way | `PostsInUnlock = FALSE`; section 6 has what happens without |
| `WaitsAreExact` | no task sleeps longer than it asked, no call gives up and no undisturbed delay ends before its time | `PostsInUnlock = FALSE` |

Any tasks, priorities, calls, delays, lengths and widths of the counters; the
interrupts are those of the kernel's priority. Of the others nothing is proved:
a critical section is one step here, and for U2RX it is not one.

`QueuesAreLists` does not depend on the scheduler: the storage changes in a few
steps, each inside one critical section or interrupt. `Ring` ties the write
position of a queue to its read position and count, and `Cells` and the lemmas
on a position that wraps at most twice say what the places between them hold.

The others need the whole kernel. First the operators of `FreeRtosTasks`,
each with a lemma: a kernel is `Good` when every task that exists is in one of
the lists delayed, overflow, suspended and ready, at its priority, once
(`Homes`), and a task on an event list is on one only and not ready, and the
pending list has only tasks of no event list that are not ready (`Events`);
adding, removing, waking, suspending, the tick, the switch and
`xTaskResumeAll`, a loop in a loop, keep it so. Then `KInv` says where each
task is in its call: who is inside `vTaskSuspendAll` is the running task, the
running task is ready unless it is about to give the processor away, and the
pending list does not hold a task about to wait. `Locks` says that a queue is
locked exactly while a task is inside, and that its lock counts no more than
it holds.

`NoWakeupIsLost` counts. Neither "nobody waits at a queue with items" nor the
property itself is inductive: an item may be taken by a thief, one wake-up
stands for one item only, and a locked queue wakes nobody yet. `WInv` says that
while a task is on the list of a queue, the items there are no more than the
tasks on their way back to its test and those the lock will yet wake
(`Enough`), that who is on the list looks again when it wakes (`Waiter`), and
that between the test of the queue and the place on its list nothing came
that the lock did not count (`Placing`). Every action then adds at most as
many items as tasks on their way, and a task that leaves the way takes one
item, or has found none. The unlocking is where an unmasked post breaks it:
the count is read in one step and reset in the next.

`WaitsAreExact` is an account of ticks. `Times` says of the kernel that both
lists of delayed tasks are sorted and that the times of one lie before the wrap
of the ticks and those of the other behind it, so that at the wrap, when the
lists change places, `Left`, the ticks until a sleeper wakes, goes on counting.
Without the order `prvCheckDelayedTasks`, which stops at the first task that
must wait, would leave a sleeper overdue. `Trims` (some tasks leave the lists,
the others keep their times), `Passes` (n ticks pass: every sleeper has n less
to go, or its time has come and it is gone) and `Lulls` (one task goes to sleep
for so many ticks) say what each function of `FreeRtosTasks` does to them,
`xTaskResumeAll` with its loop over the missed ticks included. `DInv` then
keeps an account of each task: who sleeps has waited and has left what it asked
(`Dozing`); what a call still has to wait was taken at the time its counters
show (`Clocked`), and `Elapses` has what `xTaskCheckForTimeOut` reads off them:
the difference modulo the width, or the overflow count if a full turn has
passed; a call that gives up has waited its ticks (`GivesUp`), and so has a
delay that does not sleep any more, unless somebody may suspend it
(`Delaying`). One lemma (`AccountOn`) covers every step that goes on with a
call; the steps that begin, place, time out and end one have their own.
The step that counts the ticks missed is the same one that readies the pending
tasks, and those leave the lists with time left: only a task of a queue's list
gets there, and it goes on with what remains.

`ListLemmas` has the facts about sequences these proofs and those of 5.4 share.
The induction theorems of the library take a predicate, which no backend
instantiates; `WFMin` takes a set, so `Induction` states induction over a set
of numbers, and a property to be proved by it is written as such a set. Folds
and loops are solved the same way: a function that satisfies the recursion of
`FoldLeft` exists on every prefix (`SolutionExists`, `CountExists`,
`FlattenExists`).

### 5.6 `SerialModes_proofs`

| Theorem | Says | Assumes |
| --- | --- | --- |
| `BuffersHold` | no receiver writes past its buffer, types | nothing: any noise, frame length, buffer size, order of modes |
| `AnswerToItsRequest` | a success carries the answers to its own requests | nothing but what the line does: slaves answer within two seconds or not at all |

`IInv` says who may hold what and when. `Silence`: outside the wait for an
answer the receiver is off and idle and nothing of an answer is left.
`Waiting`: in the wait, what is on the line, in the UART and in the buffer is
`Mine`, a character of an answer to the request that is out; the lemmas
`AsciiMine`, `PowerOneMine` and `SpoiltMine` show this of everything a slave
sends, damaged or not. `AsciiSize` ties the place of the next half byte to the
parity of what the buffer holds, without which the check at `mbascii.c:266`,
made at every other character only, bounds nothing. `PowerOneSize` ties the
state of the receiver to its position. `Collected`: the answers so far are
those to the groups so far, so the read that ends has all of them. A failed
assertion stops the processor; the theorems hold of what was before.

### 5.7 `MqttClient_proofs`

| Theorem | Says | Assumes |
| --- | --- | --- |
| `ControlHolds` | `CInv`, below | `Ordinary` |
| `DataHolds` | `CInv` and `DInv`, below | `Ordinary` |
| `TypeCorrect` | the block and the packet stay in their buffers, calls nest no deeper than four, the loop gives up only what is closed | `Ordinary` |
| `PingPending` | a ping is outstanding only while its answer is to come | `Ordinary` |
| `SessionImplemented` | the client implements `MqttSession` | `Ordinary` |

`Ordinary` leaves out what makes the client fail, and nothing else:

- the faults `readbreak`, `noclose` and `stall`, and a server that sends behind
  its SUBACK (`Eager`): each breaks `ImplementsSession` (the hazards at
  `TCPClient.c:71`, `Hilo.c:1492`, `MQTTClient.c:121` and `MQTTClient.c:231`);
- messages that do not `Fit`: with a topic of 256 bytes or more, with a length
  of three digits, which the decoding in eight bits reads wrong, or longer than
  the packet buffer (section 6; one byte too long is dropped as meant, but
  leaves its entry in `log`);
- messages without a topic, and a `MQTT_MAX_TOPIC_LEN` of 256 or more (the code
  has 32): a packet of 128 or 129 bytes is parsed one byte off, and what drops
  it is that the length of its topic is then read as 256 or more;
- packets of 256 bytes or more from the client, whose length is encoded from
  eight bits (`OutLengths`);
- a packet buffer that cannot hold a SUBACK (5), and a `Base` below 4, which
  could not express the packet types. The code has 512 and 128.

`net.cfg` is an instance of it. The sizes of block, buffer and segment, the
number of messages, connections, sockets and faults, the ages and where a fault
meets the client are arbitrary.

The inductive invariant has two layers. `CInv` is about control. `Nest`: the
return addresses are those of the calls of the code, at most four deep, so the
place in FlyportTask (`Main`) and the routine that waits (`Here`) are functions
of them. `Requests`: the command at the modem is the one of this place.
`Numbered`: each place knows whether there is a socket, from the value it was
returned. `Blocks`: a place that asked how much there is holds that many bytes.
`Sockets`: `rxLen` is what the modem holds for the socket, so a read never asks
for bytes that are not there. `Reader`: where a packet is under way. `Nest` and
`Numbered` carry the rest: a socket may be lost in any command of the modem,
four calls below the loop, and only the value returned tells the callers.

`DInv` is about the bytes. `Sync`: what has been read of the packet, the unread
part of the block, what the modem holds and what is on its way are one after the
other the encodings of the messages in `log`, all of them while the link is
there, a beginning of them after. A read in which the modem has filled the block
but the client has not counted it yet (`Held`), a segment that arrives and a byte
that is taken each move the borders only (`Flow`). `Packets` says that the
locals of the reader fit the packet so far, so that it is done exactly when the
first message is (`Framing`, through the arithmetic of one and two digits).
`Served`, `Welcome` and `Handed` order the server's answers: CONNACK comes first
and alone, nothing follows a SUBACK until it is read, so the flush finds nothing
to lose. `Pinging` is `PingIsPending` with the moment between the write and its
return. Every action keeps `CInv`, then `DInv` with the help of `CInv`.

The refinement maps `log` to the messages in it. A new connection is `Open`,
what the server sends `Send`, a packet dispatched `Hand(1)` when it is a
message whose topic fits and `Skip(1)` otherwise, the return of the callback
`HandedBack`; `Sync` and `Packets` give the one hard fact, that what `Message`
cuts out of the packet is the first message of `log` (`MessageIs`).

`ListLemmas` gained the concatenation of sequences for this. Its lemmas take the
memberships as one predicate (`AreLists`): with each as a fact of its own the
prover instantiates them for every pair in sight and finds nothing.

## 6. What the models found

Two have a run whose property TLC violates; `PROJECT.json` quotes the lines.

1. `rtos_unmasked`, `NoLostWakeup`: `prvUnlockQueue` looks at the lock and
   resets it in a critical section that does not mask an interrupt of a higher
   priority. A post between the two is stored but wakes nobody: the task that
   waits for the event sleeps with the event in the queue until its timeout, for
   a queue of one refuses the next post. In ASCII and PowerOne mode the frame event is such a post: it comes
   from U2RX (`mbascii.c:302`), and a transaction it is lost to ends with its
   timeout of two seconds. In RTU mode T4 posts it, which is masked.
2. `net_eager`, `CallbackIsMessage`: on a SUBACK the client flushes the bytes
   in the modem, not those in its block. A packet that began in the block
   loses its middle, and the callback gets bytes that no message had.

The others are properties in the modules that a comment of the code states and
the code does not keep. Each is violated when its definition is added to the
configuration named here:

| Property | Configuration | What happens |
| --- | --- | --- |
| `TransmitAssert` | `rtu_hostile.cfg` | a late byte between the writes of `eMBRTUStart`, or right after the test in `eMBRTUSend`, makes the receiver active and `assert(eRcvState == STATE_RX_IDLE)` (`mbrtu.c:301`) fails: the critical section does not mask the UART |
| `AnswerIsNotTheRequest` | `rtu_hostile.cfg` | a late answer leaves its event in the queue; the next transaction takes it, finds its own request in the shared buffer, whose CRC and address are right ("Check if the frame is for us", `mb.c:483`), and returns it as the slave's answer |
| `LengthAssert` | `rtu_hostile.cfg` | the receive machine accepts as many bytes as the buffer has, `eMBRTUReceive` asserts one less (`mbrtu.c:163`) |
| `OverflowIsReal` | `ring_headroom.cfg` | a byte that arrives while `GSMRead` is about to set `last_op` is taken for an overflow ("buffer overflow detected", `HWlib.c:722`) although nothing is lost |
| `FeedIsItsRegisters` | `gateway.cfg` | a configuration that arrives during a poll lets the registers of the old task go out under the feed of the new one (`fid`, `project/gmgw/README:30`) |
| `OkMeansValid` | `gateway.cfg` | `do_config` tests for a negative result of `ini_parse`, which "returns 0 on success, line number of first error on parse error" (`ini.h:59`): a bad file is applied and answered OK |
| `ForeignFrameIgnored` | `gateway.cfg` with `ForeignFrames = TRUE` | another slave's frame ("If not ignore the frame", `mb.c:483`) leaves an odd pointer behind, and the error reply that is built through it resets the chip |
| `InvalidMeansFailed` | `gsm_gateway.cfg` | an unexpected line before the answer to `KTCPCNX` gives the handle of the socket up (`TCPlib.c:265,282`) although the command goes on and succeeds ("INVALID_SOCKET: the operation was failed", `TCPlib.c:98`) |
| `LongIsIgnored` | `net.cfg` with `MQTT_MAX_PACKET_SIZE = 9` | for a packet that does not fit the reader sets its length to 0 ("This will cause the packet to be ignored", `MQTTClient.c:159`) and goes on storing: its last bytes are dispatched as a packet, and if they are none the client knows, what the modem holds is flushed with them |
| `FlushEnds` | `gsm_gateway.cfg` | `cTCPRxFlush` goes round "just to be sure that TCP RX Buffer is blank" (`TCPlib.c:1345`). A `cTCPRead` whose second `CheckErr` has counted one case too many (`TCPlib.c:719`) and that a malformed message then ends leaves `smInternal` at 9; the flush that comes next finds no such case and loops for ever with `xSemFrontEnd` (`TCPlib.c:1354`) |
| `PromptComes` | `gsm_services.cfg` | the prompt that `cSMSSend` no longer checks, "since if we received echo, we must receive the cursor" (`SMSlib.c:289`), can be replaced by an error: the callback waits for ever |

`AssertsHold` and `CleanStart` do not appear in the hostile run for the first
two of these. Other places where the code is at odds with itself, met while
modelling and kept in the modules as they are:

- a field that `getfield` does not find ends the switch, and the code behind it
  reports `OP_SUCCESS` (`TCPlib.c:220,292`; not in the loop of `cTCPRxFlush`); `cSTDModeEnable` reports it always
  (`LowLevelLib.c:141`); a hardware fault overwrites a verdict with it
  (`Main.c:262`);
- `FSWrite`, `FSRead` and `FSAppend` come back to a `sizeStr` that was not
  initialised (`FSlib.c:186,344,799`);
- a `break` cuts the cases after 8 off in `cHTTPRequest`;
- `MQTTClient_subscribe` writes a message number where the header overwrites
  it; `TCPClient_connected` ignores bytes that wait to be read, contrary to
  its comment (`TCPClient.c:229`);
- `MQTTClient_disconnect` never sends its packet: whatever makes
  `MQTTClient_loop` give up has closed the socket already (part of `TypeOK`);
- `portevent.c:59` passes `pdFALSE` as the address of the flag that asks for a
  task switch: the switch is missing, the waiting task runs at the next tick;
- `vTaskDelay` multiplies its argument by 10.

## 7. What is only model-checked

- Liveness (`TransactionEnds`, `EndsOrAborts`, `EveryCommandEnds`,
  `SendMsgEnds`, `RequestEnds`, `SilenceIsNoticed`, `ConnectRecovers`): the
  proof system has no rule for fairness.
- `SuccessIsOwn` has no theorem for `cSMSSend`: there it is false (section 8).
- `MqttClient` outside `Ordinary` (5.7): there its properties are false, or
  the run has not such messages.
- What a `RECURSIVE` operator computes. None of the proved modules has one;
  their loops are folds or recursive functions.

## 8. What is not modelled

Components:

- INI parser (`ini/ini.c`): string processing one character at a time, without
  state between two files. A model of it would repeat the code. `Gateway` takes
  what it delivers: the sections, and whether a line was bad.
- SPI flash (`sst25vf/SPIFlash.c`): a driver that waits for one device and that
  only the firmware download calls, which `Gateway` has as one step with an
  outcome.
- The hardware layer (`HWlib.c` outside the ring, `INTlib.c`, `Regs.c`,
  `HWInit.c`): register access without state of its own. The receive rings of
  `HWlib.c` are the algorithm of `SerialRing`.
- `hash/Hashes.c`: arithmetic on words without control.
- `rs232/RS232Helper.c`: debug output.
- `bootloader/`: assembly that runs before the program.
- `modbus/functions/`: the slave role of FreeModbus, not called by a master.

Parts of modelled components:

- Gateway: the advertisement, the signal query, the LEDs, the inside of a
  firmware download, the wording of messages. Its calls of the modem cannot
  fail in `Gateway`; that they can is the subject of `GsmCommand` and
  `MqttClient`.
- FreeRTOS: the heap (`heap_2.c`), the assembly of the port, and the functions
  nobody calls (peek, receive from an interrupt, change of priority, deletion,
  `vTaskDelayUntil`, the inheritance of a mutex, which is taken without waiting
  here). A post of an interrupt above the kernel's priority in the middle of a
  critical section (`PostsInUnlock` has one such place, for the run of section 6
  only): U2RX in ASCII and PowerOne mode may come inside all of them. A task kept off the processor for more than one turn of the ticks is
  outside `WaitIsExact` (`Beyond`). What a task left in its wake time and in a
  slot of a queue is no value, since nothing may read it.
- Modem services: the parameters of the commands and the delays between the
  cases. Characters of a line are one; a line that was read too early leaves a
  crumb.
- `TCPClient_read`, which nobody calls; `eMBASCIIStop` and `ePoweroneStop`
  likewise.

Behaviours left out of a run, because the property fails in them:

- *Net*: a modem that fails inside `TCPRead` (`readbreak`: the block is counted
  as full) and a rest of a packet that is late without a fault (`stall`), both
  kinds of `FaultKinds` that the module has and the run does not; a close that
  fails (`noclose`, another such kind: the data of the socket that stays open is
  announced for the next one, `Hilo.c:1492`); written packets of 256 bytes and more, whose
  length is taken from an 8-bit copy. A flush of the socket is taken to end (see
  `FlushEnds`). A PUBLISH of 128 or 129 bytes, whose length field is taken to
  be one byte, is not left out: the run has the shorter one (`Edge`). It is lost,
  as in the code, and `MqttSession` allows it, since it lets a message be skipped;
  only an empty topic would have it delivered wrong, and no message has one.
- *Modes*: CR followed by something else than LF (`nolf`), a byte that arrives
  in the moment T4 expires, and a frame of exactly `PduMax` bytes fail
  assertions (`mbascii.c:435`, `159`), which stop the firmware; late answers of
  PowerOne slaves, which fit any request; a mode that changes within a
  transaction (`mb.c:475`). Counts of registers above 255 are cut to 8 bits and
  polls that are no multiple of three lose their last registers in the caller.
- *GSM*: the exceptions are written into `SuccessIsOwn` and `SuccessIsComplete`
  by name. `SuccessIsOwn` is about the services the gateway calls: with
  `cSMSSend` among them it fails, since its prompt counts as no case and its
  text is written twice (`SMSlib.c:289-313`), which leaves an echo and an error
  to the next command.

## 9. What could follow

1. The composition of `Gateway` with `RemoteCall`, so that a publication can
   fail or be suspended as the GSM layer does it.
2. `SpiFlash` for writes that cross a sector, with the firmware download as its
   user.
