--------------------------- MODULE Gateway_proofs ---------------------------
(***************************************************************************)
(* Proofs about Gateway: type correctness, and that the two tasks and      *)
(* their queues implement CommandPipeline.                                 *)
(***************************************************************************)
EXTENDS Gateway, TLAPS

(***************************************************************************)
(* Type correctness.                                                       *)
(***************************************************************************)
LEMMA FlagsStep == FlagsOK /\ [Next]_vars => FlagsOK'
<1> SUFFICES ASSUME FlagsOK, [Next]_vars
             PROVE  FlagsOK'
  OBVIOUS
<1> USE DEF FlagsOK, flyport, shared, modbus, queues, server, bounds
<1>1. Restart => FlagsOK'
  BY DEF Restart
<1>2. FlyportTask => FlagsOK'
  BY <1>1 DEF FlyportTask, Top, Connect, ConnectFails, Drain, Publish, LoopEnds,
     CommandComes, ConfigComes, UpgradeComes, Queue, QueueTimeout, Parse,
     StartModbus, Resume, UpgradeResets
<1>3. TaskModbus => FlagsOK'
  BY <1>1 DEF TaskModbus, Receive, Check, CommandSucceeds, CommandFails, Trap,
     Reply, PollCheck, Due, NotDue, PollEnds, PollSlave, SlavesEnd, PollFails,
     PollSucceeds, SendFeed
<1>4. LinkDown => FlagsOK'
  BY DEF LinkDown
<1>5. QED
  BY <1>2, <1>3, <1>4 DEF Next, vars

(* What a message is, and what a queue of one place may hold.              *)
LEMMA MessageFacts ==
  /\ NoMsg \in Messages
  /\ \A c \in Nat : Cmd(c) \in Messages /\ Rsp(c) \in Messages
  /\ \A f, r \in Nat : Feed(f, r) \in Messages
  /\ \A m \in Messages : m.type \in {"cmd", "rsp"} => m.seqno \in Nat
BY DEF Messages, NoMsg, Cmd, Rsp, Feed

LEMMA QueueFacts ==
  /\ <<>> \in Seq(Messages) /\ Len(<<>>) = 0
  /\ \A m \in Messages : <<m>> \in Seq(Messages) /\ Len(<<m>>) = 1 /\ <<m>>[1] = m
  /\ \A q \in Seq(Messages) : Len(q) <= 1 /\ q # <<>> =>
       Head(q) \in Messages /\ Head(q) = q[1] /\ Tail(q) = <<>>
OBVIOUS

(* What the configuration and the files it comes from may be.              *)
LEMMA ConfigFacts ==
  /\ NoFile \in Files
  /\ Inis \subseteq Files
  /\ MAX_NUM_POLL_TASKS \in Nat
  /\ NoConfig \in [nSlaves : Nat, nTasks : 0 .. MAX_NUM_POLL_TASKS,
                   pollTask : [1 .. MAX_NUM_POLL_TASKS -> Polls]]
BY GatewayAssumption DEF NoFile, Files, NoConfig, NoPoll, Polls

LEMMA RestartStep == TypeOK /\ Restart => TypeOK' /\ RouteInv'
<1> SUFFICES ASSUME TypeOK, Restart
             PROVE  TypeOK' /\ RouteInv'
  OBVIOUS
<1>1. FlagsOK'
  BY DEF FlagsOK, Restart
<1>2. QED
  BY <1>1, MessageFacts, QueueFacts, ConfigFacts
  DEF TypeOK, Restart, RouteInv, bounds

(***************************************************************************)
(* One step per action that touches a message, the configuration or the    *)
(* loop indices; the others are taken together.                            *)
(***************************************************************************)
LEMMA TypeStep == TypeOK /\ RouteInv /\ [Next]_vars => TypeOK' /\ RouteInv'
<1> SUFFICES ASSUME TypeOK, RouteInv, [Next]_vars
             PROVE  TypeOK' /\ RouteInv'
  OBVIOUS
<1>1. FlagsOK'
  BY FlagsStep DEF TypeOK
<1> USE DEF TypeOK, RouteInv, Fly, Modbus, flyport, shared, modbus, queues,
            server, bounds
<1>2. CASE Top \/ Connect \/ ConnectFails \/ LoopEnds \/ UpgradeComes
           \/ QueueTimeout \/ StartModbus \/ Resume
  <2>1. CASE Top
    BY <1>1, <2>1 DEF Top
  <2>2. CASE Connect
    BY <1>1, <2>2 DEF Connect
  <2>3. CASE ConnectFails
    BY <1>1, <2>3 DEF ConnectFails
  <2>4. CASE LoopEnds
    BY <1>1, <2>4 DEF LoopEnds
  <2>5. CASE UpgradeComes
    BY <1>1, <2>5 DEF UpgradeComes
  <2>6. CASE QueueTimeout
    BY <1>1, <2>6, MessageFacts DEF QueueTimeout, NoMsg
  <2>7. CASE StartModbus
    BY <1>1, <2>7 DEF StartModbus
  <2>8. CASE Resume
    BY <1>1, <2>8 DEF Resume
  <2>9. QED
    BY <1>2, <2>1, <2>2, <2>3, <2>4, <2>5, <2>6, <2>7, <2>8
<1>3. CASE Drain
  <2>1. CASE xQueueMqtt = <<>>
    BY <1>1, <1>3, <2>1 DEF Drain
  <2>2. CASE xQueueMqtt # <<>>
    <3>1. /\ xQueueMqtt[1] \in Messages /\ Head(xQueueMqtt) = xQueueMqtt[1]
          /\ Tail(xQueueMqtt) = <<>>
      BY <2>2, QueueFacts
    <3>2. held' = xQueueMqtt[1] /\ xQueueMqtt' = <<>> /\ fly' = "publish"
      BY <1>3, <2>2, <3>1 DEF Drain
    <3>3. <<>> \in Seq(Messages) /\ Len(<<>>) = 0
      BY QueueFacts
    <3>4. QED
      BY <1>1, <1>3, <2>2, <3>1, <3>2, <3>3 DEF Drain
  <2>3. QED
    BY <2>1, <2>2
<1>4. CASE Publish
  BY <1>1, <1>4, MessageFacts DEF Publish, NoMsg
<1>5. CASE CommandComes
  BY <1>1, <1>5, MessageFacts DEF CommandComes, Cmd
<1>6. CASE ConfigComes
  <2>1. ini' \in Files
    BY <1>6, ConfigFacts DEF ConfigComes
  <2>2. QED
    BY <1>1, <1>6, <2>1 DEF ConfigComes
<1>7. CASE Queue
  <2>1. held \in Messages /\ held.type = "cmd"
    BY <1>7 DEF Queue
  <2>2. /\ xQueueModbus' \in Seq(Messages) /\ Len(xQueueModbus') <= 1
        /\ xQueueModbus'[1].type = "cmd"
    BY <1>7, <2>1, QueueFacts DEF Queue
  <2>3. held' \in Messages
    BY <1>7, MessageFacts DEF Queue
  <2>4. QED
    BY <1>1, <1>7, <2>2, <2>3 DEF Queue
<1>8. CASE Parse
  <2>1. config' \in [nSlaves : Nat, nTasks : 0 .. MAX_NUM_POLL_TASKS,
                    pollTask : [1 .. MAX_NUM_POLL_TASKS -> Polls]]
    <3>1. ini.nSlaves \in Nat /\ ini.polls \in Seq(Polls) /\ config.nSlaves \in Nat
      BY DEF Files
    <3>2. /\ Len(ini.polls) \in Nat
          /\ \A k \in 1 .. Len(ini.polls) : ini.polls[k] \in Polls
      BY <3>1
    <3>3. \A k \in 1 .. MAX_NUM_POLL_TASKS : config.pollTask[k] \in Polls
      OBVIOUS
    <3>4. [k \in 1 .. MAX_NUM_POLL_TASKS |->
             IF k <= Len(ini.polls) THEN ini.polls[k] ELSE config.pollTask[k]]
            \in [1 .. MAX_NUM_POLL_TASKS -> Polls]
      BY <3>2, <3>3, ConfigFacts
    <3>5. (IF Len(ini.polls) > MAX_NUM_POLL_TASKS
           THEN MAX_NUM_POLL_TASKS ELSE Len(ini.polls)) \in 0 .. MAX_NUM_POLL_TASKS
      BY <3>2, ConfigFacts
    <3>6. (IF ini.nSlaves = 0 THEN config.nSlaves ELSE ini.nSlaves) \in Nat
      BY <3>1
    <3> HIDE DEF TypeOK, RouteInv
    <3>7. QED
      BY <1>8, <3>4, <3>5, <3>6 DEF Parse
  <2>2. QED
    BY <1>1, <1>8, <2>1 DEF Parse
<1>9. CASE Restart
  BY <1>9, RestartStep
<1>10. CASE Check \/ CommandSucceeds \/ CommandFails \/ PollCheck \/ Due \/ NotDue
            \/ PollEnds \/ SlavesEnd \/ PollFails
  <2>1. CASE Check
    BY <1>1, <2>1 DEF Check
  <2>2. CASE CommandSucceeds
    BY <1>1, <2>2 DEF CommandSucceeds
  <2>3. CASE CommandFails
    BY <1>1, <2>3 DEF CommandFails
  <2>4. CASE PollCheck
    BY <1>1, <2>4 DEF PollCheck
  <2>5. CASE Due
    BY <1>1, <2>5, ConfigFacts DEF Due
  <2>6. CASE NotDue
    BY <1>1, <2>6 DEF NotDue
  <2>7. CASE PollEnds
    BY <1>1, <2>7 DEF PollEnds
  <2>8. CASE SlavesEnd
    BY <1>1, <2>8 DEF SlavesEnd
  <2>9. CASE PollFails
    BY <1>1, <2>9 DEF PollFails
  <2>10. QED
    BY <1>10, <2>1, <2>2, <2>3, <2>4, <2>5, <2>6, <2>7, <2>8, <2>9
<1>11. CASE Receive
  <2>1. CASE xQueueModbus = <<>>
    BY <1>1, <1>11, <2>1 DEF Receive
  <2>2. CASE xQueueModbus # <<>>
    <3>1. /\ xQueueModbus[1] \in Messages /\ xQueueModbus[1].type = "cmd"
          /\ Head(xQueueModbus) = xQueueModbus[1] /\ Tail(xQueueModbus) = <<>>
      BY <2>2, QueueFacts
    <3>2. xQueueModbus[1].seqno \in Nat
      BY <3>1, MessageFacts
    <3>3. cmd' = xQueueModbus[1].seqno /\ xQueueModbus' = <<>> /\ task' = "check"
      BY <1>11, <2>2, <3>1 DEF Receive
    <3>4. <<>> \in Seq(Messages) /\ Len(<<>>) = 0
      BY QueueFacts
    <3>5. QED
      BY <1>1, <1>11, <2>2, <3>2, <3>3, <3>4 DEF Receive
  <2>3. QED
    BY <2>1, <2>2
<1>12. CASE Reply
  BY <1>1, <1>12, MessageFacts, QueueFacts DEF Reply, Send, Rsp
<1>13. CASE PollSlave
  <2>1. config.pollTask[i + 1] \in Polls
    <3>1. task = "slave"
      BY <1>13 DEF PollSlave
    <3>2. i + 1 \in 1 .. MAX_NUM_POLL_TASKS
      BY <3>1, ConfigFacts
    <3>3. QED
      BY <3>2
  <2>2. config.pollTask[i + 1].reg \in Nat
    BY <2>1 DEF Polls
  <2>3. QED
    BY <1>1, <1>13, <2>2 DEF PollSlave
<1>14. CASE PollSucceeds
  <2>1. config.pollTask[i + 1] \in Polls
    <3>1. task = "wait"
      BY <1>14 DEF PollSucceeds
    <3>2. i + 1 \in 1 .. MAX_NUM_POLL_TASKS
      BY <3>1, ConfigFacts
    <3>3. QED
      BY <3>2
  <2>2. config.pollTask[i + 1].fid \in Nat
    BY <2>1 DEF Polls
  <2>3. QED
    BY <1>1, <1>14, <2>2 DEF PollSucceeds
<1>15. CASE SendFeed
  <2>1. Feed(cmd, asked) \in Messages /\ Feed(cmd, asked).type = "feed"
    BY MessageFacts DEF Feed
  <2>2. QED
    BY <1>1, <1>15, <2>1, QueueFacts DEF SendFeed, Send
<1>16. CASE LinkDown
  BY <1>1, <1>16 DEF LinkDown
<1>17. CASE UNCHANGED vars
  BY <1>1, <1>17 DEF vars
<1>18. QED
  BY <1>2, <1>3, <1>4, <1>5, <1>6, <1>7, <1>8, <1>9, <1>10, <1>11, <1>12,
     <1>13, <1>14, <1>15, <1>16, <1>17
  DEF Next, FlyportTask, TaskModbus, UpgradeResets, Trap

(* No index of a poll leaves its table and no queue holds more than one    *)
(* message, for every table, every set of files and any number of          *)
(* commands, configurations and restarts (taskModbus.c:56-63).             *)
THEOREM TypeCorrect == Spec => []TypeOK
<1>1. Init => TypeOK /\ RouteInv
  <2>1. Init => FlagsOK
    BY DEF Init, FlagsOK
  <2>2. QED
    BY <2>1, MessageFacts, QueueFacts, ConfigFacts DEF Init, TypeOK, RouteInv
<1>2. TypeOK /\ RouteInv /\ [Next]_vars => (TypeOK /\ RouteInv)'
  BY TypeStep
<1>3. QED
  BY <1>1, <1>2, PTL DEF Spec

(***************************************************************************)
(* The command pipeline.  Facts about the sequence of places first.        *)
(***************************************************************************)
LEMMA SeqFacts ==
  ASSUME NEW s \in Seq(Nat), NEW t \in Seq(Nat), NEW u \in Seq(Nat), NEW c \in Nat
  PROVE  /\ <<c>> \in Seq(Nat) /\ <<>> \in Seq(Nat) /\ s \o t \in Seq(Nat)
         /\ s \o <<>> = s /\ <<>> \o s = s
         /\ s \o (t \o u) = (s \o t) \o u
         /\ Append(s, c) = s \o <<c>>
         /\ Head(<<c>> \o t) = c /\ Tail(<<c>> \o t) = t /\ <<c>> \o t # <<>>
<1>1. /\ <<c>> \in Seq(Nat) /\ <<>> \in Seq(Nat) /\ s \o t \in Seq(Nat)
      /\ s \o <<>> = s /\ <<>> \o s = s
  OBVIOUS
<1>2. s \o (t \o u) = (s \o t) \o u
  OBVIOUS
<1>3. Append(s, c) = s \o <<c>>
  OBVIOUS
<1>4. <<c>> \o t \in Seq(Nat) /\ Len(<<c>> \o t) = 1 + Len(t) /\ (<<c>> \o t)[1] = c
  OBVIOUS
<1>5. \A k \in 1 .. Len(t) : (<<c>> \o t)[k + 1] = t[k]
  OBVIOUS
<1>6. Head(<<c>> \o t) = c /\ <<c>> \o t # <<>>
  BY <1>4
<1>7. Tail(<<c>> \o t) = t
  <2>1. Tail(<<c>> \o t) \in Seq(Nat) /\ Len(Tail(<<c>> \o t)) = Len(t)
    BY <1>4
  <2>2. \A k \in 1 .. Len(t) : Tail(<<c>> \o t)[k] = t[k]
    BY <1>4, <1>5
  <2>3. QED
    BY <2>1, <2>2
<1>8. QED
  BY <1>1, <1>2, <1>3, <1>6, <1>7

LEMMA RemoveMiddle ==
  ASSUME NEW s \in Seq(Nat), NEW t \in Seq(Nat), NEW c \in Nat
  PROVE  LET all == s \o (<<c>> \o t)
         IN  /\ Len(s) + 1 \in DOMAIN all
             /\ RemoveAt(all, Len(s) + 1) = s \o t
<1> DEFINE all == s \o (<<c>> \o t)
<1>1. all \in Seq(Nat) /\ Len(all) = Len(s) + 1 + Len(t)
  OBVIOUS
<1>2. \A k \in 1 .. Len(all) :
        all[k] = IF k <= Len(s) THEN s[k]
                 ELSE IF k = Len(s) + 1 THEN c ELSE t[k - Len(s) - 1]
  OBVIOUS
<1>3. SubSeq(all, 1, Len(s)) = s
  BY <1>1, <1>2
<1>4. SubSeq(all, Len(s) + 2, Len(all)) = t
  BY <1>1, <1>2
<1>5. (Len(s) + 1) - 1 = Len(s) /\ (Len(s) + 1) + 1 = Len(s) + 2
  OBVIOUS
<1>6. RemoveAt(all, Len(s) + 1) = s \o t
  <2> HIDE DEF all
  <2>1. \A n : RemoveAt(all, n) = SubSeq(all, 1, n - 1) \o SubSeq(all, n + 1, Len(all))
    BY DEF RemoveAt
  <2>2. RemoveAt(all, Len(s) + 1) =
          SubSeq(all, 1, (Len(s) + 1) - 1) \o SubSeq(all, (Len(s) + 1) + 1, Len(all))
    BY <2>1, Zenon
  <2>3. RemoveAt(all, Len(s) + 1) =
          SubSeq(all, 1, Len(s)) \o SubSeq(all, Len(s) + 2, Len(all))
    BY <2>2, <1>5, Zenon
  <2>4. QED
    BY <2>3, <1>3, <1>4, Zenon
<1>7. Len(s) + 1 \in DOMAIN all
  BY <1>1
<1>8. QED
  BY <1>6, <1>7

(* Every place holds one command or none.                                  *)
LEMMA PlacesAre ==
  ASSUME TypeOK, RouteInv
  PROVE  /\ Published \in Seq(Nat) /\ Answered \in Seq(Nat)
         /\ Running \in Seq(Nat) /\ Queued \in Seq(Nat) /\ Offered \in Seq(Nat)
<1>1. \A m \in Messages : Of(m) \in Seq(Nat)
  BY MessageFacts, SeqFacts DEF Of
<1>2. \A q \in Seq(Messages) : OfQueue(q) \in Seq(Nat)
  BY <1>1 DEF OfQueue
<1>3. QED
  BY <1>1, <1>2 DEF TypeOK, Published, Answered, Running, Queued, Offered

(* The line of the five places, and a line that lost one of its commands.  *)
(* The operators on sequences get names of their own, which the leaves do  *)
(* not expand: what they use of them is CatFacts and EndFacts.             *)
Lines      == Seq(Nat)
Empty      == <<>>
One(c)     == <<c>>
Cat(s, t)  == s \o t
Push(s, c) == Append(s, c)
First(s)   == Head(s)
Rest(s)    == Tail(s)

Line(p, a, r, q, o) == Cat(p, Cat(a, Cat(r, Cat(q, o))))
Gone(s, t) == \E k \in DOMAIN s : t = RemoveAt(s, k)

LEMMA CatFacts ==
  /\ Empty \in Lines /\ \A c \in Nat : One(c) \in Lines
  /\ \A x \in Lines : Cat(x, Empty) = x /\ Cat(Empty, x) = x
  /\ \A x, y \in Lines : Cat(x, y) \in Lines
  /\ \A x, y, z \in Lines : Cat(Cat(x, y), z) = Cat(x, Cat(y, z))
<1>1. \A x, y, z \in Seq(Nat) : (x \o y) \o z = x \o (y \o z)
  OBVIOUS
<1>2. \A x \in Seq(Nat) : x \o <<>> = x /\ <<>> \o x = x
  OBVIOUS
<1>3. QED
  <2>1. /\ <<>> \in Seq(Nat) /\ \A c \in Nat : <<c>> \in Seq(Nat)
        /\ \A x, y \in Seq(Nat) : x \o y \in Seq(Nat)
    OBVIOUS
  <2>2. QED
    BY <1>1, <1>2, <2>1, Zenon DEF Cat, Empty, One, Lines

LEMMA EndFacts ==
  /\ \A t \in Lines, c \in Nat :
       /\ Cat(One(c), t) # Empty
       /\ First(Cat(One(c), t)) = c /\ Rest(Cat(One(c), t)) = t
  /\ \A s \in Lines, c \in Nat : Push(s, c) = Cat(s, One(c))
  /\ \A s, t \in Lines, c \in Nat : Gone(Cat(s, Cat(One(c), t)), Cat(s, t))
<1>1. \A t \in Seq(Nat), c \in Nat :
        /\ Cat(One(c), t) # Empty
        /\ First(Cat(One(c), t)) = c /\ Rest(Cat(One(c), t)) = t
  BY SeqFacts DEF Cat, One, Empty, First, Rest
<1>2. \A s \in Seq(Nat), c \in Nat : Push(s, c) = Cat(s, One(c))
  BY SeqFacts DEF Cat, One, Push
<1>3. \A s, t \in Seq(Nat), c \in Nat : Gone(Cat(s, Cat(One(c), t)), Cat(s, t))
  <2> SUFFICES ASSUME NEW s \in Seq(Nat), NEW t \in Seq(Nat), NEW c \in Nat
               PROVE  Gone(s \o (<<c>> \o t), s \o t)
    BY DEF Cat, One
  <2>1. /\ Len(s) + 1 \in DOMAIN (s \o (<<c>> \o t))
        /\ RemoveAt(s \o (<<c>> \o t), Len(s) + 1) = s \o t
    BY RemoveMiddle
  <2>2. QED
    BY <2>1, Zenon DEF Gone
<1>4. QED
  BY <1>1, <1>2, <1>3 DEF Lines

(* A command that moves on to the next place leaves the line as it is.     *)
LEMMA LineMoves ==
  ASSUME NEW p \in Lines, NEW a \in Lines, NEW r \in Lines, NEW q \in Lines,
         NEW o \in Lines
  PROVE  /\ Line(Empty, a, r, q, o) = Line(a, Empty, r, q, o)
         /\ Line(p, Empty, r, q, o) = Line(p, r, Empty, q, o)
         /\ Line(p, a, Empty, q, o) = Line(p, a, q, Empty, o)
         /\ Line(p, a, r, Empty, o) = Line(p, a, r, o, Empty)
<1>1. Cat(q, o) \in Lines /\ Cat(r, Cat(q, o)) \in Lines
      /\ Cat(a, Cat(r, Cat(q, o))) \in Lines
  BY CatFacts
<1>2. /\ Cat(Empty, Cat(a, Cat(r, Cat(q, o)))) = Cat(a, Cat(r, Cat(q, o)))
      /\ Cat(Empty, Cat(r, Cat(q, o))) = Cat(r, Cat(q, o))
      /\ Cat(Empty, Cat(q, o)) = Cat(q, o)
      /\ Cat(Empty, o) = o /\ Cat(o, Empty) = o
  BY <1>1, CatFacts
<1>3. QED
  BY <1>2, Zenon DEF Line

(* The line up to its last place, and after its first.                     *)
LEMMA LineEnds ==
  ASSUME NEW p \in Lines, NEW a \in Lines, NEW r \in Lines, NEW q \in Lines
  PROVE  /\ Cat(p, Cat(a, Cat(r, q))) \in Lines
         /\ \A o \in Lines :
              Line(p, a, r, q, o) = Cat(Cat(p, Cat(a, Cat(r, q))), o)
<1>1. Cat(r, q) \in Lines /\ Cat(a, Cat(r, q)) \in Lines
      /\ Cat(p, Cat(a, Cat(r, q))) \in Lines
  BY CatFacts
<1> SUFFICES ASSUME NEW o \in Lines
             PROVE  Line(p, a, r, q, o) = Cat(Cat(p, Cat(a, Cat(r, q))), o)
  BY <1>1
<1>2. Cat(Cat(r, q), o) = Cat(r, Cat(q, o))
  BY CatFacts
<1>3. Cat(Cat(a, Cat(r, q)), o) = Cat(a, Cat(Cat(r, q), o))
  BY <1>1, CatFacts
<1>4. Cat(Cat(p, Cat(a, Cat(r, q))), o) = Cat(p, Cat(Cat(a, Cat(r, q)), o))
  BY <1>1, CatFacts
<1>5. QED
  BY <1>2, <1>3, <1>4, Zenon DEF Line

(* A command that comes in takes the end of the line.                      *)
LEMMA LineReceives ==
  ASSUME NEW p \in Lines, NEW a \in Lines, NEW r \in Lines, NEW q \in Lines,
         NEW c \in Nat
  PROVE  Line(p, a, r, q, One(c)) = Push(Line(p, a, r, q, Empty), c)
<1> DEFINE s == Cat(p, Cat(a, Cat(r, q)))
<1>1. s \in Lines /\ \A o \in Lines : Line(p, a, r, q, o) = Cat(s, o)
  BY LineEnds
<1> HIDE DEF s
<1>2. Cat(s, Empty) = s /\ Push(s, c) = Cat(s, One(c))
  BY <1>1, CatFacts, EndFacts
<1>3. QED
  BY <1>1, <1>2, CatFacts, Zenon

(* A command that is answered was the head of the line.                    *)
LEMMA LineAnswers ==
  ASSUME NEW a \in Lines, NEW r \in Lines, NEW q \in Lines, NEW o \in Lines,
         NEW c \in Nat
  PROVE  /\ Line(One(c), a, r, q, o) # Empty
         /\ First(Line(One(c), a, r, q, o)) = c
         /\ Rest(Line(One(c), a, r, q, o)) = Line(Empty, a, r, q, o)
         /\ Gone(Line(One(c), a, r, q, o), Line(Empty, a, r, q, o))
<1> DEFINE t == Cat(a, Cat(r, Cat(q, o)))
<1>1. /\ t \in Lines /\ Line(Empty, a, r, q, o) = Cat(Empty, t)
      /\ Line(One(c), a, r, q, o) = Cat(One(c), t)
  BY CatFacts DEF Line
<1> HIDE DEF t
<1>2. Cat(Empty, t) = t /\ Cat(Empty, Cat(One(c), t)) = Cat(One(c), t)
  BY <1>1, CatFacts
<1>3. /\ Cat(One(c), t) # Empty
      /\ First(Cat(One(c), t)) = c /\ Rest(Cat(One(c), t)) = t
  BY <1>1, EndFacts
<1>4. Gone(Cat(Empty, Cat(One(c), t)), Cat(Empty, t))
  BY <1>1, CatFacts, EndFacts
<1>5. QED
  BY <1>1, <1>2, <1>3, <1>4, Zenon

(* A command that is given up where it runs, or where it is offered.       *)
LEMMA LineLoses ==
  ASSUME NEW p \in Lines, NEW a \in Lines, NEW r \in Lines, NEW q \in Lines,
         NEW o \in Lines, NEW c \in Nat
  PROVE  /\ Gone(Line(p, a, One(c), q, o), Line(p, a, Empty, q, o))
         /\ Gone(Line(p, a, r, q, One(c)), Line(p, a, r, q, Empty))
<1>1. \A s, t \in Lines : Gone(Cat(s, Cat(One(c), t)), Cat(s, t))
  BY EndFacts
<1>2. Gone(Line(p, a, One(c), q, o), Line(p, a, Empty, q, o))
  <2> DEFINE t == Cat(q, o)
  <2>1. /\ Line(p, a, One(c), q, o) = Cat(p, Cat(a, Cat(One(c), t)))
        /\ Line(p, a, Empty, q, o) = Cat(p, Cat(a, Cat(Empty, t)))
        /\ t \in Lines
    BY CatFacts DEF Line
  <2> HIDE DEF t
  <2>2. Cat(p, a) \in Lines /\ Cat(One(c), t) \in Lines /\ Cat(Empty, t) = t
    BY <2>1, CatFacts
  <2>3. Gone(Cat(Cat(p, a), Cat(One(c), t)), Cat(Cat(p, a), t))
    BY <1>1, <2>1, <2>2
  <2>4. Cat(Cat(p, a), t) = Cat(p, Cat(a, t))
    BY <2>1, CatFacts
  <2>5. Cat(Cat(p, a), Cat(One(c), t)) = Cat(p, Cat(a, Cat(One(c), t)))
    BY <2>2, CatFacts
  <2>6. QED
    BY <2>1, <2>2, <2>3, <2>4, <2>5, Zenon
<1>3. Gone(Line(p, a, r, q, One(c)), Line(p, a, r, q, Empty))
  <2> DEFINE s == Cat(p, Cat(a, Cat(r, q)))
  <2>1. s \in Lines /\ \A l \in Lines : Line(p, a, r, q, l) = Cat(s, l)
    BY LineEnds
  <2> HIDE DEF s
  <2>2. Gone(Cat(s, Cat(One(c), Empty)), Cat(s, Empty)) /\ Cat(One(c), Empty) = One(c)
    BY <1>1, <2>1, CatFacts
  <2>3. QED
    BY <2>1, <2>2, CatFacts, Zenon
<1>4. QED
  BY <1>2, <1>3

(***************************************************************************)
(* What each action does to the five places.                               *)
(***************************************************************************)
Become(p, a, r, q, o) ==
  /\ Published' = p /\ Answered' = a /\ Running' = r /\ Queued' = q
  /\ Offered' = o

Same == Become(Published, Answered, Running, Queued, Offered)

(* Steps that leave every command where it is.                             *)
LEMMA QuietFlyport ==
  /\ Top \/ Connect \/ ConnectFails \/ LoopEnds \/ ConfigComes \/ UpgradeComes
       \/ Parse \/ StartModbus \/ Resume \/ LinkDown \/ UNCHANGED vars
  => Same /\ UNCHANGED <<arrived, answered>>
BY DEF Top, Connect, ConnectFails, LoopEnds, ConfigComes, UpgradeComes, Parse,
   StartModbus, Resume, LinkDown, Fly, Same, Become, Published, Answered,
   Running, Queued, Offered, Of, OfQueue, vars, flyport, shared, modbus, queues,
   server, bounds

LEMMA QuietModbus ==
  CommandSucceeds \/ CommandFails \/ PollCheck \/ Due \/ NotDue \/ PollEnds
    \/ PollSlave \/ SlavesEnd \/ PollFails \/ PollSucceeds \/ SendFeed
  => Same /\ UNCHANGED <<arrived, answered>>
<1>1. CommandSucceeds \/ CommandFails \/ PollCheck \/ Due \/ NotDue \/ PollEnds
        \/ PollSlave \/ SlavesEnd \/ PollFails \/ PollSucceeds
      => Same /\ UNCHANGED <<arrived, answered>>
  BY DEF CommandSucceeds, CommandFails, PollCheck, Due, NotDue, PollEnds,
     PollSlave, SlavesEnd, PollFails, PollSucceeds, Modbus, Same, Become,
     Published, Answered, Running, Queued, Offered, Of, OfQueue, flyport, shared,
     queues, server, bounds
<1>2. SendFeed => Same /\ UNCHANGED <<arrived, answered>>
  <2>1. ASSUME SendFeed
        PROVE  Answered = Empty /\ Answered' = Empty
    BY <2>1 DEF SendFeed, Send, Feed, Answered, OfQueue, Of, Empty
  <2>2. ASSUME SendFeed
        PROVE  /\ Published' = Published /\ Running' = Running
               /\ Queued' = Queued /\ Offered' = Offered
               /\ UNCHANGED <<arrived, answered>>
    BY <2>2 DEF SendFeed, Modbus, Published, Running, Queued, Offered, Of,
       OfQueue, flyport, shared, server, bounds
  <2>3. QED
    BY <2>1, <2>2 DEF Same, Become
<1>3. QED
  BY <1>1, <1>2

(* Steps of FlyportTask that move a command.                               *)
LEMMA FlyportMoves ==
  ASSUME TypeOK, RouteInv
  PROVE  /\ Drain =>
              /\ \/ Same
                 \/ /\ Published = Empty
                    /\ Become(Answered, Empty, Running, Queued, Offered)
              /\ UNCHANGED <<arrived, answered>>
         /\ Publish =>
              /\ Become(Empty, Answered, Running, Queued, Offered)
              /\ UNCHANGED arrived
              /\ \/ Published = Empty /\ UNCHANGED answered
                 \/ \E c \in Nat : /\ Published = One(c)
                                   /\ answered' \in {c, answered}
         /\ CommandComes =>
              /\ Offered = Empty
              /\ Become(Published, Answered, Running, Queued, One(arrived + 1))
              /\ arrived' = arrived + 1 /\ UNCHANGED answered
         /\ Queue =>
              /\ Queued = Empty
              /\ Become(Published, Answered, Running, Offered, Empty)
              /\ UNCHANGED <<arrived, answered>>
         /\ QueueTimeout =>
              /\ \E c \in Nat : Offered = One(c)
              /\ Become(Published, Answered, Running, Queued, Empty)
              /\ UNCHANGED <<arrived, answered>>
<1> USE DEF Become, Published, Answered, Running, Queued, Offered, Fly, modbus,
            queues, server, bounds, shared
<1>1. /\ RouteInv
      /\ xQueueMqtt # <<>> => /\ Head(xQueueMqtt) = xQueueMqtt[1]
                              /\ Tail(xQueueMqtt) = <<>>
      /\ \A m \in Messages : m.type \in {"cmd", "rsp"} => m.seqno \in Nat
      /\ held \in Messages /\ arrived \in Nat
  BY QueueFacts, MessageFacts DEF TypeOK
<1>2. Drain => /\ \/ Same
                  \/ /\ Published = Empty
                     /\ Become(Answered, Empty, Running, Queued, Offered)
               /\ UNCHANGED <<arrived, answered>>
  BY <1>1 DEF Drain, Same, OfQueue, Empty
<1>3. Publish =>
        /\ Become(Empty, Answered, Running, Queued, Offered)
        /\ UNCHANGED arrived
        /\ \/ Published = Empty /\ UNCHANGED answered
           \/ \E c \in Nat : /\ Published = One(c)
                             /\ answered' \in {c, answered}
  BY <1>1 DEF Publish, RouteInv, Of, Empty, One
<1>4. CommandComes =>
        /\ Offered = Empty
        /\ Become(Published, Answered, Running, Queued, One(arrived + 1))
        /\ arrived' = arrived + 1 /\ UNCHANGED answered
  BY <1>1 DEF CommandComes, Cmd, Of, Empty, One
<1>5. Queue =>
        /\ Queued = Empty
        /\ Become(Published, Answered, Running, Offered, Empty)
        /\ UNCHANGED <<arrived, answered>>
  BY <1>1 DEF Queue, OfQueue, Empty
<1>6. QueueTimeout =>
        /\ \E c \in Nat : Offered = One(c)
        /\ Become(Published, Answered, Running, Queued, Empty)
        /\ UNCHANGED <<arrived, answered>>
  BY <1>1 DEF QueueTimeout, RouteInv, Of, Empty, One
<1>7. QED
  BY <1>2, <1>3, <1>4, <1>5, <1>6

(* Steps of TaskModbus that move a command, and a restart.                 *)
LEMMA ModbusMoves ==
  ASSUME TypeOK, RouteInv
  PROVE  /\ Receive =>
              /\ \/ Same
                 \/ /\ Running = Empty
                    /\ Become(Published, Answered, Queued, Empty, Offered)
              /\ UNCHANGED <<arrived, answered>>
         /\ Check =>
              /\ \/ Same
                 \/ /\ \E c \in Nat : Running = One(c)
                    /\ Become(Published, Answered, Empty, Queued, Offered)
              /\ UNCHANGED <<arrived, answered>>
         /\ Reply =>
              /\ Answered = Empty
              /\ Become(Published, Running, Empty, Queued, Offered)
              /\ UNCHANGED <<arrived, answered>>
         /\ Restart =>
              /\ Become(Empty, Empty, Empty, Empty, Empty)
              /\ UNCHANGED <<arrived, answered>>
<1> USE DEF Become, Published, Answered, Running, Queued, Offered, Modbus,
            flyport, queues, server, bounds, shared
<1>1. /\ RouteInv
      /\ xQueueModbus # <<>> => /\ Head(xQueueModbus) = xQueueModbus[1]
                                /\ Tail(xQueueModbus) = <<>>
      /\ cmd \in Nat
  BY QueueFacts DEF TypeOK
<1>2. Receive => /\ \/ Same
                    \/ /\ Running = Empty
                       /\ Become(Published, Answered, Queued, Empty, Offered)
                 /\ UNCHANGED <<arrived, answered>>
  BY <1>1 DEF Receive, RouteInv, Same, OfQueue, Of, Empty
<1>3. Check => /\ \/ Same
                  \/ /\ \E c \in Nat : Running = One(c)
                     /\ Become(Published, Answered, Empty, Queued, Offered)
               /\ UNCHANGED <<arrived, answered>>
  BY <1>1 DEF Check, Same, Empty, One
<1>4. Reply => /\ Answered = Empty
               /\ Become(Published, Running, Empty, Queued, Offered)
               /\ UNCHANGED <<arrived, answered>>
  BY <1>1 DEF Reply, Send, Rsp, OfQueue, Of, Empty
<1>5. Restart => /\ Become(Empty, Empty, Empty, Empty, Empty)
                 /\ UNCHANGED <<arrived, answered>>
  BY DEF Restart, OfQueue, Empty
<1>6. QED
  BY <1>2, <1>3, <1>4, <1>5

(***************************************************************************)
(* The refinement.                                                         *)
(***************************************************************************)
LEMMA PendingIsALine ==
  Pending = Line(Published, Answered, Running, Queued, Offered)
BY DEF Pending, Line, Cat

(* Pending in the next state, given where the commands are then.           *)
LEMMA PendingBecomes ==
  ASSUME NEW p, NEW a, NEW r, NEW q, NEW o, Become(p, a, r, q, o)
  PROVE  Pending' = Line(p, a, r, q, o)
BY DEF Become, Pending, Line, Cat

PipeNext == Pipeline!Next \/ UNCHANGED <<Pending, arrived, answered>>

LEMMA PipeRules ==
  /\ (Gone(Pending, Pending') /\ UNCHANGED <<arrived, answered>>) => PipeNext
  /\ (/\ Pending # Empty /\ answered' = First(Pending)
      /\ Pending' = Rest(Pending) /\ UNCHANGED arrived) => PipeNext
  /\ (/\ Pending' = Push(Pending, arrived + 1) /\ arrived' = arrived + 1
      /\ UNCHANGED answered) => PipeNext
  /\ (Pending' = Empty /\ UNCHANGED <<arrived, answered>>) => PipeNext
BY DEF Gone, Empty, Push, First, Rest, RemoveAt, Pipeline!RemoveAt, PipeNext,
   Pipeline!Next, Pipeline!Receive, Pipeline!Answer, Pipeline!GiveUp,
   Pipeline!Forget

LEMMA PipeStep == TypeOK /\ RouteInv /\ [Next]_vars => PipeNext
<1> SUFFICES ASSUME TypeOK, RouteInv, [Next]_vars
             PROVE  PipeNext
  OBVIOUS
<1> DEFINE p == Published
           a == Answered
           r == Running
           q == Queued
           o == Offered
<1>1. p \in Lines /\ a \in Lines /\ r \in Lines /\ q \in Lines /\ o \in Lines
  BY PlacesAre DEF Lines
<1>2. Pending = Line(p, a, r, q, o)
  BY PendingIsALine
<1>3. \A u, v, w, x, y : Become(u, v, w, x, y) => Pending' = Line(u, v, w, x, y)
  BY PendingBecomes
<1>4. arrived \in Nat
  BY DEF TypeOK
<1>5. Same => Pending' = Pending
  BY <1>2, <1>3, Zenon DEF Same
<1> HIDE DEF p, a, r, q, o
<1>10. CASE Same /\ UNCHANGED <<arrived, answered>>
  BY <1>5, <1>10 DEF PipeNext
<1>11. CASE Drain
  <2>1. CASE p = Empty /\ Become(a, Empty, r, q, o)
    <3>1. Pending' = Pending
      BY <1>1, <1>2, <1>3, <2>1, LineMoves
    <3>2. QED
      BY <3>1, <1>11, FlyportMoves DEF PipeNext
  <2>2. QED
    BY <1>10, <1>11, <2>1, FlyportMoves DEF p, a, r, q, o
<1>12. CASE Publish
  <2>1. Become(Empty, a, r, q, o) /\ UNCHANGED arrived
    BY <1>12, FlyportMoves DEF a, r, q, o
  <2>2. Pending' = Line(Empty, a, r, q, o)
    BY <2>1, <1>3, Zenon
  <2>3. CASE p = Empty /\ UNCHANGED answered
    BY <2>1, <2>2, <2>3, <1>2 DEF PipeNext
  <2>4. CASE \E c \in Nat : p = One(c) /\ answered' \in {c, answered}
    <3>1. PICK c \in Nat : p = One(c) /\ answered' \in {c, answered}
      BY <2>4
    <3>2. /\ Pending # Empty /\ First(Pending) = c /\ Rest(Pending) = Pending'
          /\ Gone(Pending, Pending')
      <4>1. Pending = Line(One(c), a, r, q, o)
        BY <1>2, <3>1
      <4>2. QED
        BY <1>1, <2>2, <4>1, LineAnswers
    <3>3. QED
      BY <2>1, <3>1, <3>2, PipeRules
  <2>5. QED
    BY <1>12, <2>3, <2>4, FlyportMoves DEF p
<1>13. CASE CommandComes
  <2>1. /\ o = Empty /\ Become(p, a, r, q, One(arrived + 1))
        /\ arrived' = arrived + 1 /\ UNCHANGED answered
    BY <1>13, FlyportMoves DEF p, a, r, q, o
  <2>2. Pending' = Line(p, a, r, q, One(arrived + 1))
    BY <2>1, <1>3, Zenon
  <2>3. PICK n \in Nat : n = arrived + 1
    BY <1>4
  <2>4. Pending' = Push(Pending, n)
    <3>1. Line(p, a, r, q, One(n)) = Push(Line(p, a, r, q, Empty), n)
      BY <1>1, LineReceives
    <3>2. Pending = Line(p, a, r, q, Empty) /\ Pending' = Line(p, a, r, q, One(n))
      BY <1>2, <2>1, <2>2, <2>3
    <3>3. QED
      BY <3>1, <3>2
  <2>5. QED
    BY <2>1, <2>3, <2>4, PipeRules
<1>14. CASE Queue
  <2>1. q = Empty /\ Become(p, a, r, o, Empty) /\ UNCHANGED <<arrived, answered>>
    BY <1>14, FlyportMoves DEF p, a, r, q, o
  <2>2. Pending' = Pending
    BY <1>1, <1>2, <1>3, <2>1, LineMoves
  <2>3. QED
    BY <2>1, <2>2 DEF PipeNext
<1>15. CASE QueueTimeout
  <2>1. PICK c \in Nat : o = One(c)
    BY <1>15, FlyportMoves DEF o
  <2>2. Become(p, a, r, q, Empty) /\ UNCHANGED <<arrived, answered>>
    BY <1>15, FlyportMoves DEF p, a, r, q
  <2>3. Gone(Pending, Pending')
    BY <1>1, <1>2, <1>3, <2>1, <2>2, LineLoses
  <2>4. QED
    BY <2>2, <2>3, PipeRules
<1>16. CASE Receive
  <2>1. CASE r = Empty /\ Become(p, a, q, Empty, o)
    <3>1. Pending' = Pending
      BY <1>1, <1>2, <1>3, <2>1, LineMoves
    <3>2. QED
      BY <3>1, <1>16, ModbusMoves DEF PipeNext
  <2>2. QED
    BY <1>10, <1>16, <2>1, ModbusMoves DEF p, a, r, q, o
<1>17. CASE Check
  <2>1. CASE (\E c \in Nat : r = One(c)) /\ Become(p, a, Empty, q, o)
    <3>1. PICK c \in Nat : r = One(c)
      BY <2>1
    <3>2. Gone(Pending, Pending')
      BY <1>1, <1>2, <1>3, <2>1, <3>1, LineLoses
    <3>3. QED
      BY <3>2, <1>17, ModbusMoves, PipeRules
  <2>2. QED
    BY <1>10, <1>17, <2>1, ModbusMoves DEF p, a, r, q, o
<1>18. CASE Reply
  <2>1. a = Empty /\ Become(p, r, Empty, q, o) /\ UNCHANGED <<arrived, answered>>
    BY <1>18, ModbusMoves DEF p, a, r, q, o
  <2>2. Pending' = Pending
    BY <1>1, <1>2, <1>3, <2>1, LineMoves
  <2>3. QED
    BY <2>1, <2>2 DEF PipeNext
<1>19. CASE Restart
  <2>1. /\ Become(Empty, Empty, Empty, Empty, Empty)
        /\ UNCHANGED <<arrived, answered>>
    BY <1>19, ModbusMoves
  <2>2. Line(Empty, Empty, Empty, Empty, Empty) = Empty
    BY CatFacts DEF Line
  <2>3. QED
    BY <2>1, <2>2, <1>3, PipeRules
<1>20. QED
  BY <1>10, <1>11, <1>12, <1>13, <1>14, <1>15, <1>16, <1>17, <1>18, <1>19,
     QuietFlyport, QuietModbus
  DEF Next, FlyportTask, TaskModbus, UpgradeResets, Trap

(* For every queue of commands, every configuration and every pattern of   *)
(* lost connections and restarts, the two tasks answer a command at most   *)
(* once and in the order of arrival, and never one they gave up            *)
(* (taskFlyport.c:282-307, 443-453, taskModbus.c:75-107).                  *)
THEOREM CommandsArePipelined == Spec => IsPipeline
<1>1. Init => Pipeline!Init
  BY DEF Init, Pipeline!Init, Pending, Published, Answered, Running, Queued,
     Offered, OfQueue
<1>2. TypeOK /\ RouteInv /\ [Next]_vars
        => [Pipeline!Next]_<<Pending, arrived, answered>>
  BY PipeStep DEF PipeNext
<1>3. Init => TypeOK /\ RouteInv
  <2>1. Init => FlagsOK
    BY DEF Init, FlagsOK
  <2>2. QED
    BY <2>1, MessageFacts, QueueFacts, ConfigFacts DEF Init, TypeOK, RouteInv
<1>4. TypeOK /\ RouteInv /\ [Next]_vars => (TypeOK /\ RouteInv)'
  BY TypeStep
<1>5. QED
  BY <1>1, <1>2, <1>3, <1>4, PTL DEF Spec, IsPipeline, Pipeline!Spec
=============================================================================
