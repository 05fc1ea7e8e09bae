------------------------------ MODULE Dispatch ------------------------------
(***************************************************************************)
(* CMatch and CCollector: the thread that takes requests from the queue    *)
(* and runs their handlers, and the thread that reports at an interval the *)
(* server may change.                                                      *)
(*                                                                         *)
(* MatchMessage starts a handler with std::async and keeps the future in a *)
(* variable of the loop's body: its destructor waits, so that the next     *)
(* request is not taken before the handlers of this one have returned.     *)
(* What a handler does to other components is modelled elsewhere: here it  *)
(* takes as long as it likes, returns, and may throw.                      *)
(***************************************************************************)
EXTENDS Integers, FiniteSets, Message

CONSTANTS
  Protocols,     \* the protocols of the requests the server sends
  Intervals,     \* the intervals it asks for, as atoi returns them
  FdLists,       \* how many descriptor lists CDevice holds
  MaxRequests,   \* bound: requests in a behaviour
  MaxQueue       \* bound: messages that wait when the timer pushes

WithData == {"MONITORING_REQUEST", "POLICY_REQUEST", "INSPECTION_REQUEST",
             "CHANGE_INTERVAL_REQUEST"}
WithoutData == {"DEVICE", "MODULE", "PROCESS"}
Unknown == "unknown"    \* a number that no enumerator has

ASSUME ProtocolsAssumption ==
  /\ Protocols \subseteq WithData \cup WithoutData \cup {Unknown}
  /\ Intervals \subseteq Int
  /\ FdLists \in Nat /\ MaxRequests \in Nat /\ MaxQueue \in Nat

VARIABLES
  \* CCollector
  time, timeMutex, timer, ticks, fdsLeft,
  \* CMatch
  current, stage, working, replyFds,
  \* histories
  requested,     \* the packets that came, in order
  answers        \* <<request, protocol>> of the messages handlers pushed, or
                 \* <<request, Exception>> of a handler that threw

collector == <<time, timeMutex, timer, ticks, fdsLeft>>
match     == <<current, stage, working, replyFds>>
history   == <<requested, answers>>
vars == <<queues, collector, match, history>>

Exception == "exception"
Free == "free"
Timer == "timer"
NoTime == 0             \* `time` before init has run: uninitialised
Default == 30

Packets == [id : 0 .. MaxRequests, protocol : Protocols \cup {"none"}, data : Int]
NoPacket == [id |-> 0, protocol |-> "none", data |-> 0]

Init ==
  /\ InitQueues
  /\ time = NoTime /\ timeMutex = Free
  /\ timer = "init" /\ ticks = 0 /\ fdsLeft = 0
  /\ current = NoPacket /\ stage = "idle" /\ working = {} /\ replyFds = 0
  /\ requested = <<>> /\ answers = <<>>

(***************************************************************************)
(* CCollector::init, and SetInterval.  sleep takes an unsigned number of   *)
(* seconds, and is called with timeMutex held.                             *)
(***************************************************************************)
setTime(t) == timeMutex = Free /\ time' = t

CollectorInit ==
  /\ timer = "init"
  /\ setTime(Default)
  /\ timer' = "device"
  /\ UNCHANGED <<queues, timeMutex, ticks, fdsLeft, match, history>>

TimerPush(label, protocol, next) ==
  /\ timer = label
  /\ Len(sendMessage) < MaxQueue
  /\ PushSendMessage([id |-> 0, protocol |-> protocol])
  /\ timer' = next
  /\ UNCHANGED <<receiveMessage, time, timeMutex, ticks, match, history>>

TimerDevice == TimerPush("device", "DEVICE", "process") /\ UNCHANGED fdsLeft

TimerProcess == TimerPush("process", "PROCESS", "fds") /\ fdsLeft' = FdLists

TimerFds ==
  /\ fdsLeft > 0
  /\ TimerPush("fds", "FILEDESCRIPTOR", "fds")
  /\ fdsLeft' = fdsLeft - 1

(* Every third time the data are collected anew, before the sleep. *)
TimerCount ==
  /\ timer = "fds" /\ fdsLeft = 0
  /\ ticks' = (ticks + 1) % 3
  /\ timer' = IF (ticks + 1) % 3 = 0 THEN "collect" ELSE "lock"
  /\ UNCHANGED <<queues, time, timeMutex, fdsLeft, match, history>>

(* collectAllData throws if popen fails, and reads for ever from a process *)
(* that has ended: the timer has stopped.                                  *)
TimerCollect ==
  /\ timer = "collect"
  /\ timer' \in {"lock", "stopped"}
  /\ UNCHANGED <<queues, time, timeMutex, ticks, fdsLeft, match, history>>

TimerSleep ==
  /\ timer = "lock" /\ timeMutex = Free
  /\ timeMutex' = Timer
  /\ timer' = "sleep"
  /\ UNCHANGED <<queues, time, ticks, fdsLeft, match, history>>

(* A negative interval is a sleep of more than a hundred years: no end. *)
TimerWake ==
  /\ timer = "sleep" /\ time >= 0
  /\ timeMutex' = Free
  /\ timer' = "device"
  /\ UNCHANGED <<queues, time, ticks, fdsLeft, match, history>>

(***************************************************************************)
(* CMatch::MatchMessage.                                                   *)
(***************************************************************************)
Handlers(protocol) ==
  IF protocol = "PROCESS" THEN {"PROCESS", "FILEDESCRIPTOR"}
  ELSE IF protocol \in {"DEVICE"} \cup WithData THEN {protocol}
  ELSE {}

(* Mutant: the queue is read from its end. *)
MatchMessageLast ==
  /\ stage = "idle"
  /\ receiveMessage # <<>>
  /\ LET last == Len(receiveMessage)
         packet == receiveMessage[last]
     IN  /\ receiveMessage' = SubSeq(receiveMessage, 1, last - 1)
         /\ current' = packet
         /\ working' = Handlers(packet.protocol)
         /\ stage' = IF Handlers(packet.protocol) = {} THEN "idle" ELSE "call"
  /\ replyFds' = FdLists
  /\ UNCHANGED <<sendMessage, collector, history>>

MatchMessage ==
  /\ stage = "idle"
  /\ receiveMessage # <<>>
  /\ LET packet == Head(receiveMessage)
     IN  /\ PopReceiveMessage(packet)
         /\ current' = packet
         /\ working' = Handlers(packet.protocol)
         /\ stage' = IF Handlers(packet.protocol) = {} THEN "idle" ELSE "call"
  /\ replyFds' = FdLists
  /\ UNCHANGED <<sendMessage, collector, history>>

(* Mutant: the first handler of a PROCESS request is not waited for. *)
JoinedEarly ==
  /\ stage = "call" /\ working \subseteq {"PROCESS"}
  /\ stage' = "idle"
  /\ UNCHANGED <<queues, collector, current, working, replyFds, history>>

(* The futures are destroyed: both handlers have returned. *)
Joined ==
  /\ stage = "call" /\ working = {}
  /\ stage' = "idle"
  /\ UNCHANGED <<queues, collector, current, working, replyFds, history>>

Answer(protocol) ==
  /\ PushSendMessage([id |-> current.id, protocol |-> protocol])
  /\ answers' = Append(answers, <<current.id, protocol>>)

(* ReqDeviceInfo, ReqProcessInfo. *)
ReqInfo(protocol) ==
  /\ stage = "call" /\ protocol \in working \cap WithoutData
  /\ Answer(protocol)
  /\ working' = working \ {protocol}
  /\ UNCHANGED <<receiveMessage, collector, current, stage, replyFds, requested>>

ReqFileDescriptorInfo ==
  /\ stage = "call" /\ "FILEDESCRIPTOR" \in working
  /\ IF replyFds > 0
       THEN /\ Answer("FILEDESCRIPTOR")
            /\ replyFds' = replyFds - 1
            /\ UNCHANGED working
       ELSE /\ working' = working \ {"FILEDESCRIPTOR"}
            /\ UNCHANGED <<sendMessage, answers, replyFds>>
  /\ UNCHANGED <<receiveMessage, collector, current, stage, requested>>

(* Mutant: a request that could not be carried out is not answered. *)
ReqCallSilent ==
  /\ stage = "call"
  /\ working \cap (WithData \ {"CHANGE_INTERVAL_REQUEST"}) # {}
  /\ \/ stage' = "reply" /\ UNCHANGED working
     \/ stage' = "call" /\ working' = {}
  /\ UNCHANGED <<queues, collector, current, replyFds, history>>

(* ReqMonitoring, ReqPolicy and ReqInspection, up to the return of the     *)
(* call they make: Add or RemoveMonitoringTarget, or Execute.              *)
ReqCall ==
  /\ stage = "call"
  /\ working \cap (WithData \ {"CHANGE_INTERVAL_REQUEST"}) # {}
  /\ stage' = "reply"
  /\ UNCHANGED <<queues, collector, current, working, replyFds, history>>

(* Exec throws in Execute: nobody looks at the future, and no RESPONSE is  *)
(* pushed.                                                                 *)
ReqThrow ==
  /\ stage = "call"
  /\ working \cap {"POLICY_REQUEST", "INSPECTION_REQUEST"} # {}
  /\ answers' = Append(answers, <<current.id, Exception>>)
  /\ working' = {}
  /\ UNCHANGED <<queues, collector, current, stage, replyFds, requested>>

(* ReqChangeInterval: atoi gives 0 for what is not a number. *)
ReqChangeInterval ==
  /\ stage = "call" /\ "CHANGE_INTERVAL_REQUEST" \in working
  /\ LET t == IF current.data = 0 THEN Default ELSE current.data IN setTime(t)
  /\ stage' = "reply"
  /\ UNCHANGED <<queues, timeMutex, timer, ticks, fdsLeft, current, working,
                 replyFds, requested, answers>>

(* Mutant: the response does not say which request it belongs to. *)
ReqReplyUnnumbered ==
  /\ stage = "reply"
  /\ PushSendMessage([id |-> -1, protocol |-> "RESPONSE"])
  /\ answers' = Append(answers, <<current.id, "RESPONSE">>)
  /\ working' = {}
  /\ stage' = "call"
  /\ UNCHANGED <<receiveMessage, collector, current, replyFds, requested>>

(* The RESPONSE of the handler, and its return. *)
ReqReply ==
  /\ stage = "reply"
  /\ Answer("RESPONSE")
  /\ working' = {}
  /\ stage' = "call"
  /\ UNCHANGED <<receiveMessage, collector, current, replyFds, requested>>

(***************************************************************************)
(* CCommunication: Recv pushes requests, Send pops messages.               *)
(***************************************************************************)
RecvPush ==
  /\ Len(requested) < MaxRequests
  /\ \E protocol \in Protocols :
     \E data \in IF protocol = "CHANGE_INTERVAL_REQUEST" THEN Intervals ELSE {0} :
       LET packet == [id |-> Len(requested) + 1, protocol |-> protocol,
                      data |-> data]
       IN  PushReceiveMessage(packet) /\ requested' = Append(requested, packet)
  /\ UNCHANGED <<sendMessage, collector, match, answers>>

SendPop ==
  /\ sendMessage # <<>>
  /\ sendMessage' = Tail(sendMessage)
  /\ UNCHANGED <<receiveMessage, collector, match, history>>

-----------------------------------------------------------------------------
SetInterval ==
  \/ TimerDevice \/ TimerProcess \/ TimerFds \/ TimerCount \/ TimerCollect
  \/ TimerSleep \/ TimerWake

Handle ==
  \/ \E protocol \in {"DEVICE", "PROCESS"} : ReqInfo(protocol)
  \/ ReqFileDescriptorInfo \/ ReqCall \/ ReqThrow \/ ReqReply

Next ==
  \/ CollectorInit \/ SetInterval
  \/ MatchMessage \/ Handle \/ ReqChangeInterval \/ Joined
  \/ RecvPush \/ SendPop

Spec == Init /\ [][Next]_vars

(***************************************************************************)
(* The threads run, and the scripts of policies and inspections end.  The  *)
(* timer works for a while between two sleeps, so a handler that waits for *)
(* timeMutex gets it.                                                      *)
(***************************************************************************)
FairSpec ==
  /\ Spec
  /\ WF_vars(CollectorInit) /\ WF_vars(SetInterval)
  /\ WF_vars(MatchMessage) /\ WF_vars(Handle) /\ WF_vars(Joined)
  /\ SF_vars(ReqChangeInterval)
  /\ WF_vars(SendPop)

-----------------------------------------------------------------------------
(* What is recorded of a handler: the messages it pushes, or its failure.  *)
Replies == {"DEVICE", "PROCESS", "FILEDESCRIPTOR", "RESPONSE", Exception}

(* The type of every variable. *)
TypeOK ==
  /\ sendMessage \in Seq([id : 0 .. MaxRequests, protocol : Replies])
  /\ receiveMessage \in Seq(Packets) /\ requested \in Seq(Packets)
  /\ time \in Int /\ timeMutex \in {Free, Timer} /\ ticks \in 0 .. 2
  /\ timer \in {"init", "device", "process", "fds", "collect", "lock", "sleep",
               "stopped"}
  /\ fdsLeft \in 0 .. FdLists /\ replyFds \in 0 .. FdLists
  /\ current \in Packets /\ stage \in {"idle", "call", "reply"}
  /\ working \subseteq WithData \cup WithoutData \cup {"FILEDESCRIPTOR"}
  /\ answers \in Seq((1 .. MaxRequests) \X Replies)

(* Before the next request is taken, everything the server expects of the  *)
(* ones before was pushed, once: their RESPONSE, unless the handler threw, *)
(* or the information asked for, with one message per descriptor list      *)
(* (CMatch.cpp:21-55).                                                     *)
Times(r, protocol) ==
  Cardinality({i \in 1 .. Len(answers) : answers[i] = <<r, protocol>>})

Complete(r) ==
  LET protocol == requested[r].protocol IN
  /\ protocol \in WithData => Times(r, "RESPONSE") + Times(r, Exception) = 1
  /\ \A info \in {"DEVICE", "PROCESS"} : protocol = info => Times(r, info) = 1
  /\ protocol = "PROCESS" => Times(r, "FILEDESCRIPTOR") = FdLists

AnsweredWhenIdle ==
  stage = "idle" =>
    \A r \in 1 .. Len(requested) - Len(receiveMessage) : Complete(r)

(* The answers of a request are pushed after those of the requests that    *)
(* came before it, also when its handlers run side by side                 *)
(* (CMatch.cpp:34-37, and the destructor of `result` at :55).              *)
AnswersInOrder ==
  \A i, j \in 1 .. Len(answers) : i < j => answers[i][1] <= answers[j][1]

(* Its inductive strengthening: the queue holds the last requests that     *)
(* came, and no answer belongs to one that comes after the packet in hand. *)
OrderInv ==
  LET taken == Len(requested) - Len(receiveMessage) IN
  /\ taken \in Nat
  /\ \A i \in 1 .. Len(receiveMessage) : receiveMessage[i].id = taken + i
  /\ current.id <= taken
  /\ \A i \in 1 .. Len(answers) : answers[i][1] <= current.id

(* The agent is the abstract service: the requests with data are settled   *)
(* once each, in order and in the end, by their RESPONSE or by a handler   *)
(* that threw (CMatch.cpp:13-56, 102-192).                                 *)
Outcomes == {i \in 1 .. Len(answers) : answers[i][2] \in {"RESPONSE", Exception}}

ServiceOf == INSTANCE Service WITH
  requested <- {r \in 1 .. Len(requested) : requested[r].protocol \in WithData},
  settled   <- {answers[i][1] : i \in Outcomes},
  outcomes  <- Cardinality(Outcomes)
ImplementsService == ServiceOf!ServiceSpec
=============================================================================
