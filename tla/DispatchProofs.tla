---------------------------- MODULE DispatchProofs ----------------------------
(***************************************************************************)
(* Theorems about Dispatch, for any number of requests and descriptor      *)
(* lists: answers are pushed in the order of the requests, every request   *)
(* that was taken is answered completely and once before the next one is,  *)
(* and the variables keep their types.                                     *)
(***************************************************************************)
EXTENDS Dispatch, FiniteSetTheorems, SequenceTheorems, TLAPS

(* The types the order depends on. *)
OrderType ==
  /\ receiveMessage \in Seq(Packets) /\ requested \in Seq(Packets)
  /\ current \in Packets
  /\ answers \in Seq(Nat \X Replies)

OrderIInv == OrderType /\ OrderInv /\ AnswersInOrder

(* At first nothing has come and nothing was answered. *)
LEMMA OrderInit == Init => OrderIInv
<1> SUFFICES ASSUME Init PROVE OrderIInv
  OBVIOUS
<1>1. OrderType
  BY ProtocolsAssumption DEF Init, InitQueues, OrderType, NoPacket, Packets
<1>2. OrderInv /\ AnswersInOrder
  BY DEF Init, InitQueues, OrderInv, AnswersInOrder, NoPacket
<1> QED
  BY <1>1, <1>2 DEF OrderIInv

(* A step that neither takes nor answers a request keeps the invariant. *)
LEMMA OrderSame ==
  ASSUME OrderIInv, UNCHANGED <<receiveMessage, requested, current, answers>>
  PROVE  OrderIInv'
  BY DEF OrderIInv, OrderType, OrderInv, AnswersInOrder

(* An answer goes behind the others, and is for the packet in hand. *)
LEMMA OrderAnswer ==
  ASSUME OrderIInv, NEW protocol \in Replies,
         answers' = Append(answers, <<current.id, protocol>>),
         UNCHANGED <<receiveMessage, requested, current>>
  PROVE  OrderIInv'
<1> DEFINE answer == <<current.id, protocol>>
<1>1. /\ answers \in Seq(Nat \X Replies) /\ current \in Packets
      /\ answers' = Append(answers, answer)
  BY DEF OrderIInv, OrderType
<1>2. current.id \in Nat
  BY <1>1, ProtocolsAssumption DEF Packets
<1>3. answer \in Nat \X Replies /\ answer[1] = current.id
  BY <1>2
<1> HIDE DEF answer
<1>4. /\ answers' \in Seq(Nat \X Replies)
      /\ Len(answers') = Len(answers) + 1
      /\ \A i \in 1 .. Len(answers) : answers'[i] = answers[i]
      /\ answers'[Len(answers) + 1] = answer
  BY <1>1, <1>3, AppendProperties
<1>5. \A i \in 1 .. Len(answers') : answers'[i][1] <= current.id
  BY <1>1, <1>2, <1>3, <1>4, SMTT(40) DEF OrderIInv, OrderInv
<1>6. ASSUME NEW i \in 1 .. Len(answers'), NEW j \in 1 .. Len(answers'), i < j
      PROVE  answers'[i][1] <= answers'[j][1]
  <2>1. CASE j = Len(answers) + 1
    BY <1>3, <1>4, <1>5, <2>1
  <2>2. CASE j # Len(answers) + 1
    <3>1. i \in 1 .. Len(answers) /\ j \in 1 .. Len(answers)
      BY <1>1, <1>4, <1>6, <2>2
    <3> QED
      BY <1>4, <1>6, <3>1 DEF OrderIInv, AnswersInOrder
  <2> QED
    BY <2>1, <2>2
<1> QED
  BY <1>4, <1>5, <1>6 DEF OrderIInv, OrderType, OrderInv, AnswersInOrder

(* The dispatcher takes the first packet that waits (CMatch.cpp:23). *)
LEMMA OrderMatch == OrderIInv /\ MatchMessage => OrderIInv'
<1> SUFFICES ASSUME OrderIInv, MatchMessage PROVE OrderIInv'
  OBVIOUS
<1>1. /\ receiveMessage \in Seq(Packets) /\ receiveMessage # <<>>
      /\ current' = Head(receiveMessage)
      /\ receiveMessage' = Tail(receiveMessage)
      /\ UNCHANGED <<requested, answers>>
  BY DEF OrderIInv, OrderType, MatchMessage, PopReceiveMessage, history
<1>2. /\ receiveMessage' \in Seq(Packets)
      /\ Len(receiveMessage') = Len(receiveMessage) - 1
      /\ \A i \in 1 .. Len(receiveMessage') :
           receiveMessage'[i] = receiveMessage[i + 1]
      /\ Len(receiveMessage) >= 1 /\ current' = receiveMessage[1]
      /\ current' \in Packets
  BY <1>1, HeadTailProperties
<1>3. current \in Packets => current.id \in Nat
  BY ProtocolsAssumption DEF Packets
<1>4. current'.id = Len(requested) - Len(receiveMessage) + 1
  BY <1>1, <1>2 DEF OrderIInv, OrderInv, OrderType
<1>5. \A i \in 1 .. Len(answers) : answers[i][1] <= current'.id
  BY <1>1, <1>3, <1>4, SMTT(40) DEF OrderIInv, OrderInv, OrderType
<1> QED
  BY <1>1, <1>2, <1>4, <1>5 DEF OrderIInv, OrderInv, OrderType, AnswersInOrder

(* A request goes behind those that wait (CCommunication.cpp:138). *)
LEMMA OrderPush == OrderIInv /\ RecvPush => OrderIInv'
<1> SUFFICES ASSUME OrderIInv, RecvPush PROVE OrderIInv'
  OBVIOUS
<1>0. PICK protocol \in Protocols, data \in Int :
        LET packet == [id |-> Len(requested) + 1, protocol |-> protocol,
                       data |-> data]
        IN  PushReceiveMessage(packet) /\ requested' = Append(requested, packet)
  BY ProtocolsAssumption DEF RecvPush
<1> DEFINE packet == [id |-> Len(requested) + 1, protocol |-> protocol,
                      data |-> data]
<1>1. /\ packet \in Packets
      /\ packet.id = Len(requested) + 1
      /\ receiveMessage' = Append(receiveMessage, packet)
      /\ requested' = Append(requested, packet)
  <2>1. Len(requested) + 1 \in 0 .. MaxRequests
    BY ProtocolsAssumption DEF RecvPush, OrderIInv, OrderType
  <2> QED
    BY <1>0, <2>1 DEF PushReceiveMessage, Packets
<1> HIDE DEF packet
<1>2. UNCHANGED <<current, answers>>
  BY DEF RecvPush, match
<1>3. /\ receiveMessage' \in Seq(Packets) /\ requested' \in Seq(Packets)
      /\ Len(receiveMessage') = Len(receiveMessage) + 1
      /\ Len(requested') = Len(requested) + 1
      /\ \A i \in 1 .. Len(receiveMessage) : receiveMessage'[i] = receiveMessage[i]
      /\ receiveMessage'[Len(receiveMessage) + 1] = packet
  BY <1>1, AppendProperties DEF OrderIInv, OrderType
<1>4. ASSUME NEW i \in 1 .. Len(receiveMessage')
      PROVE  receiveMessage'[i].id = Len(requested') - Len(receiveMessage') + i
  <2>1. Len(requested) \in Nat /\ Len(receiveMessage) \in Nat
    BY DEF OrderIInv, OrderType
  <2>2. CASE i = Len(receiveMessage) + 1
    BY <1>1, <1>3, <2>1, <2>2
  <2>3. CASE i \in 1 .. Len(receiveMessage)
    BY <1>3, <2>1, <2>3, SMTT(40) DEF OrderIInv, OrderInv
  <2> QED
    BY <1>3, <2>1, <2>2, <2>3
<1>5. OrderType'
  BY <1>2, <1>3 DEF OrderIInv, OrderType
<1>6. Len(requested') - Len(receiveMessage') = Len(requested) - Len(receiveMessage)
  BY <1>3 DEF OrderIInv, OrderType
<1>7. OrderInv'
  BY <1>2, <1>4, <1>6 DEF OrderIInv, OrderInv
<1>8. AnswersInOrder'
  BY <1>2 DEF OrderIInv, AnswersInOrder
<1> QED
  BY <1>5, <1>7, <1>8 DEF OrderIInv

(* The invariant is inductive. *)
LEMMA OrderNext == OrderIInv /\ [Next]_vars => OrderIInv'
<1> SUFFICES ASSUME OrderIInv, [Next]_vars PROVE OrderIInv'
  OBVIOUS
<1>1. CASE CollectorInit \/ SetInterval
  BY <1>1, OrderSame DEF CollectorInit, SetInterval, TimerDevice, TimerProcess,
     TimerFds, TimerPush, TimerCount, TimerCollect, TimerSleep, TimerWake,
     queues, match, history
<1>2. ASSUME NEW protocol \in {"DEVICE", "PROCESS"}, ReqInfo(protocol)
      PROVE  OrderIInv'
  BY <1>2, OrderAnswer DEF ReqInfo, Answer, Replies
<1>3. CASE ReqFileDescriptorInfo
  BY <1>3, OrderAnswer, OrderSame DEF ReqFileDescriptorInfo, Answer,
     Replies
<1>4. CASE ReqReply
  BY <1>4, OrderAnswer DEF ReqReply, Answer, Replies
<1>5. CASE ReqCall \/ ReqChangeInterval \/ Joined \/ SendPop
  BY <1>5, OrderSame DEF ReqCall, ReqChangeInterval, Joined, SendPop, queues,
     match, history
<1>6. CASE UNCHANGED vars
  BY <1>6, OrderSame DEF vars, queues, match, history
<1>7. CASE ReqThrow
  BY <1>7, OrderAnswer DEF ReqThrow, queues, Replies
<1> QED
  BY <1>1, <1>2, <1>3, <1>4, <1>5, <1>6, <1>7, OrderMatch, OrderPush
  DEF Next, Handle

(* Answers are pushed in the order of the requests, whatever handlers      *)
(* overlap, for any number of requests (CMatch.cpp:34-37, 55).             *)
THEOREM AnsweredInOrder == Spec => []AnswersInOrder
<1>1. OrderIInv => AnswersInOrder
  BY DEF OrderIInv
<1> QED
  BY <1>1, OrderInit, OrderNext, PTL DEF Spec

-----------------------------------------------------------------------------
(***************************************************************************)
(* Every request that was taken is answered completely before the next one *)
(* is.  The argument follows the packet in hand: it is the last one taken, *)
(* what has been pushed for it is what its handlers no longer have to do,  *)
(* and nothing was pushed for those that wait.                             *)
(***************************************************************************)
Taken == Len(requested) - Len(receiveMessage)

TakenInv ==
  /\ \A i \in 1 .. Len(requested) : requested[i].id = i
  /\ \A i \in 1 .. Len(receiveMessage) : receiveMessage[i] = requested[Taken + i]
  /\ current.id = Taken
  /\ Taken > 0 => current = requested[Taken]

(* The request r, whose handlers run. *)
InHand(r) ==
  LET protocol == current.protocol IN
  /\ working \subseteq Handlers(protocol)
  /\ stage = "reply" => protocol \in WithData /\ working # {}
  /\ protocol \in WithData =>
       Times(r, "RESPONSE") + Times(r, Exception) = IF working = {} THEN 1 ELSE 0
  /\ \A info \in {"DEVICE", "PROCESS"} :
       protocol = info => Times(r, info) = IF info \in working THEN 0 ELSE 1
  /\ protocol = "PROCESS" =>
       /\ Times(r, "FILEDESCRIPTOR") = FdLists - replyFds
       /\ "FILEDESCRIPTOR" \notin working => replyFds = 0

CompleteInv ==
  /\ TakenInv
  /\ replyFds \in 0 .. FdLists /\ stage \in {"idle", "call", "reply"}
  /\ stage # "idle" => Taken > 0
  /\ \A r \in 1 .. Taken :
       IF r < Taken \/ stage = "idle" THEN Complete(r) ELSE InHand(r)

CompleteIInv == OrderIInv /\ CompleteInv

LEMMA TimesIsNat ==
  ASSUME OrderType, NEW r, NEW protocol
  PROVE  Times(r, protocol) \in Nat
<1> DEFINE I == {i \in 1 .. Len(answers) : answers[i] = <<r, protocol>>}
<1>1. Len(answers) \in Nat
  BY DEF OrderType
<1>2. IsFiniteSet(1 .. Len(answers))
  BY <1>1, FS_Interval
<1>3. IsFiniteSet(I)
  BY <1>2, FS_Subset
<1>4. Cardinality(I) \in Nat
  BY <1>3, FS_CardinalityType
<1> QED
  BY <1>4 DEF Times

LEMMA TimesAfterAnswer ==
  ASSUME OrderType, NEW answer \in Nat \X Replies,
         answers' = Append(answers, answer), NEW r, NEW protocol
  PROVE  Times(r, protocol)' =
           Times(r, protocol) + (IF answer = <<r, protocol>> THEN 1 ELSE 0)
<1> DEFINE I == {i \in 1 .. Len(answers) : answers[i] = <<r, protocol>>}
<1> DEFINE J == {i \in 1 .. Len(answers') : answers'[i] = <<r, protocol>>}
<1> DEFINE n == Len(answers)
<1>1. n \in Nat
  BY DEF OrderType
<1>2. /\ Len(answers') = n + 1
      /\ \A i \in 1 .. n : answers'[i] = answers[i]
      /\ answers'[n + 1] = answer
  BY AppendProperties DEF OrderType
<1>3. IsFiniteSet(I)
  <2>1. IsFiniteSet(1 .. n)
    BY <1>1, FS_Interval
  <2> QED
    BY <2>1, FS_Subset
<1>4. Times(r, protocol) = Cardinality(I) /\ Times(r, protocol)' = Cardinality(J)
  BY DEF Times
<1>5. CASE answer = <<r, protocol>>
  <2>1. J = I \cup {n + 1} /\ n + 1 \notin I
    BY <1>1, <1>2, <1>5
  <2> HIDE DEF I, J, n
  <2>2. Cardinality(J) = Cardinality(I) + 1
    BY <1>3, <2>1, FS_AddElement
  <2> QED
    BY <1>4, <1>5, <2>2
<1>6. CASE answer # <<r, protocol>>
  <2>1. J = I
    BY <1>1, <1>2, <1>6
  <2>2. Times(r, protocol) \in Nat
    BY TimesIsNat
  <2> HIDE DEF I, J, n
  <2> QED
    BY <1>4, <1>6, <2>1, <2>2
<1> QED
  BY <1>5, <1>6

LEMMA TimesZero ==
  ASSUME NEW r, NEW protocol, \A i \in 1 .. Len(answers) : answers[i][1] # r
  PROVE  Times(r, protocol) = 0
<1>1. {i \in 1 .. Len(answers) : answers[i] = <<r, protocol>>} = {}
  OBVIOUS
<1> QED
  BY <1>1, FS_EmptySet DEF Times

LEMMA CompleteInit == Init => CompleteInv
BY ProtocolsAssumption DEF Init, InitQueues, CompleteInv, TakenInv, Taken, NoPacket

(* A step of the timer or of Send, which handlers do not see. *)
LEMMA CompleteSame ==
  ASSUME CompleteIInv,
         UNCHANGED <<receiveMessage, requested, current, answers, stage, working,
                     replyFds>>
  PROVE  CompleteInv'
<1>1. /\ Taken' = Taken /\ requested' = requested /\ receiveMessage' = receiveMessage
      /\ current' = current /\ stage' = stage /\ working' = working
      /\ replyFds' = replyFds
  BY DEF Taken
<1>2. \A r, protocol : Times(r, protocol)' = Times(r, protocol)
  BY DEF Times
<1>3. TakenInv'
  BY <1>1 DEF CompleteIInv, CompleteInv, TakenInv
<1>4. ASSUME NEW r PROVE Complete(r)' <=> Complete(r)
  BY <1>1, <1>2 DEF Complete
<1>5. ASSUME NEW r PROVE InHand(r)' <=> InHand(r)
  BY <1>1, <1>2 DEF InHand, Handlers
<1> QED
  BY <1>1, <1>3, <1>4, <1>5 DEF CompleteIInv, CompleteInv

(* The steps of the handlers of the packet in hand. *)
LEMMA CompleteHandles ==
  ASSUME CompleteIInv, stage # "idle",
         UNCHANGED <<receiveMessage, requested, current>>,
         replyFds' \in 0 .. FdLists, stage' \in {"call", "reply"},
         \A r \in 1 .. Taken : r < Taken =>
           \A protocol : Times(r, protocol)' = Times(r, protocol),
         \A r \in 1 .. Taken : r = Taken => InHand(r)'
  PROVE  CompleteInv'
<1>1. /\ Taken' = Taken /\ requested' = requested
      /\ current' = current /\ receiveMessage' = receiveMessage
  BY DEF Taken
<1>2. TakenInv'
  BY <1>1 DEF CompleteIInv, CompleteInv, TakenInv
<1>3. ASSUME NEW r \in 1 .. Taken, r < Taken PROVE Complete(r)'
  BY <1>1, <1>3 DEF CompleteIInv, CompleteInv, Complete
<1>4. Taken \in Nat /\ \A r \in 1 .. Taken : r < Taken \/ r = Taken
  BY DEF CompleteIInv, OrderIInv, OrderInv, Taken
<1> QED
  BY <1>1, <1>2, <1>3, <1>4 DEF CompleteIInv, CompleteInv

(* What was pushed changes for the packet in hand only. *)
LEMMA TimesOfOthers ==
  ASSUME CompleteIInv, NEW protocol \in Replies,
         answers' = Append(answers, <<current.id, protocol>>)
  PROVE  /\ \A r \in 1 .. Taken : r < Taken => \A p : Times(r, p)' = Times(r, p)
         /\ \A r \in 1 .. Taken : r = Taken =>
              \A p : Times(r, p)' = Times(r, p) + (IF p = protocol THEN 1 ELSE 0)
<1>1. OrderType /\ current.id = Taken /\ Taken \in Nat
  BY DEF CompleteIInv, OrderIInv, OrderInv, CompleteInv, TakenInv, Taken
<1> DEFINE answer == <<current.id, protocol>>
<1>2. answer \in Nat \X Replies /\ answers' = Append(answers, answer)
  BY <1>1
<1>3. \A r, p : answer = <<r, p>> <=> r = Taken /\ p = protocol
  BY <1>1
<1> HIDE DEF answer
<1>4. \A r, p : Times(r, p)' = Times(r, p) + (IF answer = <<r, p>> THEN 1 ELSE 0)
  BY <1>1, <1>2, TimesAfterAnswer
<1>5. ASSUME NEW r \in 1 .. Taken, r < Taken, NEW p
      PROVE  Times(r, p)' = Times(r, p)
  <2>1. answer # <<r, p>> /\ Times(r, p) \in Nat
    BY <1>1, <1>3, <1>5, TimesIsNat
  <2> QED
    BY <1>4, <2>1
<1>6. ASSUME NEW r \in 1 .. Taken, r = Taken, NEW p
      PROVE  Times(r, p)' = Times(r, p) + (IF p = protocol THEN 1 ELSE 0)
  <2>1. answer = <<r, p>> <=> p = protocol
    BY <1>3, <1>6, SMTT(40)
  <2> QED
    BY <1>4, <2>1
<1> QED
  BY <1>5, <1>6

LEMMA CompleteReqInfo ==
  ASSUME CompleteIInv, NEW info \in {"DEVICE", "PROCESS"}, ReqInfo(info)
  PROVE  CompleteInv'
<1>1. /\ stage = "call" /\ stage' = "call" /\ replyFds' = replyFds
      /\ current' = current /\ working' = working \ {info} /\ info \in working
      /\ answers' = Append(answers, <<current.id, info>>)
      /\ UNCHANGED <<receiveMessage, requested, current>>
  BY DEF ReqInfo, Answer
<1>2. ASSUME NEW r \in 1 .. Taken, r = Taken PROVE InHand(r)'
  <2>1. InHand(r)
    BY <1>1, <1>2 DEF CompleteIInv, CompleteInv
  <2>2. \A p : Times(r, p)' = Times(r, p) + (IF p = info THEN 1 ELSE 0)
    BY <1>1, <1>2, TimesOfOthers DEF Replies
  <2>3. \A p : Times(r, p) \in Nat
    BY TimesIsNat DEF CompleteIInv, OrderIInv
  <2>4. current.protocol \notin WithData
    BY <1>1, <2>1 DEF InHand, Handlers, WithData
  <2>5. \A q \in {"DEVICE", "PROCESS"} : current.protocol = q =>
          Times(r, q)' = IF q \in working' THEN 0 ELSE 1
    BY <1>1, <2>1, <2>2, <2>3 DEF InHand, Handlers
  <2>6. current.protocol = "PROCESS" =>
          /\ Times(r, "FILEDESCRIPTOR")' = FdLists - replyFds'
          /\ "FILEDESCRIPTOR" \notin working' => replyFds' = 0
    BY <1>1, <2>1, <2>2, <2>3 DEF InHand
  <2> QED
    BY <1>1, <2>1, <2>4, <2>5, <2>6 DEF InHand, Handlers
<1> QED
  BY <1>1, <1>2, TimesOfOthers, CompleteHandles DEF CompleteIInv, CompleteInv, Replies

LEMMA CompleteReqFds == CompleteIInv /\ ReqFileDescriptorInfo => CompleteInv'
<1> SUFFICES ASSUME CompleteIInv, ReqFileDescriptorInfo PROVE CompleteInv'
  OBVIOUS
<1>1. /\ stage = "call" /\ stage' = "call" /\ "FILEDESCRIPTOR" \in working
      /\ current' = current /\ UNCHANGED <<receiveMessage, requested, current>>
      /\ replyFds \in 0 .. FdLists
  BY DEF ReqFileDescriptorInfo, CompleteIInv, CompleteInv
<1>2. \A r, p : Times(r, p) \in Nat
  BY TimesIsNat DEF CompleteIInv, OrderIInv
<1>3. ASSUME NEW r \in 1 .. Taken, r = Taken
      PROVE  InHand(r) /\ current.protocol = "PROCESS" /\ "PROCESS" \notin WithData
  BY <1>1, <1>3 DEF CompleteIInv, CompleteInv, InHand, Handlers, WithData
<1>4. CASE replyFds > 0
  <2>1. /\ answers' = Append(answers, <<current.id, "FILEDESCRIPTOR">>)
        /\ replyFds' = replyFds - 1 /\ working' = working
    BY <1>4 DEF ReqFileDescriptorInfo, Answer
  <2>2. ASSUME NEW r \in 1 .. Taken, r = Taken PROVE InHand(r)'
    <3>1. \A p : Times(r, p)' = Times(r, p) + (IF p = "FILEDESCRIPTOR" THEN 1 ELSE 0)
      BY <2>1, <2>2, TimesOfOthers DEF Replies
    <3>2. InHand(r) /\ current.protocol = "PROCESS" /\ "PROCESS" \notin WithData
      BY <1>3, <2>2
    <3>3. Times(r, "FILEDESCRIPTOR")' = FdLists - replyFds'
      <4>1. Times(r, "FILEDESCRIPTOR") = FdLists - replyFds
        BY <3>2 DEF InHand
      <4> QED
        BY <1>1, <2>1, <3>1, <4>1, ProtocolsAssumption
    <3>4. Times(r, "PROCESS")' = Times(r, "PROCESS")
      BY <1>2, <3>1
    <3> QED
      BY <1>1, <2>1, <3>2, <3>3, <3>4 DEF InHand
  <2>3. replyFds' \in 0 .. FdLists
    BY <1>1, <1>4, <2>1, ProtocolsAssumption
  <2> QED
    BY <1>1, <2>1, <2>2, <2>3, TimesOfOthers, CompleteHandles DEF Replies
<1>5. CASE ~(replyFds > 0)
  <2>1. /\ answers' = answers /\ replyFds' = replyFds /\ replyFds = 0
        /\ working' = working \ {"FILEDESCRIPTOR"}
    BY <1>1, <1>5, ProtocolsAssumption DEF ReqFileDescriptorInfo
  <2>2. \A r, p : Times(r, p)' = Times(r, p)
    BY <2>1 DEF Times
  <2>3. ASSUME NEW r \in 1 .. Taken, r = Taken PROVE InHand(r)'
    BY <1>1, <1>3, <2>1, <2>2, <2>3 DEF InHand, Handlers
  <2> QED
    BY <1>1, <2>1, <2>2, <2>3, CompleteHandles
<1> QED
  BY <1>4, <1>5

LEMMA CompleteReqCalls ==
  ASSUME CompleteIInv, ReqCall \/ ReqChangeInterval
  PROVE  CompleteInv'
<1>1. /\ stage = "call" /\ stage' = "reply" /\ replyFds' = replyFds
      /\ working' = working /\ answers' = answers /\ current' = current
      /\ UNCHANGED <<receiveMessage, requested, current>>
      /\ working \cap WithData # {}
  BY DEF ReqCall, ReqChangeInterval, queues, history, WithData
<1>2. \A r, p : Times(r, p)' = Times(r, p)
  BY <1>1 DEF Times
<1>3. ASSUME NEW r \in 1 .. Taken, r = Taken PROVE InHand(r)'
  <2>1. InHand(r)
    BY <1>1, <1>3 DEF CompleteIInv, CompleteInv
  <2>2. current.protocol \in WithData
    BY <1>1, <2>1 DEF InHand, Handlers, WithData
  <2> QED
    BY <1>1, <1>2, <2>1, <2>2 DEF InHand, Handlers
<1> QED
  BY <1>1, <1>2, <1>3, CompleteHandles DEF CompleteIInv, CompleteInv

LEMMA CompleteReqEnds ==
  ASSUME CompleteIInv, ReqReply \/ ReqThrow
  PROVE  CompleteInv'
<1>1. PICK reply \in {"RESPONSE", Exception} :
        answers' = Append(answers, <<current.id, reply>>)
  BY DEF ReqReply, ReqThrow, Answer
<1>2. /\ stage # "idle" /\ stage' = "call" /\ replyFds' = replyFds
      /\ working' = {} /\ current' = current
      /\ UNCHANGED <<receiveMessage, requested, current>>
  BY DEF ReqReply, ReqThrow, queues
<1>3. ASSUME NEW r \in 1 .. Taken, r = Taken PROVE InHand(r)'
  <2>1. InHand(r)
    BY <1>2, <1>3 DEF CompleteIInv, CompleteInv
  <2>2. current.protocol \in WithData /\ working # {}
    <3>1. CASE ReqReply
      BY <2>1, <3>1 DEF ReqReply, InHand
    <3>2. CASE ReqThrow
      BY <2>1, <3>2 DEF ReqThrow, InHand, Handlers, WithData
    <3> QED
      BY <3>1, <3>2
  <2>3. \A p : Times(r, p)' = Times(r, p) + (IF p = reply THEN 1 ELSE 0)
    BY <1>1, <1>3, TimesOfOthers DEF Replies
  <2>4. \A p : Times(r, p) \in Nat
    BY TimesIsNat DEF CompleteIInv, OrderIInv
  <2>5. Times(r, "RESPONSE")' + Times(r, Exception)' = 1
    BY <2>1, <2>2, <2>3, <2>4 DEF InHand, Exception
  <2> QED
    BY <1>2, <2>2, <2>5 DEF InHand, WithData
<1> QED
  BY <1>1, <1>2, <1>3, TimesOfOthers, CompleteHandles
     DEF CompleteIInv, CompleteInv, Replies

(* The packet that is taken is the next of those that came. *)
LEMMA CompleteMatch == CompleteIInv /\ MatchMessage => CompleteInv'
<1> SUFFICES ASSUME CompleteIInv, MatchMessage PROVE CompleteInv'
  OBVIOUS
<1> DEFINE packet == Head(receiveMessage)
<1>1. /\ receiveMessage # <<>> /\ receiveMessage' = Tail(receiveMessage)
      /\ current' = packet /\ working' = Handlers(packet.protocol)
      /\ stage = "idle" /\ replyFds' = FdLists
      /\ stage' = IF Handlers(packet.protocol) = {} THEN "idle" ELSE "call"
      /\ requested' = requested /\ answers' = answers
  BY DEF MatchMessage, PopReceiveMessage, history
<1>2. /\ receiveMessage \in Seq(Packets) /\ requested \in Seq(Packets)
      /\ Taken \in Nat /\ Len(requested) \in Nat /\ Len(receiveMessage) \in Nat
      /\ Taken = Len(requested) - Len(receiveMessage)
  BY DEF CompleteIInv, OrderIInv, OrderType, OrderInv, Taken
<1>3. /\ packet = receiveMessage[1] /\ Len(receiveMessage) >= 1
      /\ Len(receiveMessage') = Len(receiveMessage) - 1
      /\ \A i \in 1 .. Len(receiveMessage') : receiveMessage'[i] = receiveMessage[i + 1]
  BY <1>1, <1>2, HeadTailProperties
<1>4. Taken' = Taken + 1 /\ Taken + 1 \in 1 .. Len(requested)
  BY <1>1, <1>2, <1>3 DEF Taken
<1>5. packet = requested[Taken + 1] /\ packet.id = Taken + 1
  BY <1>2, <1>3, <1>4 DEF CompleteIInv, CompleteInv, TakenInv
<1>6. TakenInv'
  <2>1. ASSUME NEW i \in 1 .. Len(receiveMessage')
        PROVE  receiveMessage'[i] = requested[(Taken + 1) + i]
    <3>1. receiveMessage[i + 1] = requested[Taken + (i + 1)]
      BY <1>2, <1>3 DEF CompleteIInv, CompleteInv, TakenInv
    <3> QED
      BY <1>2, <1>3, <3>1, SMTT(40)
  <2> HIDE DEF packet
  <2>2. \A i \in 1 .. Len(requested) : requested[i].id = i
    BY DEF CompleteIInv, CompleteInv, TakenInv
  <2> QED
    BY <1>1, <1>4, <1>5, <2>1, <2>2 DEF TakenInv
<1> HIDE DEF packet
<1>7. ASSUME NEW r \in 1 .. Taken PROVE Complete(r)'
  <2>1. Complete(r)
    BY <1>1 DEF CompleteIInv, CompleteInv
  <2>2. \A p : Times(r, p)' = Times(r, p)
    BY <1>1 DEF Times
  <2> QED
    BY <1>1, <2>1, <2>2 DEF Complete
<1>8. ASSUME NEW r, r = Taken + 1
      PROVE  IF stage' = "idle" THEN Complete(r)' ELSE InHand(r)'
  <2>1. \A i \in 1 .. Len(answers) : answers[i][1] # r
    BY <1>2, <1>8 DEF CompleteIInv, OrderIInv, OrderInv, OrderType, CompleteInv, TakenInv
  <2>2. \A p : Times(r, p)' = 0
    BY <1>1, <2>1, TimesZero DEF Times
  <2>3. CASE stage' = "idle"
    <3>1. packet.protocol \notin WithData \cup {"DEVICE", "PROCESS"}
      BY <1>1, <2>3 DEF Handlers
    <3> QED
      BY <1>1, <1>5, <1>8, <2>3, <3>1 DEF Complete
  <2>4. CASE stage' # "idle"
    <3>1. stage' = "call"
      BY <1>1, <2>4
    <3>2. working' = Handlers(current'.protocol) /\ working' # {}
      BY <1>1, <2>4
    <3>3. Times(r, "RESPONSE")' + Times(r, Exception)' = 0
      BY <2>2
    <3>4. \A info \in {"DEVICE", "PROCESS"} : current'.protocol = info =>
            Times(r, info)' = 0 /\ info \in working'
      BY <2>2, <3>2 DEF Handlers
    <3>5. current'.protocol = "PROCESS" =>
            /\ Times(r, "FILEDESCRIPTOR")' = FdLists - replyFds'
            /\ "FILEDESCRIPTOR" \in working'
      BY <1>1, <2>2, <3>2, ProtocolsAssumption DEF Handlers
    <3> QED
      BY <2>4, <3>1, <3>2, <3>3, <3>4, <3>5 DEF InHand
  <2> QED
    BY <2>3, <2>4
<1> QED
  BY <1>1, <1>2, <1>4, <1>6, <1>7, <1>8, ProtocolsAssumption DEF CompleteInv

(* The handlers have returned: what they had to push has been pushed. *)
LEMMA CompleteJoined == CompleteIInv /\ Joined => CompleteInv'
<1> SUFFICES ASSUME CompleteIInv, Joined PROVE CompleteInv'
  OBVIOUS
<1>1. /\ stage = "call" /\ working = {} /\ stage' = "idle"
      /\ requested' = requested /\ receiveMessage' = receiveMessage
      /\ current' = current /\ answers' = answers /\ replyFds' = replyFds
      /\ Taken' = Taken /\ Taken \in Nat
  BY DEF Joined, queues, history, Taken, CompleteIInv, OrderIInv, OrderInv
<1>2. \A r, p : Times(r, p)' = Times(r, p)
  BY <1>1 DEF Times
<1>3. TakenInv'
  BY <1>1 DEF CompleteIInv, CompleteInv, TakenInv
<1>4. ASSUME NEW r \in 1 .. Taken, r < Taken PROVE Complete(r)'
  BY <1>1, <1>2, <1>4 DEF CompleteIInv, CompleteInv, Complete
<1>5. ASSUME NEW r \in 1 .. Taken, r = Taken PROVE Complete(r)'
  <2>1. InHand(r) /\ current = requested[r]
    BY <1>1, <1>5 DEF CompleteIInv, CompleteInv, TakenInv
  <2>2. current.protocol = "PROCESS" => Times(r, "FILEDESCRIPTOR") = FdLists
    BY <1>1, <2>1, ProtocolsAssumption DEF InHand
  <2> QED
    BY <1>1, <1>2, <2>1, <2>2 DEF InHand, Complete
<1> QED
  BY <1>1, <1>3, <1>4, <1>5 DEF CompleteIInv, CompleteInv

(* A request that comes waits behind the others. *)
LEMMA CompletePush == CompleteIInv /\ RecvPush => CompleteInv'
<1> SUFFICES ASSUME CompleteIInv, RecvPush PROVE CompleteInv'
  OBVIOUS
<1>0. PICK protocol \in Protocols, data \in Int :
        LET packet == [id |-> Len(requested) + 1, protocol |-> protocol,
                       data |-> data]
        IN  PushReceiveMessage(packet) /\ requested' = Append(requested, packet)
  BY ProtocolsAssumption DEF RecvPush
<1> DEFINE packet == [id |-> Len(requested) + 1, protocol |-> protocol,
                      data |-> data]
<1>1. /\ packet.id = Len(requested) + 1
      /\ receiveMessage' = Append(receiveMessage, packet)
      /\ requested' = Append(requested, packet)
  BY <1>0 DEF PushReceiveMessage
<1> HIDE DEF packet
<1>2. /\ receiveMessage \in Seq(Packets) /\ requested \in Seq(Packets)
      /\ Len(requested) \in Nat /\ Len(receiveMessage) \in Nat
      /\ Taken = Len(requested) - Len(receiveMessage)
      /\ Taken \in Nat /\ Taken <= Len(requested)
  BY DEF CompleteIInv, OrderIInv, OrderType, OrderInv, Taken
<1>3. /\ Len(receiveMessage') = Len(receiveMessage) + 1
      /\ Len(requested') = Len(requested) + 1
      /\ \A i \in 1 .. Len(receiveMessage) : receiveMessage'[i] = receiveMessage[i]
      /\ receiveMessage'[Len(receiveMessage) + 1] = packet
      /\ \A i \in 1 .. Len(requested) : requested'[i] = requested[i]
      /\ requested'[Len(requested) + 1] = packet
  BY <1>1, <1>2 
<1>4. /\ current' = current /\ answers' = answers /\ stage' = stage
      /\ working' = working /\ replyFds' = replyFds /\ Taken' = Taken
  BY <1>2, <1>3 DEF RecvPush, match, Taken
<1>5. TakenInv'
  <2>1. ASSUME NEW i \in 1 .. Len(receiveMessage')
        PROVE  receiveMessage'[i] = requested'[Taken + i]
    <3>1. CASE i \in 1 .. Len(receiveMessage)
      <4>1. Taken + i \in 1 .. Len(requested)
        BY <1>2, <3>1
      <4> QED
        BY <1>3, <3>1, <4>1 DEF CompleteIInv, CompleteInv, TakenInv
    <3>2. CASE i = Len(receiveMessage) + 1
      <4>1. Taken + i = Len(requested) + 1
        BY <1>2, <3>2
      <4> QED
        BY <1>3, <3>2, <4>1
    <3> QED
      BY <1>2, <1>3, <3>1, <3>2
  <2>2. \A i \in 1 .. Len(requested') : requested'[i].id = i
    BY <1>1, <1>2, <1>3, SMTT(40) DEF CompleteIInv, CompleteInv, TakenInv
  <2>3. Taken > 0 => current = requested'[Taken]
    BY <1>2, <1>3, SMTT(40) DEF CompleteIInv, CompleteInv, TakenInv
  <2> QED
    BY <1>4, <2>1, <2>2, <2>3 DEF CompleteIInv, CompleteInv, TakenInv
<1>6. \A r, p : Times(r, p)' = Times(r, p)
  BY <1>4 DEF Times
<1>7. ASSUME NEW r \in 1 .. Taken
      PROVE  (Complete(r)' <=> Complete(r)) /\ (InHand(r)' <=> InHand(r))
  <2>1. requested'[r] = requested[r]
    BY <1>2, <1>3
  <2>2. Complete(r)' <=> Complete(r)
    BY <1>6, <2>1 DEF Complete
  <2>3. InHand(r)' <=> InHand(r)
    BY <1>4, <1>6 DEF InHand, Handlers
  <2> QED
    BY <2>2, <2>3
<1> QED
  BY <1>4, <1>5, <1>7 DEF CompleteIInv, CompleteInv

LEMMA CompleteNext == CompleteIInv /\ [Next]_vars => CompleteInv'
<1> SUFFICES ASSUME CompleteIInv, [Next]_vars PROVE CompleteInv'
  OBVIOUS
<1>1. CASE CollectorInit \/ SetInterval \/ SendPop \/ UNCHANGED vars
  BY <1>1, CompleteSame DEF CollectorInit, SetInterval, TimerDevice, TimerProcess,
     TimerFds, TimerPush, TimerCount, TimerCollect, TimerSleep, TimerWake,
     SendPop, vars, queues, match, history
<1> QED
  BY <1>1, CompleteReqInfo, CompleteReqFds, CompleteReqCalls, CompleteReqEnds,
     CompleteMatch, CompleteJoined, CompletePush DEF Next, Handle

(* Before the next request is taken, those before it were answered         *)
(* completely and once, for any requests, descriptor lists and overlap of  *)
(* handlers (CMatch.cpp:21-55, 77-99).                                     *)
THEOREM AnsweredCompletely == Spec => []AnsweredWhenIdle
<1>1. CompleteInv => AnsweredWhenIdle
  BY DEF CompleteInv, AnsweredWhenIdle, Taken
<1> QED
  BY <1>1, OrderInit, OrderNext, CompleteInit, CompleteNext, PTL
     DEF Spec, CompleteIInv

-----------------------------------------------------------------------------
(* The types of what the order does not depend on. *)
RestType ==
  /\ sendMessage \in Seq([id : 0 .. MaxRequests, protocol : Replies])
  /\ time \in Int /\ timeMutex \in {Free, Timer} /\ ticks \in 0 .. 2
  /\ timer \in {"init", "device", "process", "fds", "collect", "lock", "sleep",
               "stopped"}
  /\ fdsLeft \in 0 .. FdLists
  /\ working \subseteq WithData \cup WithoutData \cup {"FILEDESCRIPTOR"}
  /\ answers \in Seq((1 .. MaxRequests) \X Replies)

LEMMA RestInit == Init => RestType
BY ProtocolsAssumption DEF Init, InitQueues, RestType, NoTime, Free, Timer

(* The packet in hand is one that came. *)
LEMMA RestHandle ==
  ASSUME RestType, CompleteIInv, Handle \/ ReqChangeInterval
  PROVE  RestType'
<1>1. current \in Packets /\ current.id \in 1 .. MaxRequests
  <2>1. stage # "idle"
    BY DEF Handle, ReqInfo, ReqFileDescriptorInfo, ReqCall, ReqThrow, ReqReply,
       ReqChangeInterval
  <2>2. current \in Packets /\ current.id = Taken /\ Taken > 0 /\ Taken \in Nat
    BY <2>1 DEF CompleteIInv, CompleteInv, TakenInv, OrderIInv, OrderType, OrderInv,
       Taken
  <2> QED
    BY <2>2, ProtocolsAssumption DEF Packets
<1>2. ASSUME NEW protocol \in Replies, Answer(protocol)
      PROVE  /\ sendMessage' \in Seq([id : 0 .. MaxRequests, protocol : Replies])
             /\ answers' \in Seq((1 .. MaxRequests) \X Replies)
  <2>1. [id |-> current.id, protocol |-> protocol] \in
          [id : 0 .. MaxRequests, protocol : Replies]
    BY <1>1
  <2>2. <<current.id, protocol>> \in (1 .. MaxRequests) \X Replies
    BY <1>1
  <2> QED
    BY <1>2, <2>1, <2>2, AppendProperties DEF Answer, PushSendMessage, RestType
<1>3. ASSUME NEW info \in {"DEVICE", "PROCESS"}, ReqInfo(info) PROVE RestType'
  BY <1>2, <1>3 DEF Replies, ReqInfo, RestType, collector
<1>4. CASE ReqFileDescriptorInfo
  BY <1>2, <1>4 DEF Replies, ReqFileDescriptorInfo, RestType, collector
<1>5. CASE ReqReply
  BY <1>2, <1>5 DEF Replies, ReqReply, RestType, collector
<1>6. CASE ReqThrow
  <2>1. <<current.id, Exception>> \in (1 .. MaxRequests) \X Replies
    BY <1>1 DEF Replies
  <2>2. answers' \in Seq((1 .. MaxRequests) \X Replies)
    BY <1>6, <2>1, AppendProperties DEF ReqThrow, RestType
  <2> QED
    BY <1>6, <2>2 DEF ReqThrow, RestType, collector, queues
<1>7. CASE ReqCall
  BY <1>7 DEF ReqCall, RestType, collector, queues, history
<1>8. CASE ReqChangeInterval
  BY <1>1, <1>8 DEF ReqChangeInterval, setTime, RestType, queues, Packets, Default
<1> QED
  BY <1>3, <1>4, <1>5, <1>6, <1>7, <1>8 DEF Handle

LEMMA RestNext == RestType /\ CompleteIInv /\ [Next]_vars => RestType'
<1> SUFFICES ASSUME RestType, CompleteIInv, [Next]_vars PROVE RestType'
  OBVIOUS
<1>1. ASSUME NEW label, NEW protocol \in Replies,
             NEW next \in {"device", "process", "fds"},
             TimerPush(label, protocol, next), fdsLeft' \in 0 .. FdLists
      PROVE  RestType'
  <2>1. [id |-> 0, protocol |-> protocol] \in
          [id : 0 .. MaxRequests, protocol : Replies]
    BY ProtocolsAssumption
  <2>2. sendMessage' \in Seq([id : 0 .. MaxRequests, protocol : Replies])
    BY <1>1, <2>1, AppendProperties DEF TimerPush, PushSendMessage, RestType
  <2> QED
    BY <1>1, <2>2 DEF TimerPush, RestType, match, history
<1>2. CASE TimerDevice
  BY <1>1, <1>2 DEF Replies, TimerDevice, RestType
<1>3. CASE TimerProcess
  BY <1>1, <1>3, ProtocolsAssumption DEF Replies, TimerProcess
<1>4. CASE TimerFds
  <2>1. fdsLeft' \in 0 .. FdLists
    BY <1>4, ProtocolsAssumption DEF TimerFds, RestType
  <2> QED
    BY <1>1, <1>4, <2>1 DEF Replies, TimerFds
<1>5. CASE CollectorInit
  BY <1>5 DEF CollectorInit, setTime, RestType, queues, match, history, Default
<1>6. CASE TimerCount
  BY <1>6 DEF TimerCount, RestType, queues, match, history
<1>7. CASE TimerCollect \/ TimerSleep \/ TimerWake
  BY <1>7 DEF TimerCollect, TimerSleep, TimerWake, RestType, queues, match, history
<1>8. CASE MatchMessage
  <2>1. working' = Handlers(Head(receiveMessage).protocol)
    BY <1>8 DEF MatchMessage
  <2>2. working' \subseteq WithData \cup WithoutData \cup {"FILEDESCRIPTOR"}
    BY <2>1 DEF Handlers, WithData, WithoutData
  <2> QED
    BY <1>8, <2>2 DEF MatchMessage, RestType, collector, history
<1>9. CASE Joined \/ RecvPush
  BY <1>9 DEF Joined, RecvPush, RestType, queues, collector, match, history
<1>10. CASE SendPop
  BY <1>10, HeadTailProperties DEF SendPop, RestType, collector, match, history
<1>11. CASE UNCHANGED vars
  BY <1>11 DEF vars, RestType, queues, collector, match, history
<1> QED
  BY <1>2, <1>3, <1>4, <1>5, <1>6, <1>7, <1>8, <1>9, <1>10, <1>11, RestHandle
     DEF Next, SetInterval

(* Every variable keeps its type: in particular an answer belongs to a     *)
(* request that came (CMatch.cpp:13-56, CCollector.cpp:15-65).             *)
THEOREM DispatchTypeCorrect == Spec => []TypeOK
<1>1. RestType /\ CompleteIInv => TypeOK
  BY DEF RestType, CompleteIInv, CompleteInv, OrderIInv, OrderType, TypeOK
<1> QED
  BY <1>1, OrderInit, OrderNext, CompleteInit, CompleteNext, RestInit, RestNext, PTL
     DEF Spec, CompleteIInv

-----------------------------------------------------------------------------
(***************************************************************************)
(* Every step of Dispatch is a step of the service it offers, or none: the *)
(* request whose handler ends is the first one that was not settled.       *)
(***************************************************************************)
Needed == {r \in 1 .. Len(requested) : requested[r].protocol \in WithData}
Ended == {answers[i][1] : i \in Outcomes}

LEMMA ServiceStarts == Init => ServiceOf!ServiceInit
<1> SUFFICES ASSUME Init PROVE ServiceOf!ServiceInit
  OBVIOUS
<1>1. requested = <<>> /\ answers = <<>>
  BY DEF Init
<1>2. Outcomes = {} /\ Needed = {} /\ Ended = {}
  BY <1>1 DEF Outcomes, Needed, Ended
<1>3. Cardinality(Outcomes) = 0
  BY <1>2, FS_EmptySet
<1> QED
  BY <1>2, <1>3 DEF ServiceOf!ServiceInit, Needed, Ended

(* What an answer adds to the outcomes. *)
LEMMA OutcomesAfterAnswer ==
  ASSUME OrderType, NEW answer \in Nat \X Replies,
         answers' = Append(answers, answer)
  PROVE  /\ answer[2] \in {"RESPONSE", Exception} =>
              /\ Ended' = Ended \cup {answer[1]}
              /\ Cardinality(Outcomes)' = Cardinality(Outcomes) + 1
         /\ answer[2] \notin {"RESPONSE", Exception} =>
              Ended' = Ended /\ Outcomes' = Outcomes
<1> DEFINE n == Len(answers)
<1>1. n \in Nat /\ answers \in Seq(Nat \X Replies)
  BY DEF OrderType
<1>2. /\ Len(answers') = n + 1
      /\ \A i \in 1 .. n : answers'[i] = answers[i]
      /\ answers'[n + 1] = answer
  BY <1>1, AppendProperties
<1>3. /\ \A i \in Outcomes : i \in 1 .. n
      /\ n + 1 \notin Outcomes
  BY <1>1 DEF Outcomes
<1>4. IsFiniteSet(Outcomes)
  <2>1. IsFiniteSet(1 .. n)
    BY <1>1, FS_Interval
  <2>2. Outcomes \in SUBSET (1 .. n)
    BY <1>3
  <2> QED
    BY <2>1, <2>2, FS_Subset
<1>5. 1 .. n + 1 = (1 .. n) \cup {n + 1}
  BY <1>1
<1>6. CASE answer[2] \in {"RESPONSE", Exception}
  <2>1. Outcomes' = Outcomes \cup {n + 1}
    BY <1>2, <1>5, <1>6 DEF Outcomes
  <2>2. Ended' = Ended \cup {answer[1]}
    BY <1>2, <1>3, <2>1 DEF Ended
  <2>3. Cardinality(Outcomes \cup {n + 1}) = Cardinality(Outcomes) + 1
    BY <1>3, <1>4, FS_AddElement
  <2> QED
    BY <1>6, <2>1, <2>2, <2>3
<1>7. CASE answer[2] \notin {"RESPONSE", Exception}
  <2>1. Outcomes' = Outcomes
    BY <1>2, <1>5, <1>7 DEF Outcomes
  <2>2. Ended' = Ended
    BY <1>2, <1>3, <2>1 DEF Ended
  <2> QED
    BY <1>7, <2>1, <2>2
<1> QED
  BY <1>6, <1>7

(* An outcome is what Times counts. *)
LEMMA EndedIsCounted ==
  ASSUME OrderType, NEW r
  PROVE  r \in Ended <=> Times(r, "RESPONSE") # 0 \/ Times(r, Exception) # 0
<1> DEFINE I(p) == {i \in 1 .. Len(answers) : answers[i] = <<r, p>>}
<1>1. \A p : IsFiniteSet(I(p)) /\ Times(r, p) = Cardinality(I(p))
  <2>1. IsFiniteSet(1 .. Len(answers))
    BY FS_Interval DEF OrderType
  <2>2. \A p : I(p) \in SUBSET (1 .. Len(answers))
    OBVIOUS
  <2>3. \A p : IsFiniteSet(I(p))
    BY <2>1, <2>2, FS_Subset
  <2> QED
    BY <2>3 DEF Times
<1>2. \A p : Times(r, p) # 0 <=> I(p) # {}
  BY <1>1, FS_EmptySet
<1>3. \A i \in 1 .. Len(answers) : answers[i] = <<answers[i][1], answers[i][2]>>
  BY DEF OrderType
<1>4. r \in Ended <=> \E i \in 1 .. Len(answers) :
                        answers[i][1] = r /\ answers[i][2] \in {"RESPONSE", Exception}
  BY DEF Ended, Outcomes
<1>5. r \in Ended <=> I("RESPONSE") # {} \/ I(Exception) # {}
  BY <1>3, <1>4
<1> QED
  BY <1>2, <1>5

(* The handler that ends is that of the first request not yet settled.     *)
LEMMA ServiceSettles ==
  ASSUME CompleteIInv, ReqReply \/ ReqThrow
  PROVE  ServiceOf!Settle
<1>1. PICK reply \in {"RESPONSE", Exception} :
        answers' = Append(answers, <<current.id, reply>>)
  BY DEF ReqReply, ReqThrow, Answer
<1>2. /\ stage # "idle" /\ requested' = requested
  BY DEF ReqReply, ReqThrow, queues
<1>3. /\ Taken \in Nat /\ Taken > 0 /\ Taken <= Len(requested)
      /\ current = requested[Taken] /\ current.id = Taken
      /\ Len(requested) \in Nat /\ OrderType
  BY <1>2 DEF CompleteIInv, CompleteInv, TakenInv, OrderIInv, OrderInv, OrderType, Taken
<1>4. Taken \in 1 .. Taken /\ InHand(Taken)
  BY <1>2, <1>3 DEF CompleteIInv, CompleteInv
<1>5. current.protocol \in WithData /\ working # {}
  <2>1. CASE ReqReply
    BY <1>4, <2>1 DEF ReqReply, InHand
  <2>2. CASE ReqThrow
    BY <1>4, <2>2 DEF ReqThrow, InHand, Handlers, WithData
  <2> QED
    BY <2>1, <2>2
<1>6. Times(Taken, "RESPONSE") = 0 /\ Times(Taken, Exception) = 0
  <2>1. \A p : Times(Taken, p) \in Nat
    BY <1>3, TimesIsNat
  <2>2. Times(Taken, "RESPONSE") + Times(Taken, Exception) = 0
    BY <1>4, <1>5 DEF InHand
  <2> QED
    BY <2>1, <2>2
<1>7. Taken \in Needed \ Ended
  BY <1>3, <1>5, <1>6, EndedIsCounted DEF Needed
<1>8. ASSUME NEW q \in Needed \ Ended PROVE Taken <= q
  <2>1. q \in 1 .. Len(requested) /\ requested[q].protocol \in WithData
    BY <1>8 DEF Needed
  <2>2. ASSUME q < Taken PROVE FALSE
    <3>1. q \in 1 .. Taken /\ Complete(q)
      BY <1>3, <2>1, <2>2 DEF CompleteIInv, CompleteInv
    <3>2. Times(q, "RESPONSE") + Times(q, Exception) = 1
      BY <2>1, <3>1 DEF Complete
    <3>3. Times(q, "RESPONSE") # 0 \/ Times(q, Exception) # 0
      BY <3>2
    <3> QED
      BY <1>3, <1>8, <3>3, EndedIsCounted
  <2> QED
    BY <1>3, <2>1, <2>2
<1>9. /\ Ended' = Ended \cup {Taken}
      /\ Cardinality(Outcomes)' = Cardinality(Outcomes) + 1
  <2> DEFINE answer == <<current.id, reply>>
  <2>1. /\ answer \in Nat \X Replies /\ answer[1] = Taken
        /\ answer[2] \in {"RESPONSE", Exception} /\ answers' = Append(answers, answer)
    BY <1>1, <1>3 DEF Replies
  <2> HIDE DEF answer
  <2> QED
    BY <1>3, <2>1, OutcomesAfterAnswer
<1>10. Needed' = Needed
  BY <1>2 DEF Needed
<1> QED
  BY <1>7, <1>8, <1>9, <1>10 DEF ServiceOf!Settle, Needed, Ended

LEMMA ServiceRequested ==
  ASSUME CompleteIInv, RecvPush
  PROVE  ServiceOf!Request \/ UNCHANGED ServiceOf!serviceVars
<1> DEFINE n == Len(requested)
<1>1. PICK packet : requested' = Append(requested, packet) /\ packet \in Packets
  <2>1. Len(requested) + 1 \in 0 .. MaxRequests
    BY ProtocolsAssumption DEF RecvPush, CompleteIInv, OrderIInv, OrderType
  <2> QED
    BY <2>1, ProtocolsAssumption DEF RecvPush, Packets
<1>2. requested \in Seq(Packets) /\ n \in Nat
  BY DEF CompleteIInv, OrderIInv, OrderType
<1>3. /\ Len(requested') = n + 1
      /\ \A i \in 1 .. n : requested'[i] = requested[i]
      /\ requested'[n + 1] = packet
  BY <1>1, <1>2, AppendProperties
<1>4. 1 .. n + 1 = (1 .. n) \cup {n + 1}
  BY <1>2
<1>5. Ended' = Ended /\ Outcomes' = Outcomes
  BY DEF RecvPush, Ended, Outcomes
<1>6. CASE packet.protocol \in WithData
  <2>1. Needed' = Needed \cup {n + 1}
    BY <1>3, <1>4, <1>6 DEF Needed
  <2>2. \A q \in Needed : q < n + 1
    BY <1>2 DEF Needed
  <2> QED
    BY <1>5, <2>1, <2>2 DEF ServiceOf!Request, Needed, Ended
<1>7. CASE packet.protocol \notin WithData
  <2>1. Needed' = Needed
    BY <1>3, <1>4, <1>7 DEF Needed
  <2> QED
    BY <1>5, <2>1 DEF ServiceOf!serviceVars, Needed, Ended
<1> QED
  BY <1>6, <1>7

LEMMA ServiceSteps ==
  CompleteIInv /\ [Next]_vars => [ServiceOf!ServiceNext]_(ServiceOf!serviceVars)
<1> SUFFICES ASSUME CompleteIInv, [Next]_vars
             PROVE  [ServiceOf!ServiceNext]_(ServiceOf!serviceVars)
  OBVIOUS
<1>1. ASSUME UNCHANGED <<requested, answers>>
      PROVE  UNCHANGED ServiceOf!serviceVars
  BY <1>1 DEF ServiceOf!serviceVars, Outcomes
<1>2. ASSUME NEW info \in {"DEVICE", "PROCESS", "FILEDESCRIPTOR"}, Answer(info),
             requested' = requested
      PROVE  UNCHANGED ServiceOf!serviceVars
  <2> DEFINE answer == <<current.id, info>>
  <2>1. current.id \in Nat /\ OrderType
    BY ProtocolsAssumption DEF CompleteIInv, OrderIInv, OrderType, Packets
  <2>2. /\ answer \in Nat \X Replies /\ answers' = Append(answers, answer)
        /\ answer[2] \notin {"RESPONSE", Exception}
    BY <1>2, <2>1 DEF Answer, Replies, Exception
  <2> HIDE DEF answer
  <2>3. Ended' = Ended /\ Outcomes' = Outcomes
    BY <2>1, <2>2, OutcomesAfterAnswer
  <2> QED
    BY <1>2, <2>3 DEF ServiceOf!serviceVars, Ended
<1>3. CASE ReqReply \/ ReqThrow
  BY <1>3, ServiceSettles DEF ServiceOf!ServiceNext
<1>4. CASE RecvPush
  BY <1>4, ServiceRequested DEF ServiceOf!ServiceNext
<1>5. ASSUME NEW info \in {"DEVICE", "PROCESS"}, ReqInfo(info)
      PROVE  UNCHANGED ServiceOf!serviceVars
  BY <1>2, <1>5 DEF ReqInfo
<1>6. CASE ReqFileDescriptorInfo
  BY <1>1, <1>2, <1>6 DEF ReqFileDescriptorInfo
<1>7. CASE CollectorInit \/ SetInterval \/ MatchMessage
  BY <1>1, <1>7 DEF CollectorInit, SetInterval, TimerDevice, TimerProcess, TimerFds,
     TimerPush, TimerCount, TimerCollect, TimerSleep, TimerWake, MatchMessage, history
<1>8. CASE ReqCall \/ ReqChangeInterval \/ Joined \/ SendPop \/ UNCHANGED vars
  BY <1>1, <1>8 DEF ReqCall, ReqChangeInterval, Joined, SendPop, vars, history
<1> QED
  BY <1>3, <1>4, <1>5, <1>6, <1>7, <1>8 DEF Next, Handle

(* Dispatch implements what the service promises of every step: a request  *)
(* with data is settled once, by its RESPONSE or by a handler that threw,  *)
(* after those that came before it, whatever the timer, the handlers and   *)
(* the queues do, for any number of requests (CMatch.cpp:13-56, 102-192).  *)
THEOREM DispatchIsService == Spec => ServiceOf!ServiceSafety
<1>1. Init => CompleteIInv
  BY OrderInit, CompleteInit DEF CompleteIInv
<1>2. CompleteIInv /\ [Next]_vars => CompleteIInv'
  BY OrderNext, CompleteNext DEF CompleteIInv
<1> QED
  BY <1>1, <1>2, ServiceStarts, ServiceSteps, PTL DEF Spec, ServiceOf!ServiceSafety
=============================================================================
