----------------------------- MODULE AgentProofs -----------------------------
(***************************************************************************)
(* What was proved of CCommunication alone holds of it inside the agent,   *)
(* and the dispatcher's records agree with it.                             *)
(*                                                                         *)
(* Every step of the agent is a step of Communication or leaves it alone:  *)
(* its components push and pop as Communication expects of any component.  *)
(***************************************************************************)
EXTENDS Agent, FramingProofs

(* The agent implements the environment that Communication assumes. *)
LEMMA AgentStep == [AgentNext]_agentVars => [Next]_vars
<1> SUFFICES ASSUME [AgentNext]_agentVars PROVE [Next]_vars
  OBVIOUS
<1>1. CASE Connection
  BY <1>1 DEF Connection, Next, Environment
<1>2. CASE TimerReport \/ Take \/ Settle
  BY <1>2 DEF TimerReport, Take, Settle, Reply, NoReply, Push, Next, Environment
<1>3. CASE UNCHANGED agentVars
  BY <1>3 DEF agentVars
<1> QED
  BY <1>1, <1>2, <1>3 DEF AgentNext

(* The agent as a whole keeps to what Communication allows                 *)
(* (main.cpp:19-22, CMatch.cpp:13-56, CCollector.cpp:15-65).               *)
THEOREM AgentImplementsCommunication == AgentSpec => Spec
<1>1. AgentInit => Init
  BY DEF AgentInit
<1> QED
  BY <1>1, AgentStep, PTL DEF AgentSpec, Spec

(* In the agent no socket leaks, messages are written in order and at most *)
(* once, and the inductive invariant holds, whatever the dispatcher, the   *)
(* timer and the other threads do (CCommunication.cpp:28-91, 146-150).     *)
THEOREM AgentKeepsSockets == AgentSpec => [](TypeOK /\ NoSocketLeak)
  BY AgentImplementsCommunication, TypeCorrect, SocketsAccounted, PTL

THEOREM AgentWritesInOrder == AgentSpec => [](SentInOrder /\ IInv)
  BY AgentImplementsCommunication, MessagesInOrder, InductiveInvariant, PTL

-----------------------------------------------------------------------------
(* Init and steps keep the type of the dispatcher and the kinds of the     *)
(* messages.                                                               *)
LEMMA AgentTypeInit == AgentInit => AgentTypeOK
  BY BoundsAssumption DEF AgentInit, Init, AgentTypeOK, NoRequest

LEMMA PushKeepsType ==
  ASSUME TypeOK, AgentTypeOK, NEW of \in Requests \cup {Garbage, Report}, Push(of)
  PROVE  /\ answerOf' \in Seq(Requests \cup {Garbage, Report})
         /\ Len(answerOf') = pushed'
  BY AppendProperties, SMTT(40) DEF AgentTypeOK, TypeOK, Push, ComponentPush

LEMMA AgentTypeNext ==
  TypeOK /\ TypeOK' /\ AgentTypeOK /\ [AgentNext]_agentVars => AgentTypeOK'
<1> SUFFICES ASSUME TypeOK, TypeOK', AgentTypeOK, [AgentNext]_agentVars
             PROVE  AgentTypeOK'
  OBVIOUS
<1>1. CASE Connection
  <2>1. pushed' = pushed
    BY <1>1 DEF Connection, Connect, Lock, CloseOld, Socket, ConnectSocket,
       CheckConnected, Send, Recv, CheckLive, SendPop, SendPopNothing, SendWrite,
       RecvRead, RecvData, RecvEnd, RecvError, RecvFrame, RecvNoFrame, Disconnect,
       DisconnectClose, OtherOpen, OtherClose, ServerSend, ServerClose,
       NetworkReset, ServerStop, ServerStart, history
  <2> QED
    BY <1>1, <2>1 DEF Connection, agent, AgentTypeOK
<1>2. CASE TimerReport
  BY <1>2, PushKeepsType DEF TimerReport, AgentTypeOK
<1>3. CASE Take
  <2>1. /\ dispatched' = Append(dispatched, Head(receiveMessage))
        /\ receiveMessage # <<>> /\ pushed' = pushed
    BY <1>3 DEF Take, MatchPop, PopReceiveMessage
  <2>2. dispatched'[Len(dispatched')] \in Requests \cup {Garbage}
    BY <2>1, AppendProperties, HeadTailProperties DEF TypeOK
  <2> QED
    BY <1>3, <2>1, <2>2 DEF Take, AgentTypeOK
<1>4. CASE Reply
  BY <1>4, PushKeepsType DEF Reply, AgentTypeOK
<1>5. CASE NoReply
  BY <1>5 DEF NoReply, AgentTypeOK, vars, history
<1>6. CASE UNCHANGED agentVars
  BY <1>6 DEF agentVars, vars, history, agent, AgentTypeOK
<1> QED
  BY <1>1, <1>2, <1>3, <1>4, <1>5, <1>6 DEF AgentNext, Settle

(* Every message that was pushed is known as a report or as the answer to  *)
(* one packet, and the dispatcher has one packet in hand or none           *)
(* (CMatch.cpp:18-56, CCollector.cpp:29-50).                               *)
THEOREM AgentTypeCorrect == AgentSpec => []AgentTypeOK
<1>1. AgentSpec => []TypeOK
  BY AgentKeepsSockets, PTL
<1> QED
  BY <1>1, AgentTypeInit, AgentTypeNext, PTL DEF AgentSpec

-----------------------------------------------------------------------------
(* What the dispatcher took is the first part of what was delivered.       *)
LEMMA DispatchedDelivered ==
  ASSUME TypeOK
  PROVE  /\ Len(dispatched) \in Nat /\ Len(Delivered) \in Nat
         /\ Len(dispatched) <= Len(Delivered)
         /\ \A p \in 1 .. Len(dispatched) :
              /\ p \in 1 .. Len(Delivered) /\ Delivered[p] = dispatched[p]
              /\ dispatched[p] \in Requests \cup {Garbage}
         /\ Spoiled(dispatched) \in Nat /\ Spoiled(Delivered) \in Nat
         /\ Spoiled(dispatched) <= Spoiled(Delivered)
<1> DEFINE S == Requests \cup {Garbage}
           Z(d) == {p \in 1 .. Len(d) : d[p] = Garbage}
<1>1. dispatched \in Seq(S) /\ receiveMessage \in Seq(S)
  BY DEF TypeOK
<1>2. Delivered \in Seq(S) /\ JoinOf(Delivered, dispatched, receiveMessage)
  BY <1>1, ConcatIsJoin DEF Delivered
<1>3. /\ Len(dispatched) \in Nat /\ Len(Delivered) \in Nat
      /\ Len(dispatched) <= Len(Delivered)
      /\ \A p \in 1 .. Len(dispatched) : p \in 1 .. Len(Delivered) /\ Delivered[p] = dispatched[p]
  BY <1>2 DEF JoinOf
<1>4. \A p \in 1 .. Len(dispatched) : dispatched[p] \in S
  BY <1>1, ElementOfSeq
<1>5. Z(dispatched) \subseteq Z(Delivered)
  BY <1>3
<1>6. IsFiniteSet(Z(Delivered))
  <2>1. IsFiniteSet(1 .. Len(Delivered))
    BY <1>3, FS_Interval
  <2> QED
    BY <2>1, FS_Subset
<1>7. Cardinality(Z(dispatched)) <= Cardinality(Z(Delivered))
  BY <1>5, <1>6, FS_Subset
<1>8. Spoiled(dispatched) <= Spoiled(Delivered)
  BY <1>7 DEF Spoiled
<1> QED
  BY <1>1, <1>2, <1>3, <1>4, <1>8, SpoiledCounts

(* The request in hand was not settled before. *)
LEMMA InHandIsNew ==
  ASSUME TypeOK, AgentTypeOK, RequestsInOrder, SettledOnce, current \in Requests
  PROVE  \A p \in 1 .. Handled : dispatched[p] # current
<1>1. current # NoRequest /\ current # Garbage
  BY BoundsAssumption DEF NoRequest, Garbage, Requests
<1>2. /\ Handled \in Nat /\ Handled + 1 = Len(dispatched)
      /\ dispatched[Handled + 1] = current
  BY <1>1, DispatchedDelivered DEF SettledOnce, Handled
<1>3. ASSUME NEW p \in 1 .. Handled, dispatched[p] = current PROVE FALSE
  <2>1. /\ p \in 1 .. Len(dispatched) /\ Len(dispatched) \in 1 .. Len(dispatched)
        /\ p < Len(dispatched)
    BY <1>2, <1>3
  <2>2. Delivered[p] = current /\ Delivered[Len(dispatched)] = current
    BY <1>2, <1>3, <2>1, DispatchedDelivered
  <2>3. p \in 1 .. Len(Delivered) /\ Len(dispatched) \in 1 .. Len(Delivered)
    BY <2>1, DispatchedDelivered
  <2> QED
    BY <1>1, <2>1, <2>2, <2>3 DEF RequestsInOrder
<1> QED
  BY <1>3

(* Every step settles a packet at most once (CMatch.cpp:18-56). *)
LEMMA SettledInit == AgentInit => SettledOnce
<1> SUFFICES ASSUME AgentInit PROVE SettledOnce
  OBVIOUS
<1>1. /\ dispatched = <<>> /\ answerOf = <<>> /\ failed = {} /\ current = NoRequest
  BY DEF AgentInit, Init
<1>2. NoRequest # Garbage /\ Spoiled(answerOf) = Spoiled(dispatched)
  BY <1>1 DEF NoRequest, Garbage
<1>3. Spoiled(dispatched) \in Nat
  <2>1. dispatched \in Seq(Requests)
    BY <1>1
  <2> QED
    BY <2>1, SpoiledCounts
<1> QED
  BY <1>1, <1>2, <1>3 DEF SettledOnce, Handled

LEMMA SettledNext ==
  TypeOK /\ AgentTypeOK /\ RequestsInOrder /\ SettledOnce /\ [AgentNext]_agentVars
    => SettledOnce'
<1> SUFFICES ASSUME TypeOK, AgentTypeOK, RequestsInOrder, SettledOnce,
                    [AgentNext]_agentVars
             PROVE  SettledOnce'
  OBVIOUS
<1> DEFINE S == Requests \cup {Garbage}
           A == Requests \cup {Garbage, Report}
<1>t. /\ dispatched \in Seq(S) /\ receiveMessage \in Seq(S) /\ Len(dispatched) \in Nat
      /\ answerOf \in Seq(A) /\ Len(answerOf) \in Nat /\ failed \subseteq Requests
      /\ current \in S \cup {NoRequest}
      /\ Spoiled(answerOf) \in Nat /\ Spoiled(dispatched) \in Nat
  BY SpoiledCounts, LenProperties DEF TypeOK, AgentTypeOK
<1>n. /\ NoRequest \notin S /\ Report \notin S /\ Garbage \notin Requests
      /\ Report = NoRequest
  BY BoundsAssumption DEF NoRequest, Report, Garbage, Requests
<1>1. ASSUME UNCHANGED <<dispatched, agent>> PROVE SettledOnce'
  BY <1>1 DEF agent, SettledOnce, Handled
<1>2. CASE Connection
  <2>1. dispatched' = dispatched
    BY <1>2 DEF Connection, Connect, Lock, CloseOld, Socket, ConnectSocket,
       CheckConnected, Send, Recv, CheckLive, SendPop, SendPopNothing, SendWrite,
       RecvRead, RecvData, RecvEnd, RecvError, RecvFrame, RecvNoFrame, Disconnect,
       DisconnectClose, OtherOpen, OtherClose, ServerSend, ServerClose,
       NetworkReset, ServerStop, ServerStart, history
  <2> QED
    BY <1>1, <1>2, <2>1 DEF Connection
<1>3. CASE UNCHANGED agentVars
  BY <1>1, <1>3 DEF agentVars, vars, history
<1> HIDE DEF S, A
<1>4. CASE TimerReport
  <2>1. /\ answerOf' = Append(answerOf, Report)
        /\ UNCHANGED <<dispatched, current, failed>>
    BY <1>4 DEF TimerReport, Push, ComponentPush
  <2>2. /\ Len(answerOf') = Len(answerOf) + 1 /\ answerOf'[Len(answerOf) + 1] = Report
        /\ \A m \in 1 .. Len(answerOf) : answerOf'[m] = answerOf[m]
    BY <1>t, <2>1 DEF A
  <2>3. Spoiled(answerOf') = Spoiled(answerOf)
    <3>1. Report \in A /\ Report # Garbage
      BY <1>n DEF A, S
    <3> QED
      BY <1>t, <2>1, <3>1, SpoiledAppend
  <2>4. Handled' = Handled /\ Report \notin Requests
    BY <1>n, <2>1 DEF Handled, S
  <2>5. \A m \in 1 .. Len(answerOf') :
          answerOf'[m] # Report => m \in 1 .. Len(answerOf) /\ answerOf'[m] = answerOf[m]
    BY <1>t, <2>2, SMTT(40)
  <2>6. \A m, n \in 1 .. Len(answerOf') :
          m < n /\ answerOf'[m] \in Requests /\ answerOf'[n] \in Requests =>
            \E p, q \in 1 .. Handled :
              p < q /\ dispatched[p] = answerOf'[m] /\ dispatched[q] = answerOf'[n]
    BY <2>4, <2>5 DEF SettledOnce
  <2>7. \A r \in failed : \A m \in 1 .. Len(answerOf') : answerOf'[m] # r
    BY <1>t, <2>4, <2>5, SMTT(40) DEF SettledOnce
  <2> QED
    BY <2>1, <2>3, <2>4, <2>5, <2>6, <2>7 DEF SettledOnce
<1>5. CASE Take
  <2>1. PICK x \in S : dispatched' = Append(dispatched, x)
    BY <1>5 DEF Take, MatchPop, S
  <2>2. /\ Len(dispatched') = Len(dispatched) + 1 /\ dispatched'[Len(dispatched) + 1] = x
        /\ \A p \in 1 .. Len(dispatched) : dispatched'[p] = dispatched[p]
    BY <1>t, <2>1
  <2>3. /\ current = NoRequest /\ current' = x /\ UNCHANGED <<answerOf, failed>>
    BY <1>5, <2>2 DEF Take
  <2>4. Handled = Len(dispatched) /\ Handled' = Len(dispatched) /\ x # NoRequest
    BY <1>t, <1>n, <2>2, <2>3 DEF Handled
  <2>5. Spoiled(dispatched') = IF x = Garbage THEN Spoiled(dispatched) + 1 ELSE Spoiled(dispatched)
    BY <1>t, <2>1, SpoiledAppend
  <2>6. Spoiled(answerOf) <= Spoiled(dispatched)
    BY <1>t, <1>n, <2>3 DEF SettledOnce, S
  <2>7. Spoiled(answerOf') + (IF current' = Garbage THEN 1 ELSE 0) <= Spoiled(dispatched')
    BY <1>t, <2>3, <2>5, <2>6
  <2>8. \A p \in 1 .. Handled : dispatched'[p] = dispatched[p]
    BY <2>2, <2>4
  <2>9. Handled' = Handled /\ Handled' \in Nat /\ dispatched'[Handled' + 1] = current'
    BY <1>t, <2>2, <2>3, <2>4
  <2> QED
    BY <2>3, <2>7, <2>8, <2>9 DEF SettledOnce
<1>6. CASE Reply
  <2>1. /\ answerOf' = Append(answerOf, current) /\ current # NoRequest
        /\ current' = NoRequest /\ UNCHANGED <<dispatched, failed>>
    BY <1>6 DEF Reply, Push, ComponentPush
  <2>2. current \in S /\ current \in A
    BY <1>t, <2>1 DEF A, S
  <2>3. /\ Len(answerOf') = Len(answerOf) + 1 /\ answerOf'[Len(answerOf) + 1] = current
        /\ \A m \in 1 .. Len(answerOf) : answerOf'[m] = answerOf[m]
    BY <1>t, <2>1, <2>2
  <2>4. Spoiled(answerOf') = IF current = Garbage THEN Spoiled(answerOf) + 1 ELSE Spoiled(answerOf)
    BY <1>t, <2>1, <2>2, SpoiledAppend
  <2>5. /\ Handled \in Nat /\ Handled + 1 = Len(dispatched) /\ Handled' = Handled + 1
        /\ dispatched[Handled + 1] = current
    BY <1>t, <2>1 DEF Handled, SettledOnce
  <2>6. Spoiled(answerOf') + (IF current' = Garbage THEN 1 ELSE 0) <= Spoiled(dispatched')
    <3>1. Spoiled(answerOf) + (IF current = Garbage THEN 1 ELSE 0) <= Spoiled(dispatched)
      BY DEF SettledOnce
    <3>2. current' # Garbage
      BY <1>n, <2>1 DEF S
    <3> QED
      BY <1>t, <2>1, <2>4, <3>1, <3>2
  <2>7. ASSUME NEW m \in 1 .. Len(answerOf'), answerOf'[m] # Report
        PROVE  \/ m \in 1 .. Len(answerOf) /\ \E p \in 1 .. Handled : dispatched[p] = answerOf'[m]
               \/ m = Len(answerOf) + 1 /\ dispatched[Handled + 1] = answerOf'[m]
    BY <1>t, <2>3, <2>5, <2>7, SMTT(40) DEF SettledOnce
  <2>8. \A m \in 1 .. Len(answerOf') : answerOf'[m] # Report =>
          \E p \in 1 .. Handled + 1 : dispatched[p] = answerOf'[m]
    BY <2>5, <2>7
  <2>9. ASSUME NEW m \in 1 .. Len(answerOf'), NEW n \in 1 .. Len(answerOf'), m < n,
               answerOf'[m] \in Requests, answerOf'[n] \in Requests
        PROVE  \E p, q \in 1 .. Handled + 1 :
                 p < q /\ dispatched[p] = answerOf'[m] /\ dispatched[q] = answerOf'[n]
    <3>1. m \in 1 .. Len(answerOf)
      BY <1>t, <2>3, <2>9
    <3>2. CASE n \in 1 .. Len(answerOf)
      <4>1. PICK p, q \in 1 .. Handled :
              p < q /\ dispatched[p] = answerOf[m] /\ dispatched[q] = answerOf[n]
        BY <2>3, <2>9, <3>1, <3>2 DEF SettledOnce
      <4>2. p \in 1 .. Handled + 1 /\ q \in 1 .. Handled + 1
        BY <2>5
      <4> QED
        BY <2>3, <3>1, <3>2, <4>1, <4>2
    <3>3. CASE n = Len(answerOf) + 1
      <4>1. answerOf'[m] # Report /\ answerOf[m] = answerOf'[m]
        BY <1>n, <2>3, <2>9, <3>1 DEF S
      <4>2. PICK p \in 1 .. Handled : dispatched[p] = answerOf[m]
        BY <3>1, <4>1 DEF SettledOnce
      <4>3. /\ p \in 1 .. Handled + 1 /\ Handled + 1 \in 1 .. Handled + 1 /\ p < Handled + 1
        BY <2>5
      <4> QED
        BY <2>3, <2>5, <3>3, <4>1, <4>2, <4>3
    <3> QED
      BY <1>t, <2>3, <3>2, <3>3
  <2>10. ASSUME NEW r \in failed
         PROVE  /\ \E p \in 1 .. Handled + 1 : dispatched[p] = r
                /\ \A m \in 1 .. Len(answerOf') : answerOf'[m] # r
    <3>1. PICK p \in 1 .. Handled : dispatched[p] = r
      BY DEF SettledOnce
    <3>2. r # current
      <4>1. CASE current \in Requests
        BY <3>1, <4>1, InHandIsNew
      <4>2. CASE current = Garbage
        BY <1>t, <1>n, <4>2
      <4> QED
        BY <2>2, <4>1, <4>2 DEF S
    <3>3. \A m \in 1 .. Len(answerOf) : answerOf[m] # r
      BY DEF SettledOnce
    <3>4. \A m \in 1 .. Len(answerOf') : answerOf'[m] # r
      BY <1>t, <2>3, <3>2, <3>3, SMTT(40)
    <3>5. p \in 1 .. Handled + 1
      BY <2>5
    <3> QED
      BY <3>1, <3>4, <3>5
  <2> QED
    BY <2>1, <2>5, <2>6, <2>8, <2>9, <2>10 DEF SettledOnce
<1>7. CASE NoReply
  <2>1. /\ current # NoRequest /\ current' = NoRequest
        /\ UNCHANGED <<dispatched, answerOf>>
        /\ \/ current \in Requests /\ failed' = failed \cup {current}
           \/ current = Garbage /\ failed' = failed
    BY <1>7, <1>n DEF NoReply, vars, history, S
  <2>2. /\ Handled \in Nat /\ Handled' = Handled + 1 /\ dispatched[Handled + 1] = current
    BY <1>t, <2>1 DEF Handled, SettledOnce
  <2>3. \A p \in 1 .. Handled : p \in 1 .. Handled + 1
    BY <2>2
  <2>4. Spoiled(answerOf') + (IF current' = Garbage THEN 1 ELSE 0) <= Spoiled(dispatched')
    <3>1. Spoiled(answerOf) + (IF current = Garbage THEN 1 ELSE 0) <= Spoiled(dispatched)
      BY DEF SettledOnce
    <3>2. current' # Garbage
      BY <1>n, <2>1 DEF S
    <3> QED
      BY <1>t, <2>1, <3>1, <3>2
  <2>5. ASSUME NEW r \in failed'
        PROVE  /\ \E p \in 1 .. Handled + 1 : dispatched[p] = r
               /\ \A m \in 1 .. Len(answerOf) : answerOf[m] # r
    <3>1. CASE r \in failed
      BY <2>3, <3>1 DEF SettledOnce
    <3>2. CASE current \in Requests /\ r = current
      <4>1. Handled + 1 \in 1 .. Handled + 1
        BY <2>2
      <4>2. ASSUME NEW m \in 1 .. Len(answerOf), answerOf[m] = r PROVE FALSE
        <5>1. answerOf[m] # Report
          BY <1>n, <3>2, <4>2 DEF S
        <5>2. PICK p \in 1 .. Handled : dispatched[p] = answerOf[m]
          BY <5>1 DEF SettledOnce
        <5> QED
          BY <3>2, <4>2, <5>2, InHandIsNew
      <4> QED
        BY <2>2, <3>2, <4>1, <4>2
    <3> QED
      BY <2>1, <2>5, <3>1, <3>2
  <2>6. \A m \in 1 .. Len(answerOf) : answerOf[m] # Report =>
          \E p \in 1 .. Handled + 1 : dispatched[p] = answerOf[m]
    BY <2>3 DEF SettledOnce
  <2>7. \A m, n \in 1 .. Len(answerOf) :
          m < n /\ answerOf[m] \in Requests /\ answerOf[n] \in Requests =>
            \E p, q \in 1 .. Handled + 1 :
              p < q /\ dispatched[p] = answerOf[m] /\ dispatched[q] = answerOf[n]
    BY <2>3 DEF SettledOnce
  <2> QED
    BY <2>1, <2>2, <2>4, <2>5, <2>6, <2>7 DEF SettledOnce
<1> QED
  BY <1>2, <1>3, <1>4, <1>5, <1>6, <1>7 DEF AgentNext, Settle

-----------------------------------------------------------------------------
(* The answers that were written: each belongs to a packet that was taken. *)
LEMMA WrittenKnown ==
  ASSUME TypeOK, AgentTypeOK, SendInv, NEW i \in 1 .. Len(written)
  PROVE  /\ written[i] \in 1 .. Len(answerOf)
         /\ answerOf[written[i]] \in Requests \cup {Garbage, Report}
<1>1. pushed \in Nat /\ Len(sendMessage) \in Nat /\ Len(answerOf) = pushed
  BY LenProperties, BoundsAssumption DEF TypeOK, AgentTypeOK
<1>2. written[i] \in Nat \ {0}
  <2>1. written[i] \in Messages
    BY ElementOfSeq DEF TypeOK
  <2> QED
    BY <2>1, BoundsAssumption DEF Messages
<1>3. written[i] <= pushed - Len(sendMessage)
  BY <1>1, <1>2 DEF SendInv
<1>4. written[i] \in 1 .. Len(answerOf)
  BY <1>1, <1>2, <1>3
<1> QED
  BY <1>4, ElementOfSeq DEF AgentTypeOK

(* Messages are written once, so that of the answers to garbage no more    *)
(* are written than were pushed.                                           *)
LEMMA UnaskedBound ==
  ASSUME TypeOK, AgentTypeOK, SendInv, SentInOrder, SettledOnce
  PROVE  LET unasked == {i \in 1 .. Len(written) : answerOf[written[i]] = Garbage}
         IN  /\ Cardinality(unasked) \in Nat
             /\ Cardinality(unasked) <= Spoiled(answerOf)
             /\ unasked # {} => Spoiled(answerOf) > 0
<1> DEFINE U == {i \in 1 .. Len(written) : answerOf[written[i]] = Garbage}
           G == {m \in 1 .. Len(answerOf) : answerOf[m] = Garbage}
           f == [i \in U |-> written[i]]
<1>1. /\ answerOf \in Seq(Requests \cup {Garbage, Report}) /\ Len(answerOf) \in Nat
      /\ Len(written) \in Nat /\ Messages \subseteq Nat
      /\ \A i \in 1 .. Len(written) : written[i] \in Messages
  BY LenProperties, ElementOfSeq, BoundsAssumption, SMTT(40) DEF TypeOK, AgentTypeOK, Messages
<1>2. IsFiniteSet(G) /\ Cardinality(G) = Spoiled(answerOf)
  <2>1. IsFiniteSet(1 .. Len(answerOf))
    BY <1>1, FS_Interval
  <2> QED
    BY <2>1, FS_Subset DEF Spoiled
<1>3. \A i \in U : written[i] \in G
  BY WrittenKnown
<1>4. \A i, j \in U : written[i] = written[j] => i = j
  <2> SUFFICES ASSUME NEW i \in U, NEW j \in U, i < j PROVE written[i] # written[j]
    BY <1>1
  <2>1. written[i] < written[j] /\ written[i] \in Nat /\ written[j] \in Nat
    BY <1>1 DEF SentInOrder
  <2> QED
    BY <2>1
<1>5. f \in Injection(U, G)
  BY <1>3, <1>4 DEF Injection, IsInjective
<1> HIDE DEF U, G, f
<1>6. IsFiniteSet(U) /\ Cardinality(U) <= Cardinality(G)
  BY <1>2, <1>5, FS_Injection
<1>7. Cardinality(U) \in Nat /\ (Cardinality(U) = 0 <=> U = {})
  BY <1>6, FS_CardinalityType, FS_EmptySet
<1>8. Spoiled(answerOf) \in Nat
  BY <1>1, SpoiledCounts
<1>9. /\ Cardinality(U) \in Nat /\ Cardinality(U) <= Spoiled(answerOf)
      /\ U # {} => Spoiled(answerOf) > 0
  BY <1>2, <1>6, <1>7, <1>8
<1> QED
  BY <1>9 DEF U

LEMMA SettledAreOwn ==
  ASSUME TypeOK, AgentTypeOK, SendInv, SentInOrder, RequestsInOrder,
         GarbagePerReconnect, SettledOnce
  PROVE  AnswersAreOwn
<1> DEFINE Of(i) == answerOf[written[i]]
           answers == {i \in 1 .. Len(written) : Of(i) # Report}
           unasked == {i \in answers : Of(i) = Garbage}
<1>n. Report \notin Requests /\ Garbage \notin Requests /\ Garbage # Report
  BY BoundsAssumption DEF Report, Garbage, Requests
<1>1. unasked # {} => Cardinality(unasked) < conns
  <2>1. unasked = {i \in 1 .. Len(written) : answerOf[written[i]] = Garbage}
    BY <1>n
  <2>2. /\ Cardinality(unasked) \in Nat /\ Cardinality(unasked) <= Spoiled(answerOf)
        /\ unasked # {} => Spoiled(answerOf) > 0
    BY <2>1, UnaskedBound
  <2> HIDE DEF unasked
  <2>3. /\ Spoiled(dispatched) \in Nat /\ Spoiled(Delivered) \in Nat
        /\ Spoiled(dispatched) <= Spoiled(Delivered)
    BY DispatchedDelivered
  <2>4. Spoiled(answerOf) \in Nat /\ Spoiled(answerOf) <= Spoiled(dispatched)
    <3>1. Spoiled(answerOf) \in Nat
      BY SpoiledCounts DEF AgentTypeOK
    <3> QED
      BY <2>3, <3>1 DEF SettledOnce
  <2>5. Spoiled(Delivered) > 0 => Spoiled(Delivered) < conns
    <3>1. Delivered \in Seq(Requests \cup {Garbage})
      BY FramingTypes
    <3>2. Spoiled(Delivered) > 0 => \E i \in 1 .. Len(Delivered) : Delivered[i] = Garbage
      BY <3>1, SpoiledCounts
    <3> QED
      BY <3>2, SpoiledPerReconnect
  <2>6. conns \in Nat
    BY DEF TypeOK
  <2> QED
    BY <2>2, <2>3, <2>4, <2>5, <2>6
<1>2. ASSUME NEW i \in answers, NEW j \in answers, i < j,
             Garbage \notin {Of(i), Of(j)}
      PROVE  /\ Of(i) # Of(j)
             /\ origin[Of(i)] = origin[Of(j)] => Of(i) < Of(j)
  <2>1. Of(i) \in Requests /\ Of(j) \in Requests
    BY <1>2, WrittenKnown
  <2>2. written[i] \in 1 .. Len(answerOf) /\ written[j] \in 1 .. Len(answerOf)
    BY WrittenKnown
  <2>3. written[i] < written[j]
    BY <1>2 DEF SentInOrder
  <2>4. PICK p, q \in 1 .. Handled :
          p < q /\ dispatched[p] = Of(i) /\ dispatched[q] = Of(j)
    BY <2>1, <2>2, <2>3 DEF SettledOnce
  <2>5. p \in 1 .. Len(dispatched) /\ q \in 1 .. Len(dispatched)
    BY <2>4, DispatchedDelivered, SMTT(40) DEF Handled
  <2>6. /\ p \in 1 .. Len(Delivered) /\ q \in 1 .. Len(Delivered)
        /\ Delivered[p] = Of(i) /\ Delivered[q] = Of(j)
    BY <2>4, <2>5, DispatchedDelivered
  <2> QED
    BY <1>2, <2>4, <2>6 DEF RequestsInOrder
<1>3. ASSUME NEW i \in answers PROVE Of(i) \notin failed
  BY WrittenKnown DEF SettledOnce
<1> QED
  BY <1>1, <1>2, <1>3 DEF AnswersAreOwn

(* Requests reach CMatch at most once and in the order of their            *)
(* connection, whole while there is one, and a lost connection spoils at   *)
(* most one packet, in the agent as in CCommunication alone (:93-144).     *)
THEOREM AgentDeliversInOrder ==
  AgentSpec => [](RequestsInOrder /\ GarbagePerReconnect /\ FramesIntact)
  BY AgentImplementsCommunication, DeliveredInOrder, SpoiledByReconnect,
     FramesArriveWhole, PTL

(* No request is answered twice or after its handler threw, the answers    *)
(* to what one connection brought are written in its order, and those that *)
(* the server never asked for are fewer than the connections, for any      *)
(* numbers of requests, reports, connections and failures                  *)
(* (CCommunication.cpp:57-144, CMatch.cpp:18-56).                          *)
THEOREM AnswersBelongToRequests == AgentSpec => []AnswersAreOwn
<1>1. AgentSpec => [](TypeOK /\ AgentTypeOK)
  BY AgentKeepsSockets, AgentTypeCorrect, PTL
<1>2. AgentSpec => [](SendInv /\ SentInOrder)
  BY AgentWritesInOrder, PTL DEF IInv
<1>3. AgentSpec => [](RequestsInOrder /\ GarbagePerReconnect)
  BY AgentDeliversInOrder, PTL
<1>4. AgentSpec => []SettledOnce
  BY <1>1, <1>3, SettledInit, SettledNext, PTL DEF AgentSpec
<1>5. /\ TypeOK /\ AgentTypeOK /\ SendInv /\ SentInOrder
      /\ RequestsInOrder /\ GarbagePerReconnect /\ SettledOnce
      => AnswersAreOwn
  BY SettledAreOwn
<1> QED
  BY <1>1, <1>2, <1>3, <1>4, <1>5, PTL

(* All that these rest on holds together: the mutex, the descriptors, the  *)
(* queue, the streams between the server and messageBuffers, and what is   *)
(* settled (CCommunication.cpp:28-150, CMatch.cpp:18-56).                  *)
THEOREM AgentInductive == AgentSpec => []AgentInv
<1>1. AgentSpec => [](TypeOK /\ AgentTypeOK)
  BY AgentKeepsSockets, AgentTypeCorrect, PTL
<1>2. AgentSpec => []RequestsInOrder
  BY AgentDeliversInOrder, PTL
<1>3. AgentSpec => []SettledOnce
  BY <1>1, <1>2, SettledInit, SettledNext, PTL DEF AgentSpec
<1>4. AgentSpec => []IInv
  BY AgentWritesInOrder, PTL
<1>5. AgentSpec => [](MainFirst /\ BeforeFirst /\ Framed /\ OneConnection)
  BY AgentImplementsCommunication, StreamsAlways, PTL
<1>6. IInv /\ MainFirst /\ BeforeFirst /\ Framed /\ OneConnection /\ SettledOnce
      => AgentInv
  BY DEF AgentInv, Framed
<1> QED
  BY <1>3, <1>4, <1>5, <1>6, PTL

-----------------------------------------------------------------------------
(***************************************************************************)
(* While nothing fails and no handler throws, the server sees the service. *)
(***************************************************************************)

(* Every request that was handled has been answered. *)
NoneFailed ==
  /\ failed = {}
  /\ \A p \in 1 .. Handled : dispatched[p] \in Requests =>
       \E m \in 1 .. Len(answerOf) : answerOf[m] = dispatched[p]

(* Messages that were pushed stay what they are. *)
LEMMA AnswersStay ==
  ASSUME TypeOK, AgentTypeOK, [AgentNext]_agentVars
  PROVE  /\ Len(answerOf) \in Nat /\ Len(answerOf') \in Nat
         /\ Len(answerOf) <= Len(answerOf')
         /\ \A m \in 1 .. Len(answerOf) : answerOf'[m] = answerOf[m]
<1>1. answerOf \in Seq(Requests \cup {Garbage, Report}) /\ Len(answerOf) \in Nat
  BY LenProperties DEF AgentTypeOK
<1>2. ASSUME NEW of \in Requests \cup {Garbage, Report}, answerOf' = Append(answerOf, of)
      PROVE  /\ Len(answerOf') = Len(answerOf) + 1
             /\ \A m \in 1 .. Len(answerOf) : answerOf'[m] = answerOf[m]
  BY <1>1, <1>2, AppendProperties
<1>3. CASE TimerReport
  BY <1>1, <1>2, <1>3 DEF TimerReport, Push
<1>4. CASE Reply
  BY <1>1, <1>2, <1>4 DEF Reply, Push, AgentTypeOK
<1>5. CASE ~TimerReport /\ ~Reply
  <2>1. answerOf' = answerOf
    BY <1>5 DEF AgentNext, Connection, Take, Settle, NoReply, agentVars, agent
  <2> QED
    BY <1>1, <2>1
<1> QED
  BY <1>3, <1>4, <1>5

LEMMA NoneFailedNext ==
  ASSUME MaxThrows = 0
  PROVE  TypeOK /\ AgentTypeOK /\ SettledOnce /\ NoneFailed /\ [AgentNext]_agentVars
           => NoneFailed'
<1> SUFFICES ASSUME TypeOK, AgentTypeOK, SettledOnce, NoneFailed, [AgentNext]_agentVars
             PROVE  NoneFailed'
  OBVIOUS
<1>t. /\ dispatched \in Seq(Requests \cup {Garbage}) /\ Len(dispatched) \in Nat
      /\ current \in Requests \cup {Garbage, NoRequest}
  BY LenProperties DEF TypeOK, AgentTypeOK
<1>n. NoRequest \notin Requests \cup {Garbage} /\ Garbage \notin Requests
  BY BoundsAssumption DEF NoRequest, Garbage, Requests
<1>1. \A m \in 1 .. Len(answerOf) :
        m \in 1 .. Len(answerOf') /\ answerOf'[m] = answerOf[m]
  BY AnswersStay
<1>2. ASSUME UNCHANGED <<dispatched, current, failed>> PROVE NoneFailed'
  <2>1. Handled' = Handled
    BY <1>2 DEF Handled
  <2> QED
    BY <1>1, <1>2, <2>1 DEF NoneFailed
<1>3. CASE Connection
  <2>1. dispatched' = dispatched
    BY <1>3 DEF Connection, Connect, Lock, CloseOld, Socket, ConnectSocket,
       CheckConnected, Send, Recv, CheckLive, SendPop, SendPopNothing, SendWrite,
       RecvRead, RecvData, RecvEnd, RecvError, RecvFrame, RecvNoFrame, Disconnect,
       DisconnectClose, OtherOpen, OtherClose, ServerSend, ServerClose,
       NetworkReset, ServerStop, ServerStart, history
  <2> QED
    BY <1>2, <1>3, <2>1 DEF Connection, agent
<1>4. CASE TimerReport
  BY <1>2, <1>4 DEF TimerReport, Push, ComponentPush
<1>5. CASE Take
  <2>1. PICK x \in Requests \cup {Garbage} : dispatched' = Append(dispatched, x)
    BY <1>5 DEF Take, MatchPop
  <2>2. /\ Len(dispatched') = Len(dispatched) + 1 /\ dispatched'[Len(dispatched) + 1] = x
        /\ \A p \in 1 .. Len(dispatched) : dispatched'[p] = dispatched[p]
    BY <1>t, <2>1
  <2>3. current = NoRequest /\ current' = x /\ UNCHANGED <<answerOf, failed>>
    BY <1>5, <2>2 DEF Take
  <2>4. Handled = Len(dispatched) /\ Handled' = Len(dispatched)
    BY <1>t, <1>n, <2>2, <2>3 DEF Handled
  <2> QED
    BY <2>2, <2>3, <2>4 DEF NoneFailed
<1>6. ASSUME current # NoRequest, current' = NoRequest, dispatched' = dispatched
      PROVE  /\ Handled \in Nat /\ Handled' = Handled + 1
             /\ dispatched[Handled + 1] = current
             /\ \A p \in 1 .. Handled + 1 : p \in 1 .. Handled \/ p = Handled + 1
  BY <1>t, <1>6 DEF Handled, SettledOnce
<1>7. CASE Reply
  <2>1. /\ answerOf' = Append(answerOf, current) /\ current # NoRequest
        /\ current' = NoRequest /\ UNCHANGED <<dispatched, failed>>
    BY <1>7 DEF Reply, Push, ComponentPush
  <2>2. /\ Len(answerOf) + 1 \in 1 .. Len(answerOf')
        /\ answerOf'[Len(answerOf) + 1] = current
    BY <2>1, AppendProperties DEF AgentTypeOK
  <2> QED
    BY <1>1, <1>6, <2>1, <2>2 DEF NoneFailed
<1>8. CASE NoReply
  <2>1. current = Garbage /\ failed' = failed
    <3>1. Cardinality(failed) = 0
      BY FS_EmptySet DEF NoneFailed
    <3> QED
      BY <1>8, <3>1 DEF NoReply
  <2>2. current # NoRequest /\ current' = NoRequest /\ UNCHANGED <<dispatched, answerOf>>
    BY <1>8, <1>n, <2>1 DEF NoReply, vars, history
  <2> QED
    BY <1>n, <1>6, <2>1, <2>2 DEF NoneFailed
<1>9. CASE UNCHANGED agentVars
  BY <1>2, <1>9 DEF agentVars, vars, history, agent
<1> QED
  BY <1>3, <1>4, <1>5, <1>7, <1>8, <1>9 DEF AgentNext, Settle

(* Until a connection is lost, the packet at p is request p. *)
LEMMA HandledIsItself ==
  ASSUME TypeOK, AgentTypeOK, SettledOnce, OriginInv, FramesIntact, conns <= 1,
         NEW p \in 1 .. Handled
  PROVE  /\ dispatched[p] = p
         /\ p \in 1 .. asked /\ p \in Requests
<1>1. p \in 1 .. Len(dispatched)
  BY DispatchedDelivered DEF Handled
<1>2. p \in 1 .. Len(Delivered) /\ Delivered[p] = dispatched[p]
  BY <1>1, DispatchedDelivered
<1>3. dispatched[p] = p
  BY <1>2 DEF FramesIntact
<1>4. p <= asked
  BY <1>2, <1>3 DEF OriginInv
<1>5. p \in Nat /\ p >= 1 /\ asked \in Nat /\ asked <= MaxRequests
  BY BoundsAssumption DEF TypeOK
<1> QED
  BY <1>3, <1>4, <1>5, BoundsAssumption DEF Requests

(* The next message that is written is a report, or answers the least      *)
(* request that no message before it answered.                             *)
LEMMA NextAnswer ==
  ASSUME TypeOK, AgentTypeOK, SettledOnce, NoneFailed, OriginInv, FramesIntact,
         conns <= 1, NEW k \in 1 .. Len(answerOf), answerOf[k] \in Requests
  PROVE  /\ answerOf[k] \in 1 .. asked
         /\ \A m \in 1 .. k - 1 : answerOf[m] # answerOf[k]
         /\ \A q \in 1 .. asked :
              q < answerOf[k] => \E m \in 1 .. k - 1 : answerOf[m] = q
<1>n. Report \notin Requests /\ Requests \subseteq Nat \ {0}
  BY BoundsAssumption DEF Report, Requests
<1>l. Len(answerOf) \in Nat
  BY LenProperties DEF AgentTypeOK
<1>1. PICK p \in 1 .. Handled : dispatched[p] = answerOf[k]
  BY <1>n DEF SettledOnce
<1>2. answerOf[k] = p /\ p \in 1 .. asked
  BY <1>1, HandledIsItself
<1>h. Handled \in Int
  BY DispatchedDelivered DEF Handled
<1>3. ASSUME NEW m \in 1 .. Len(answerOf), NEW n \in 1 .. Len(answerOf), m < n,
             answerOf[m] \in Requests, answerOf[n] \in Requests
      PROVE  answerOf[m] < answerOf[n]
  <2>1. PICK a, b \in 1 .. Handled :
          a < b /\ dispatched[a] = answerOf[m] /\ dispatched[b] = answerOf[n]
    BY <1>3 DEF SettledOnce
  <2>2. dispatched[a] = a /\ dispatched[b] = b
    BY HandledIsItself
  <2> QED
    BY <2>1, <2>2
<1>4. ASSUME NEW m \in 1 .. k - 1, answerOf[m] = answerOf[k] PROVE FALSE
  <2>1. m \in 1 .. Len(answerOf) /\ m < k
    BY <1>l
  <2> QED
    BY <1>2, <1>3, <1>4, <2>1
<1>5. ASSUME NEW q \in 1 .. asked, q < answerOf[k]
      PROVE  \E m \in 1 .. k - 1 : answerOf[m] = q
  <2>1. q \in 1 .. Handled
    BY <1>2, <1>5, <1>h
  <2>2. dispatched[q] = q /\ q \in Requests
    BY <2>1, HandledIsItself
  <2>3. PICK m \in 1 .. Len(answerOf) : answerOf[m] = q
    BY <2>1, <2>2 DEF NoneFailed
  <2>4. ~(k < m)
    <3> SUFFICES ASSUME k < m PROVE FALSE
      OBVIOUS
    <3>1. answerOf[k] < q
      BY <1>3, <2>2, <2>3
    <3> QED
      BY <1>2, <1>5, <3>1
  <2>5. m # k
    BY <1>2, <1>5, <2>3
  <2>6. m \in 1 .. k - 1
    BY <1>l, <2>4, <2>5
  <2> QED
    BY <2>3, <2>6
<1> QED
  BY <1>2, <1>4, <1>5

LEMMA ServiceStutters ==
  ASSUME TypeOK, AgentTypeOK, SendInv, [AgentNext]_agentVars,
         UNCHANGED <<written, asked>>
  PROVE  UNCHANGED RoundTrip!serviceVars
<1>1. \A i \in 1 .. Len(written) : answerOf'[written[i]] = answerOf[written[i]]
  BY WrittenKnown, AnswersStay
<1>2. Answered' = Answered
  BY <1>1 DEF Answered
<1>3. Answered \subseteq 1 .. Len(written)
  BY DEF Answered
<1>4. {answerOf[written[i]] : i \in Answered}' = {answerOf[written[i]] : i \in Answered}
  BY <1>1, <1>2, <1>3
<1> QED
  BY <1>2, <1>4 DEF RoundTrip!serviceVars

(* Once the next message is written, the service has settled what it       *)
(* answers, or it was a report.                                            *)
LEMMA WriteSettles ==
  ASSUME TypeOK, AgentTypeOK, SettledOnce, NoneFailed, OriginInv, FramesIntact,
         InSequence, conns <= 1, UNCHANGED <<answerOf, asked>>,
         written' = Append(written, Len(written) + 1),
         Len(written) + 1 \in 1 .. Len(answerOf)
  PROVE  [RoundTrip!ServiceNext]_(RoundTrip!serviceVars)
<1> DEFINE k == Len(written) + 1
           r == answerOf[k]
           settled == {answerOf[written[i]] : i \in Answered}
<1>n. Report \notin Requests
  BY BoundsAssumption DEF Report, Requests
<1>1. /\ written \in Seq(Messages) /\ Len(written) \in Nat /\ k \in Nat
      /\ Len(written') = k /\ written'[k] = k
      /\ \A i \in 1 .. Len(written) : written'[i] = written[i] /\ written[i] = i
  <2>1. written \in Seq(Messages) /\ Len(written) \in Nat
    BY LenProperties DEF TypeOK
  <2> QED
    BY <2>1, AppendProperties DEF InSequence
<1>2. 1 .. k = (1 .. Len(written)) \cup {k} /\ k \notin 1 .. Len(written)
  BY <1>1
<1>3. Answered \subseteq 1 .. Len(written) /\ IsFiniteSet(Answered)
  <2>1. IsFiniteSet(1 .. Len(written))
    BY <1>1, FS_Interval
  <2> QED
    BY <2>1, FS_Subset DEF Answered
<1>4. \A i \in 1 .. Len(written) : answerOf'[written'[i]] = answerOf[written[i]]
  BY <1>1
<1>5. answerOf'[written'[k]] = r
  BY <1>1
<1>6. CASE r = Report
  <2>1. Answered' = Answered
    BY <1>1, <1>2, <1>4, <1>5, <1>6 DEF Answered
  <2>2. settled' = settled
    BY <1>3, <1>4, <2>1
  <2> QED
    BY <2>1, <2>2 DEF RoundTrip!serviceVars
<1>7. CASE r # Report
  <2>1. r \in Requests
    <3>1. r \in Requests \cup {Garbage, Report}
      BY ElementOfSeq DEF AgentTypeOK
    <3>2. r # Garbage
      <4>1. PICK p \in 1 .. Handled : dispatched[p] = r
        BY <1>7 DEF SettledOnce
      <4>2. r \in Requests
        BY <4>1, HandledIsItself
      <4> QED
        BY <4>2, BoundsAssumption DEF Garbage, Requests
    <3> QED
      BY <1>7, <3>1, <3>2
  <2>2. /\ r \in 1 .. asked
        /\ \A m \in 1 .. k - 1 : answerOf[m] # r
        /\ \A q \in 1 .. asked : q < r => \E m \in 1 .. k - 1 : answerOf[m] = q
    BY <2>1, NextAnswer
  <2>3. Answered' = Answered \cup {k} /\ k \notin Answered
    BY <1>1, <1>2, <1>3, <1>4, <1>5, <1>7 DEF Answered
  <2>4. Cardinality(Answered') = Cardinality(Answered) + 1
    BY <1>3, <2>3, FS_AddElement
  <2>5. settled' = settled \cup {r}
    BY <1>3, <1>4, <1>5, <2>3
  <2>6. r \in (1 .. asked) \ settled
    BY <1>1, <1>3, <2>2
  <2>7. ASSUME NEW q \in (1 .. asked) \ settled, q < r PROVE FALSE
    <3>1. PICK m \in 1 .. k - 1 : answerOf[m] = q
      BY <2>2, <2>7
    <3>2. q \in Requests
      BY <2>7, BoundsAssumption DEF TypeOK, Requests
    <3>3. m \in Answered /\ answerOf[written[m]] = q
      BY <1>n, <1>1, <3>1, <3>2 DEF Answered
    <3> QED
      BY <2>7, <3>3
  <2>8. \A q \in (1 .. asked) \ settled : r <= q
    BY <2>2, <2>7
  <2> QED
    BY <2>4, <2>5, <2>6, <2>8 DEF RoundTrip!Settle, RoundTrip!ServiceNext
<1> QED
  BY <1>6, <1>7

LEMMA RoundTripInit == AgentInit => RoundTrip!ServiceInit
<1> SUFFICES ASSUME AgentInit PROVE RoundTrip!ServiceInit
  OBVIOUS
<1>1. written = <<>> /\ asked = 0
  BY DEF AgentInit, Init, InitQueues
<1>2. 1 .. asked = {} /\ 1 .. Len(written) = {}
  BY <1>1
<1>3. Answered = {}
  BY <1>2 DEF Answered
<1> QED
  BY <1>2, <1>3, FS_EmptySet DEF RoundTrip!ServiceInit

LEMMA RoundTripStep ==
  TypeOK /\ AgentTypeOK /\ SendInv /\ BeforeFirst /\ OriginInv /\ FramesIntact
    /\ SettledOnce /\ Reliable /\ InSequence /\ NoneFailed /\ [AgentNext]_agentVars
    => [RoundTrip!ServiceNext]_(RoundTrip!serviceVars)
<1> SUFFICES ASSUME TypeOK, AgentTypeOK, SendInv, BeforeFirst, OriginInv, FramesIntact,
                    SettledOnce, Reliable, InSequence, NoneFailed,
                    [AgentNext]_agentVars
             PROVE  [RoundTrip!ServiceNext]_(RoundTrip!serviceVars)
  OBVIOUS
<1>1. CASE Connection /\ SendWrite
  <2>1. /\ pc["send"] = "write"
        /\ UNCHANGED <<pushed, asked, sendMessage, answerOf>>
    BY <1>1 DEF Connection, agent, SendWrite, At, queues
  <2>2. conns = 1
    BY <2>1 DEF Reliable, InConnect
  <2>3. File(clientSocket) = 1 /\ state[1] = "est" /\ 1 \in Conns
    BY <2>2, BoundsAssumption DEF Reliable, TypeOK, Conns
  <2>4. written' = Append(written, Len(written) + 1)
    BY <1>1, <2>1, <2>3 DEF SendWrite, InSequence
  <2>5. Len(written) + 1 \in 1 .. Len(answerOf)
    <3>1. Len(written) \in Nat /\ Len(sendMessage) \in Nat /\ Len(answerOf) = pushed
      BY LenProperties DEF TypeOK, AgentTypeOK
    <3> QED
      BY <2>1, <3>1 DEF InSequence
  <2> QED
    BY <2>1, <2>2, <2>4, <2>5, WriteSettles
<1>2. CASE Connection /\ ServerSend
  <2>1. /\ asked' = asked + 1 /\ asked \in Nat
        /\ UNCHANGED <<written, answerOf>>
    BY <1>2 DEF Connection, agent, ServerSend, history, TypeOK
  <2>2. /\ 1 .. asked' = (1 .. asked) \cup {asked + 1} /\ asked + 1 \in 1 .. asked'
        /\ \A q \in 1 .. asked : q < asked + 1
    BY <2>1
  <2>3. Answered' = Answered
    BY <2>1 DEF Answered
  <2>4. {answerOf[written[i]] : i \in Answered}' = {answerOf[written[i]] : i \in Answered}
    BY <2>1, <2>3
  <2> QED
    BY <2>2, <2>3, <2>4 DEF RoundTrip!Request, RoundTrip!ServiceNext
<1>3. CASE Connection /\ ~SendWrite /\ ~ServerSend
  <2>1. UNCHANGED <<written, asked>>
    BY <1>3 DEF Connection, Connect, Lock, CloseOld, Socket, ConnectSocket,
       CheckConnected, Send, Recv, CheckLive, SendPop, SendPopNothing,
       RecvRead, RecvData, RecvEnd, RecvError, RecvFrame, RecvNoFrame, Disconnect,
       DisconnectClose, OtherOpen, OtherClose, ServerClose,
       NetworkReset, ServerStop, ServerStart, history, network
  <2> QED
    BY <2>1, ServiceStutters
<1>4. CASE TimerReport \/ Take \/ Settle \/ UNCHANGED agentVars
  <2>1. UNCHANGED <<written, asked>>
    BY <1>4 DEF TimerReport, Take, Settle, Reply, NoReply, Push, ComponentPush, MatchPop,
       agentVars, vars, history, network
  <2> QED
    BY <2>1, ServiceStutters
<1> QED
  BY <1>1, <1>2, <1>3, <1>4 DEF AgentNext

(* While nothing fails, every step of the agent is a step of the service   *)
(* as the server sees it, or none of it: each request is answered at most  *)
(* once, in order, after all those before it, for any number of requests,  *)
(* reports and descriptors, and wherever read cuts the stream              *)
(* (CCommunication.cpp:57-144, CMatch.cpp:18-56).                          *)
THEOREM AgentIsService ==
  ASSUME MaxFailures = 0, ~OtherThreads, MaxThrows = 0
  PROVE  AgentSpec /\ serverUp => RoundTrip!ServiceSafety
<1> DEFINE Base == TypeOK /\ AgentTypeOK /\ SettledOnce
           Streams == SendInv /\ BeforeFirst /\ OriginInv /\ FramesIntact
           Rel == Reliable /\ InSequence
<1>1. AgentSpec => []Base
  BY AgentKeepsSockets, AgentTypeCorrect, AgentInductive, PTL DEF AgentInv
<1>2. AgentSpec => []Streams
  BY AgentInductive, AgentDeliversInOrder, PTL DEF AgentInv, IInv
<1>3. AgentSpec /\ serverUp => []Rel
  <2>1. Spec /\ serverUp => [](Reliable /\ InSequence)
    BY ReliableAlways
  <2> QED
    BY <2>1, AgentImplementsCommunication, PTL
<1>4. AgentInit => NoneFailed
  <2>1. AgentInit => dispatched = <<>> /\ current = NoRequest /\ failed = {}
    BY DEF AgentInit, Init
  <2>2. AgentInit => Handled = 0
    BY <2>1 DEF Handled
  <2> QED
    BY <2>1, <2>2 DEF NoneFailed
<1>5. Base /\ NoneFailed /\ [AgentNext]_agentVars => NoneFailed'
  BY NoneFailedNext
<1>6. Base /\ Streams /\ Rel /\ NoneFailed /\ [AgentNext]_agentVars
        => [RoundTrip!ServiceNext]_(RoundTrip!serviceVars)
  BY RoundTripStep
<1> HIDE DEF Base, Streams, Rel
<1>7. AgentSpec => []NoneFailed
  BY <1>1, <1>4, <1>5, PTL DEF AgentSpec
<1> QED
  BY <1>1, <1>2, <1>3, <1>6, <1>7, RoundTripInit, PTL
     DEF AgentSpec, RoundTrip!ServiceSafety
=============================================================================
