------------------------- MODULE CommunicationProofs -------------------------
(***************************************************************************)
(* Theorems about Communication, for any number of descriptors, messages,  *)
(* requests, connections and failures, and with or without other threads   *)
(* that open files: the types, that no socket leaks, and that messages are *)
(* written in order and at most once.                                      *)
(***************************************************************************)
EXTENDS Communication, SequenceTheorems, TLAPS

(* A frame the server sends is a sequence of tokens.                       *)
LEMMA FrameTyped ==
  ASSUME NEW r \in Requests
  PROVE  Frame(r) \in Seq(Tokens)
<1>1. BOBSTART \in Seq(Tokens) /\ BOBEND \in Seq(Tokens)
  BY DEF BOBSTART, BOBEND, Tokens
<1>2. <<r, r>> \in Seq(Tokens)
  BY DEF Tokens
<1> QED
  BY <1>1, <1>2 DEF Frame

(* The first element and the rest of a queue have its type.                *)
LEMMA PopTyped ==
  ASSUME NEW S, NEW s \in Seq(S), s # <<>>
  PROVE  Head(s) \in S /\ Tail(s) \in Seq(S)
  OBVIOUS

(* A queue to which an element is appended keeps its type.                 *)
LEMMA AppendTyped ==
  ASSUME NEW S, NEW s \in Seq(S), NEW e \in S
  PROVE  Append(s, e) \in Seq(S)
  OBVIOUS

(* What is left of a stream after a read or a frame keeps its type.        *)
LEMMA SubSeqTyped ==
  ASSUME NEW S, NEW s \in Seq(S), NEW m \in Nat \ {0}
  PROVE  SubSeq(s, m, Len(s)) \in Seq(S)
<1>1. \A i \in m .. Len(s) : s[i] \in S
  OBVIOUS
<1> QED
  BY <1>1

(* What a read takes from a stream has its type.                           *)
LEMMA PrefixTyped ==
  ASSUME NEW S, NEW s \in Seq(S), NEW k \in 0 .. Len(s)
  PROVE  SubSeq(s, 1, k) \in Seq(S)
  OBVIOUS

(* The initial states have the right types.                                *)
LEMMA TypeInit == Init => TypeOK
<1> SUFFICES ASSUME Init PROVE TypeOK
  OBVIOUS
<1> USE FdsAssumption, BoundsAssumption DEF Init, InitQueues
<1>1. /\ sendMessage \in Seq(Messages)
      /\ receiveMessage \in Seq(Requests \cup {Garbage})
      /\ messageBuffers \in Seq(Tokens)
      /\ written \in Seq(Messages)
      /\ dispatched \in Seq(Requests \cup {Garbage})
  OBVIOUS
<1>2. /\ clientSocket \in Fds \cup {NoFd}
      /\ connected \in {0, -1}
      /\ connectionMutex \in Threads \cup {None}
  OBVIOUS
<1>3. /\ pc \in [Threads -> MainLabels \cup SendLabels \cup RecvLabels]
      /\ pc["main"] \in MainLabels /\ pc["send"] \in SendLabels
      /\ pc["recv"] \in RecvLabels
      /\ pc["send"] # "write" /\ pc["recv"] # "reading"
  BY DEF Threads, MainLabels, SendLabels, RecvLabels
<1>4. /\ fdTable \in [Fds -> Files]
      /\ others \subseteq Fds
      /\ killed \in BOOLEAN
  BY DEF Files
<1>5. /\ conns \in 0 .. MaxConns
      /\ state \in [Conns -> {"none", "est", "fin", "reset", "dead"}]
      /\ inbound \in [Conns -> Seq(Tokens)]
      /\ serverUp \in BOOLEAN
      /\ failures \in 0 .. MaxFailures
      /\ asked \in 0 .. MaxRequests
      /\ pushed \in 0 .. MaxMessages
      /\ origin \in [Requests -> 0 .. MaxConns]
  OBVIOUS
<1> QED
  BY <1>1, <1>2, <1>3, <1>4, <1>5 DEF TypeOK

(* The steps of Connect (:28-48) keep every type.                          *)
LEMMA TypeConnect ==
  ASSUME TypeOK, NEW t \in Threads, Connect(t)
  PROVE  TypeOK'
<1> USE FdsAssumption, BoundsAssumption
    DEF TypeOK, At, Goto, queues, members, locals, kernel, network, history,
        Threads, MainLabels, SendLabels, RecvLabels, InConnect
<1>1. CASE Lock(t)
  BY <1>1 DEF Lock
<1>2. CASE CloseOld(t)
  BY <1>2, SMTT(40) DEF CloseOld, Close, Files, Free
<1>3. CASE Socket(t)
  BY <1>3, SMTT(40) DEF Socket, Files, Fresh, NoFd
<1>4. CASE ConnectSocket(t)
  <2>1. CASE CanConnect
    <3>1. /\ clientSocket \in Fds
          /\ conns + 1 \in Conns /\ conns + 1 \in 0 .. MaxConns
      BY <2>1 DEF CanConnect, File, Free, Fresh, Conns
    <3>2. fdTable' \in [Fds -> Files]
      BY <1>4, <2>1, <3>1 DEF ConnectSocket, Files
    <3>3. state' \in [Conns -> {"none", "est", "fin", "reset", "dead"}]
      BY <1>4, <2>1, <3>1 DEF ConnectSocket
    <3> QED
      BY <1>4, <2>1, <3>1, <3>2, <3>3, SMTT(40) DEF ConnectSocket
  <2>2. CASE ~CanConnect
    BY <1>4, <2>2, SMTT(40) DEF ConnectSocket
  <2> QED
    BY <2>1, <2>2
<1>5. CASE CheckConnected(t)
  <2>1. connected' \in {0, -1} /\ fdTable' \in [Fds -> Files]
    BY <1>5 DEF CheckConnected, Close, Files
  <2>2. CASE t = "main"
    BY <1>5, <2>1, <2>2 DEF CheckConnected, AfterConnect
  <2>3. CASE t # "main"
    BY <1>5, <2>1, <2>3, SMTT(40) DEF CheckConnected, AfterConnect
  <2> QED
    BY <2>2, <2>3
<1> QED
  BY <1>1, <1>2, <1>3, <1>4, <1>5 DEF Connect

(* The steps of Send (:57-91) keep every type.                             *)
LEMMA TypeSend == TypeOK /\ Send => TypeOK'
<1> SUFFICES ASSUME TypeOK, Send PROVE TypeOK'
  OBVIOUS
<1> USE DEF TypeOK, At, Goto, queues, members, locals, kernel, network,
            history, Threads, MainLabels, SendLabels, RecvLabels, InConnect
<1>1. CASE CheckLive("send", "pop")
  BY <1>1 DEF CheckLive
<1>2. CASE SendPop
  BY <1>2, PopTyped DEF SendPop, PopSendMessage
<1>3. CASE SendPopNothing
  BY <1>3 DEF SendPopNothing
<1>4. CASE SendWrite
  <2>1. File(clientSocket) \in Conns /\ state[File(clientSocket)] = "est"
          => sending \in Messages
    BY <1>4 DEF SendWrite
  <2>2. written' \in Seq(Messages)
    BY <1>4, <2>1 DEF SendWrite
  <2>3. state' \in [Conns -> {"none", "est", "fin", "reset", "dead"}]
    BY <1>4, SMTT(40) DEF SendWrite
  <2>4. killed' \in BOOLEAN
    BY <1>4 DEF SendWrite
  <2>5. pc' = [pc EXCEPT !["send"] = "live"] /\ sending' = Nothing
    BY <1>4 DEF SendWrite
  <2> QED
    BY <1>4, <2>2, <2>3, <2>4, <2>5 DEF SendWrite
<1> QED
  BY <1>1, <1>2, <1>3, <1>4 DEF Send

(* The steps of Recv and Disconnect (:93-150) keep every type.             *)
LEMMA TypeRecv == TypeOK /\ Recv => TypeOK'
<1> SUFFICES ASSUME TypeOK, Recv PROVE TypeOK'
  OBVIOUS
<1> USE FdsAssumption
    DEF TypeOK, At, Goto, queues, members, locals, kernel, network, history,
        Threads, MainLabels, SendLabels, RecvLabels, InConnect
<1>1. CASE CheckLive("recv", "read")
  BY <1>1, SMTT(40) DEF CheckLive
<1>2. CASE RecvRead
  <2>1. Noise \in Tokens
    BY DEF Tokens
  <2>2. messageBuffers' \in {messageBuffers, Append(messageBuffers, Noise)}
    BY <1>2 DEF RecvRead
  <2>3. \E label \in {"live", "reading", "parse", "drop"} :
          /\ pc' = [pc EXCEPT !["recv"] = label]
          /\ reading' \in Conns \cup {Free}
          /\ label = "reading" => reading' \in Conns
    BY <1>2 DEF RecvRead
  <2>4. messageBuffers' \in Seq(Tokens)
    <3>1. messageBuffers \in Seq(Tokens)
      OBVIOUS
    <3>2. Append(messageBuffers, Noise) \in Seq(Tokens)
      BY <2>1, <3>1, AppendTyped
    <3> QED
      BY <2>2, <3>1, <3>2, Zenon
  <2>5. UNCHANGED <<queues, clientSocket, connected, connectionMutex, sending,
                    kernel, network, history>>
    BY <1>2 DEF RecvRead
  <2>6. /\ pc' \in [Threads -> MainLabels \cup SendLabels \cup RecvLabels]
        /\ pc'["main"] \in MainLabels /\ pc'["send"] \in SendLabels
        /\ pc'["send"] = pc["send"]
        /\ pc'["recv"] \in RecvLabels
        /\ pc'["recv"] = "reading" => reading' \in Conns
    BY <2>3
  <2>7. reading' \in Conns \cup {Free}
    BY <2>3
  <2> QED
    BY <2>4, <2>5, <2>6, <2>7
<1>3. CASE RecvData
  <2>1. reading \in Conns
    BY <1>3 DEF RecvData
  <2>k. PICK k \in 1 .. Len(inbound[reading]) :
         /\ messageBuffers' = messageBuffers \o SubSeq(inbound[reading], 1, k)
         /\ inbound' = [inbound EXCEPT ![reading] = SubSeq(@, k + 1, Len(@))]
    BY <1>3 DEF RecvData
  <2>2. /\ SubSeq(inbound[reading], 1, k) \in Seq(Tokens)
        /\ SubSeq(inbound[reading], k + 1, Len(inbound[reading])) \in Seq(Tokens)
    BY <2>1, PrefixTyped, SubSeqTyped, SMTT(40)
  <2>3. messageBuffers' \in Seq(Tokens) /\ inbound' \in [Conns -> Seq(Tokens)]
    BY <2>1, <2>2, <2>k, SMTT(40)
  <2> QED
    BY <1>3, <2>3 DEF RecvData
<1>4. CASE RecvEnd
  BY <1>4, SMTT(40) DEF RecvEnd
<1>5. CASE RecvError
  BY <1>5, SMTT(40) DEF RecvError
<1>6. CASE RecvFrame
  <2>1. PICK start, end \in 1 .. Len(messageBuffers) :
          /\ \E packet \in ReadJsonFromString(Payload(messageBuffers, start, end)) :
               PushReceiveMessage(packet)
          /\ messageBuffers' = SubSeq(messageBuffers, end + 2, Len(messageBuffers))
    BY <1>6 DEF RecvFrame
  <2>2. receiveMessage' \in Seq(Requests \cup {Garbage})
    BY <2>1 DEF PushReceiveMessage, ReadJsonFromString
  <2>3. messageBuffers' \in Seq(Tokens)
    BY <2>1, SubSeqTyped, SMTT(40)
  <2>4. UNCHANGED <<sendMessage, clientSocket, connected, connectionMutex, pc,
                    locals, kernel, network, history>>
    BY <1>6 DEF RecvFrame
  <2> QED
    BY <2>2, <2>3, <2>4, SMTT(40)
<1>7. CASE RecvNoFrame
  BY <1>7, SMTT(40) DEF RecvNoFrame
<1>8. CASE Disconnect
  BY <1>8, SMTT(40) DEF Disconnect
<1>9. CASE DisconnectClose
  BY <1>9, SMTT(40) DEF DisconnectClose, Close, Files
<1> QED
  BY <1>1, <1>2, <1>3, <1>4, <1>5, <1>6, <1>7, <1>8, <1>9 DEF Recv

(* The other components, the server and the network keep every type.       *)
LEMMA TypeEnvironment == TypeOK /\ Environment => TypeOK'
<1> SUFFICES ASSUME TypeOK, Environment PROVE TypeOK'
  OBVIOUS
<1> USE FdsAssumption, BoundsAssumption
    DEF TypeOK, queues, members, locals, kernel, network, history
<1>1. CASE ComponentPush
  BY <1>1, SMTT(40) DEF ComponentPush, PushSendMessage, Messages
<1>2. CASE MatchPop
  BY <1>2, PopTyped, SMTT(40) DEF MatchPop, PopReceiveMessage
<1>3. CASE OtherOpen
  BY <1>3 DEF OtherOpen, Files
<1>4. CASE OtherClose
  BY <1>4 DEF OtherClose, Files
<1>5. CASE ServerSend
  <2>1. asked + 1 \in Requests /\ asked + 1 \in 0 .. MaxRequests
    BY <1>5 DEF ServerSend, Requests
  <2>2. PICK c \in Conns :
          /\ inbound' = [inbound EXCEPT ![c] = @ \o Frame(asked + 1)]
          /\ origin' = [origin EXCEPT ![asked + 1] = c]
    BY <1>5 DEF ServerSend
  <2>3. inbound[c] \o Frame(asked + 1) \in Seq(Tokens)
    BY <2>1, FrameTyped
  <2>4. inbound' \in [Conns -> Seq(Tokens)]
    BY <2>2, <2>3
  <2>5. origin' \in [Requests -> 0 .. MaxConns]
    BY <2>1, <2>2 DEF Conns
  <2> QED
    BY <1>5, <2>1, <2>4, <2>5 DEF ServerSend
<1>6. CASE ServerClose
  BY <1>6 DEF ServerClose
<1>7. CASE NetworkReset
  <2>1. PICK c \in Conns :
          /\ state' = [state EXCEPT ![c] = "reset"]
          /\ \E k \in 0 .. Len(inbound[c]) :
               inbound' = [inbound EXCEPT ![c] = SubSeq(@, 1, k)]
    BY <1>7 DEF NetworkReset
  <2>2. inbound' \in [Conns -> Seq(Tokens)]
    BY <2>1, PrefixTyped
  <2>3. state' \in [Conns -> {"none", "est", "fin", "reset", "dead"}]
    BY <2>1
  <2> QED
    BY <1>7, <2>2, <2>3, SMTT(40) DEF NetworkReset
<1>8. CASE ServerStop
  <2>1. state' \in [Conns -> {"none", "est", "fin", "reset", "dead"}]
    BY <1>8 DEF ServerStop
  <2>2. failures < MaxFailures /\ failures' = failures + 1
    BY <1>8 DEF ServerStop
  <2>3. serverUp' \in BOOLEAN
    BY <1>8 DEF ServerStop
  <2>4. failures' \in 0 .. MaxFailures
    BY <2>2
  <2>5. UNCHANGED <<queues, members, pc, locals, kernel, conns, inbound, asked,
                    origin, history>>
    BY <1>8 DEF ServerStop
  <2> QED
    BY <2>1, <2>3, <2>4, <2>5, SMTT(40)
<1>9. CASE ServerStart
  BY <1>9 DEF ServerStart
<1> QED
  BY <1>1, <1>2, <1>3, <1>4, <1>5, <1>6, <1>7, <1>8, <1>9 DEF Environment

(* So does a step that changes nothing.                                    *)
LEMMA TypeStutter == TypeOK /\ UNCHANGED vars => TypeOK'
  BY SMTT(40) DEF TypeOK, vars, queues, members, locals, kernel, network, history

(* TypeOK is inductive.                                                    *)
LEMMA TypeNext == TypeOK /\ [Next]_vars => TypeOK'
  BY TypeConnect, TypeSend, TypeRecv, TypeEnvironment, TypeStutter DEF Next

(* Every variable keeps its type (all of CCommunication.cpp). *)
THEOREM TypeCorrect == Spec => []TypeOK
  BY TypeInit, TypeNext, PTL DEF Spec

-----------------------------------------------------------------------------
(* At first no socket is open and nobody holds the mutex.                  *)
LEMMA SocketInit == Init => MutexHeld /\ SocketInv
  BY DEF Init, MutexHeld, SocketInv, IsSocket, InConnect, Threads, None, Free,
         Fresh, Other

(* The mutex and the socket invariant are inductive (:28-48, 146-150).     *)
LEMMA SocketNext ==
  TypeOK /\ MutexHeld /\ SocketInv /\ [Next]_vars => MutexHeld' /\ SocketInv'
<1> SUFFICES ASSUME TypeOK, MutexHeld, SocketInv, [Next]_vars
             PROVE  MutexHeld' /\ SocketInv'
  OBVIOUS
<1>t. /\ pc \in [Threads -> MainLabels \cup SendLabels \cup RecvLabels]
      /\ fdTable \in [Fds -> Files]
      /\ clientSocket \in Fds \cup {NoFd}
      /\ connected \in {0, -1}
      /\ conns \in Nat
  BY DEF TypeOK
<1> USE <1>t, FdsAssumption DEF MutexHeld, SocketInv, At, Goto
<1>1. ASSUME NEW t \in Threads, Lock(t) PROVE MutexHeld' /\ SocketInv'
  BY <1>1 DEF Lock, IsSocket, InConnect, kernel, None, Threads
<1>2. ASSUME NEW t \in Threads, CloseOld(t) PROVE MutexHeld' /\ SocketInv'
  BY <1>2 DEF CloseOld, Close, IsSocket, InConnect, members, Free, Fresh, NoFd
<1>3. ASSUME NEW t \in Threads, Socket(t) PROVE MutexHeld' /\ SocketInv'
  <2>1. /\ \A fd \in Fds : ~IsSocket(fd)
        /\ pc' = [pc EXCEPT ![t] = "connect"]
        /\ UNCHANGED <<connected, connectionMutex>>
    BY <1>3 DEF Socket
  <2>2. MutexHeld'
    BY <1>3, <2>1 DEF InConnect, Socket
  <2>3. \A fd \in Fds : fdTable'[fd] \notin {Free, Other} => fd = clientSocket'
    BY <1>3, <2>1 DEF Socket, IsSocket
  <2>4. \A x \in Threads : pc'[x] # "socket"
    BY <1>3, <2>1 DEF Socket, InConnect
  <2>5. pc'[t] = "connect"
    BY <2>1
  <2>6. SocketInv'
    BY <1>3, <2>3, <2>4, <2>5 DEF IsSocket
  <2> QED
    BY <2>2, <2>6
<1>4. ASSUME NEW t \in Threads, ConnectSocket(t) PROVE MutexHeld' /\ SocketInv'
  <2>1. MutexHeld'
    BY <1>4 DEF ConnectSocket, InConnect
  <2>2. SocketInv'
    BY <1>4 DEF ConnectSocket, CanConnect, File, IsSocket, InConnect, Free, Fresh, Other
  <2> QED
    BY <2>1, <2>2
<1>5. ASSUME NEW t \in Threads, CheckConnected(t) PROVE MutexHeld' /\ SocketInv'
  <2>1. MutexHeld'
    BY <1>5 DEF CheckConnected, AfterConnect, InConnect, None, Threads
  <2>2. \A x \in Threads : pc'[x] # "socket"
    BY <1>5 DEF CheckConnected, AfterConnect, InConnect, None, Threads
  <2>3. \A fd \in Fds : fdTable'[fd] # Fresh
    <3>1. CASE Live
      BY <1>5, <3>1 DEF CheckConnected, Live, InConnect
    <3>2. CASE ~Live
      BY <1>5, <3>2 DEF CheckConnected, Close, IsSocket, Free, Fresh, Other, NoFd
    <3> QED
      BY <3>1, <3>2
  <2>4. \A fd \in Fds : IsSocket(fd)' => IsSocket(fd) /\ clientSocket' = clientSocket
    BY <1>5 DEF CheckConnected, Close, IsSocket, Free, NoFd
  <2> QED
    BY <2>1, <2>2, <2>3, <2>4 DEF IsSocket
<1>6. CASE Send
  BY <1>6 DEF Send, CheckLive, SendPop, SendPopNothing, SendWrite, IsSocket,
              InConnect, members, kernel, Threads
<1>7. CASE CheckLive("recv", "read") \/ RecvRead \/ RecvData \/ RecvEnd \/ RecvError
  BY <1>7 DEF CheckLive, RecvRead, RecvData, RecvEnd, RecvError, IsSocket,
              InConnect, members, kernel, Threads
<1>8. CASE RecvFrame \/ RecvNoFrame
  BY <1>8 DEF RecvFrame, RecvNoFrame, IsSocket, InConnect, members, kernel, Threads
<1>9. CASE Disconnect
  BY <1>9 DEF Disconnect, IsSocket, InConnect, kernel, Threads
<1>10. CASE DisconnectClose
  BY <1>10 DEF DisconnectClose, Close, IsSocket, InConnect, members, Threads,
               Free, Fresh
<1>11. CASE OtherOpen \/ OtherClose
  BY <1>11 DEF OtherOpen, OtherClose, IsSocket, members, Free, Other, Fresh
<1>12. CASE Environment /\ ~OtherOpen /\ ~OtherClose
  BY <1>12 DEF Environment, ComponentPush, MatchPop, ServerSend, ServerClose,
               NetworkReset, ServerStop, ServerStart, IsSocket, members, kernel
<1>13. CASE UNCHANGED vars
  BY <1>13 DEF vars, IsSocket, members, kernel
<1> QED
  BY <1>1, <1>2, <1>3, <1>4, <1>5, <1>6, <1>7, <1>8, <1>9, <1>10, <1>11, <1>12,
     <1>13 DEF Next, Connect, Recv

(* No socket leaks: NoSocketLeak holds of every behaviour, for any number  *)
(* of descriptors, failures and files of other threads                     *)
(* (CCommunication.cpp:28-48, 146-150).                                    *)
THEOREM SocketsAccounted == Spec => []NoSocketLeak
<1>1. TypeOK /\ MutexHeld /\ SocketInv => NoSocketLeak
  BY DEF TypeOK, MutexHeld, SocketInv, NoSocketLeak, IsSocket, InConnect, None,
         Threads
<1> QED
  BY TypeInit, TypeNext, SocketInit, SocketNext, <1>1, PTL DEF Spec

-----------------------------------------------------------------------------
(* At first nothing was pushed, popped or written.                         *)
LEMMA SendInit == Init => SendInv /\ SentInOrder
  BY DEF Init, InitQueues, SendInv, SentInOrder, Nothing

(* The invariant of the message queue is inductive (:70-89).               *)
LEMMA SendNext ==
  TypeOK /\ SendInv /\ SentInOrder /\ [Next]_vars => SendInv' /\ SentInOrder'
<1> SUFFICES ASSUME TypeOK, SendInv, SentInOrder, [Next]_vars
             PROVE  SendInv' /\ SentInOrder'
  OBVIOUS
<1>t. /\ pc \in [Threads -> MainLabels \cup SendLabels \cup RecvLabels]
      /\ sendMessage \in Seq(Nat) /\ written \in Seq(Nat)
      /\ sending \in Nat /\ pushed \in Nat
      /\ pc["send"] = "write" => sending \in Messages
  BY BoundsAssumption DEF TypeOK, Messages, Nothing
<1> USE <1>t DEF SendInv, SentInOrder, At, Goto
<1>1. ASSUME UNCHANGED <<sendMessage, pushed, written, sending>>,
             pc'["send"] = "write" => pc["send"] = "write"
      PROVE  SendInv' /\ SentInOrder'
  BY <1>1
<1>2. ASSUME NEW t \in Threads, Connect(t) PROVE SendInv' /\ SentInOrder'
  BY <1>1, <1>2 DEF Connect, Lock, CloseOld, Socket, ConnectSocket,
     CheckConnected, AfterConnect, queues, locals, history, Threads
<1>3. CASE SendPop
  <2>1. /\ sendMessage # <<>>
        /\ sending' = Head(sendMessage) /\ sendMessage' = Tail(sendMessage)
        /\ UNCHANGED <<pushed, written>>
    BY <1>3 DEF SendPop, PopSendMessage, history
  <2>2. /\ Len(sendMessage') = Len(sendMessage) - 1
        /\ \A i \in 1 .. Len(sendMessage') : sendMessage'[i] = sendMessage[i + 1]
        /\ sending' = sendMessage[1] /\ Len(sendMessage) >= 1
    BY <2>1, HeadTailProperties
  <2>3. sending' = (pushed - Len(sendMessage)) + 1
    BY <2>2
  <2>4. \A i \in 1 .. Len(written) : written[i] < sending'
    BY <2>3, SMTT(40)
  <2> QED
    BY <2>1, <2>2, <2>3, <2>4, SMTT(40)
<1>4. CASE SendWrite
  BY <1>4, SMTT(40) DEF SendWrite, queues, Nothing, Threads, Messages
<1>5. CASE CheckLive("send", "pop") \/ SendPopNothing
  BY <1>1, <1>5 DEF CheckLive, SendPopNothing, queues, locals, history, Threads
<1>6. CASE Recv
  BY <1>1, <1>6 DEF Recv, CheckLive, RecvRead, RecvData, RecvEnd, RecvError,
     RecvFrame, RecvNoFrame, Disconnect, DisconnectClose, queues, locals, history, Threads
<1>7. CASE ComponentPush
  BY <1>7, SMTT(40) DEF ComponentPush, PushSendMessage, locals
<1>8. CASE Environment /\ ~ComponentPush
  BY <1>1, <1>8 DEF Environment, MatchPop, OtherOpen, OtherClose, ServerSend,
     ServerClose, NetworkReset, ServerStop, ServerStart, queues, locals, history
<1>9. CASE UNCHANGED vars
  BY <1>1, <1>9 DEF vars, queues, locals, history
<1> QED
  BY <1>2, <1>3, <1>4, <1>5, <1>6, <1>7, <1>8, <1>9 DEF Next, Send

(* Messages reach the connections in the order they were pushed, none of   *)
(* them twice, for any number of messages, connections and failures        *)
(* (CCommunication.cpp:70-89).                                             *)
THEOREM MessagesInOrder == Spec => []SentInOrder
  BY TypeInit, TypeNext, SendInit, SendNext, PTL DEF Spec

(* What both rest on: the lock is held by who is inside Connect, at most   *)
(* one socket is open, and the queue holds the last messages pushed        *)
(* (CCommunication.cpp:30-47, 70-89).                                      *)
THEOREM InductiveInvariant == Spec => []IInv
  BY TypeInit, TypeNext, SocketInit, SocketNext, SendInit, SendNext, PTL
  DEF Spec, IInv
=============================================================================
