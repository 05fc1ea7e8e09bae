---------------------------- MODULE Communication ----------------------------
(***************************************************************************)
(* CCommunication: one TCP connection to the server, shared by the thread  *)
(* that runs Send and the thread that runs Recv, either of which may call  *)
(* Connect; the thread of main calls it once before the two start.         *)
(*                                                                         *)
(* The unit of a step is a system call or an access to a member that the   *)
(* other thread can see.  The kernel is modelled by what the calls return: *)
(* a table of descriptors (the lowest free number is given out), the file  *)
(* a blocked read holds on to, and TCP connections that the server closes, *)
(* resets, or that carry frames cut at any place.                          *)
(***************************************************************************)
EXTENDS Integers, FiniteSets, Message

CONSTANTS
  Fds,           \* the descriptor numbers the process may have open
  MaxConns,      \* bound: connections the server accepts in a behaviour
  MaxFailures,   \* bound: times the server or the network fails
  MaxMessages,   \* bound: messages the other components push
  MaxRequests,   \* bound: requests the server sends
  OtherThreads   \* TRUE: other threads of the agent open and close files

ASSUME FdsAssumption == Fds \subseteq Nat
ASSUME BoundsAssumption ==
  /\ MaxConns \in Nat
  /\ MaxFailures \in Nat
  /\ MaxMessages \in Nat
  /\ MaxRequests \in Nat
  /\ OtherThreads \in BOOLEAN

VARIABLES
  \* members of CCommunication
  clientSocket, connected, connectionMutex, messageBuffers,
  \* the threads: where each stands, and the locals that outlive a step
  pc, sending, reading,
  \* the process: its descriptors, those of the other threads, SIGPIPE
  fdTable, others, killed,
  \* the server and the network
  conns, state, inbound, serverUp, failures, asked,
  \* histories
  pushed, written, dispatched, origin

members == <<clientSocket, connected, connectionMutex, messageBuffers>>
locals  == <<sending, reading>>
kernel  == <<fdTable, others, killed>>
network == <<conns, state, inbound, serverUp, failures, asked, origin>>
history == <<pushed, written, dispatched>>
vars == <<queues, members, pc, locals, kernel, network, history>>

Threads == {"main", "send", "recv"}
None == "none"
NoFd == -1

(* What a descriptor number stands for: nothing, a file of another thread, *)
(* a socket that is not connected, or the connection with that number.     *)
Free  == 0
Other == -1
Fresh == -2
Conns == 1 .. MaxConns
Files == {Free, Other, Fresh} \cup Conns

(* Packets: the messages and the requests are numbered in the order they   *)
(* are made.  Garbage is a packet whose JSON did not parse: its protocol   *)
(* is an uninitialised integer.                                            *)
Requests == 1 .. MaxRequests
Messages == 1 .. MaxMessages
Garbage == 0
Nothing == 0

(***************************************************************************)
(* The stream.  A marker is two tokens and a packet is two tokens, so that *)
(* a read may end inside either.  Noise is what read returns from a file   *)
(* of another thread (a run of it counts once).                            *)
(***************************************************************************)
Bob == -1
Start == -2
End == -3
Noise == -4
Tokens == {Bob, Start, End, Noise} \cup Requests
BOBSTART == <<Bob, Start>>
BOBEND == <<Bob, End>>

Frame(r) == BOBSTART \o <<r, r>> \o BOBEND

(* std::string::find: the position where the marker occurs first. *)
Occurrences(marker, s) ==
  {i \in 1 .. Len(s) - 1 : s[i] = marker[1] /\ s[i + 1] = marker[2]}

IsFirst(i, marker, s) ==
  /\ i \in Occurrences(marker, s)
  /\ \A j \in Occurrences(marker, s) : i <= j

(* messageBuffers.substr(start + 8, end - (start + 8)): the length is      *)
(* unsigned, so an end that precedes the start takes all that follows.     *)
Payload(s, start, end) ==
  SubSeq(s, start + 2, IF end < start + 2 THEN Len(s) ELSE end - 1)

(* core::ReadJsonFromString.  Text after a complete object may be ignored  *)
(* or refused: the library that decides is not in the repository.          *)
ReadJsonFromString(payload) ==
  {r \in Requests : Len(payload) >= 2 /\ payload[1] = r /\ payload[2] = r}
    \cup (IF \E r \in Requests : payload = <<r, r>> THEN {} ELSE {Garbage})

(***************************************************************************)
(* Init: main has called CommunicationManager()->Init() and is about to    *)
(* call Connect; Send and Recv are not started.                            *)
(***************************************************************************)
Init ==
  /\ InitQueues
  /\ clientSocket = NoFd
  /\ connected = -1
  /\ connectionMutex = None
  /\ messageBuffers = <<>>
  /\ pc = [t \in Threads |-> IF t = "main" THEN "lock" ELSE "off"]
  /\ sending = Nothing
  /\ reading = Free
  /\ fdTable = [fd \in Fds |-> Free]
  /\ others = {}
  /\ killed = FALSE
  /\ conns = 0
  /\ state = [c \in Conns |-> "none"]
  /\ inbound = [c \in Conns |-> <<>>]
  /\ serverUp \in BOOLEAN
  /\ failures = 0
  /\ asked = 0
  /\ pushed = 0
  /\ written = <<>>
  /\ dispatched = <<>>
  /\ origin = [r \in Requests |-> 0]

Live == clientSocket # NoFd /\ connected # -1

At(t, label) == ~killed /\ pc[t] = label

Goto(t, label) == pc' = [pc EXCEPT ![t] = label]

(* close(fd) of a number that is not open fails with EBADF. *)
Close(fd) ==
  fdTable' = IF fd \in Fds THEN [fdTable EXCEPT ![fd] = Free] ELSE fdTable

File(fd) == IF fd \in Fds THEN fdTable[fd] ELSE Free

IsLowestFree(fd) ==
  /\ fdTable[fd] = Free
  /\ \A other \in Fds : fdTable[other] = Free => fd <= other

NoneFree == \A fd \in Fds : fdTable[fd] # Free

(***************************************************************************)
(* Connect, by any thread: the lock, close(clientSocket), socket(),        *)
(* connect(), and the test of Live with the unlock at the return.          *)
(***************************************************************************)
Lock(t) ==
  /\ At(t, "lock")
  /\ connectionMutex = None
  /\ connectionMutex' = t
  /\ Goto(t, "close")
  /\ UNCHANGED <<queues, clientSocket, connected, messageBuffers, locals,
                 kernel, network, history>>

(* Mutant: the old socket is forgotten instead of closed. *)
CloseOldForgotten(t) ==
  /\ At(t, "close")
  /\ Goto(t, "socket")
  /\ UNCHANGED <<queues, members, locals, kernel, network, history>>

CloseOld(t) ==
  /\ At(t, "close")
  /\ Close(clientSocket)
  /\ Goto(t, "socket")
  /\ UNCHANGED <<queues, members, locals, others, killed, network, history>>

Socket(t) ==
  /\ At(t, "socket")
  /\ \/ \E fd \in Fds :
          /\ IsLowestFree(fd)
          /\ fdTable' = [fdTable EXCEPT ![fd] = Fresh]
          /\ clientSocket' = fd
     \/ /\ NoneFree
        /\ clientSocket' = NoFd
        /\ UNCHANGED fdTable
  /\ Goto(t, "connect")
  /\ UNCHANGED <<queues, connected, connectionMutex, messageBuffers, locals,
                 others, killed, network, history>>

(* connect() succeeds only on a socket that is not connected yet, and when *)
(* the server accepts.                                                     *)
CanConnect == File(clientSocket) = Fresh /\ serverUp /\ conns < MaxConns

ConnectSocket(t) ==
  /\ At(t, "connect")
  /\ IF CanConnect
       THEN /\ connected' = 0
            /\ conns' = conns + 1
            /\ fdTable' = [fdTable EXCEPT ![clientSocket] = conns + 1]
            /\ state' = [state EXCEPT ![conns + 1] = "est"]
       ELSE connected' = -1 /\ UNCHANGED <<conns, fdTable, state>>
  /\ Goto(t, "check")
  /\ UNCHANGED <<queues, clientSocket, connectionMutex, messageBuffers, locals,
                 others, killed, inbound, serverUp, failures, asked, origin,
                 history>>

(* Return of Connect: to the loop `while (!Live())`, or, in main, to the   *)
(* start of the two threads.                                               *)
AfterConnect(t) ==
  pc' = IF t = "main"
          THEN [x \in Threads |-> IF x = "main" THEN "done" ELSE "live"]
          ELSE [pc EXCEPT ![t] = "live"]

(* Mutant: the path of a failed connect returns without the unlock. *)
CheckConnectedLocked(t) ==
  /\ At(t, "check")
  /\ IF Live
       THEN connectionMutex' = None /\ UNCHANGED <<connected, fdTable>>
       ELSE connected' = -1 /\ Close(clientSocket) /\ UNCHANGED connectionMutex
  /\ AfterConnect(t)
  /\ UNCHANGED <<queues, clientSocket, messageBuffers, locals, others, killed,
                 network, history>>

CheckConnected(t) ==
  /\ At(t, "check")
  /\ IF Live
       THEN UNCHANGED <<connected, fdTable>>
       ELSE connected' = -1 /\ Close(clientSocket)
  /\ connectionMutex' = None
  /\ AfterConnect(t)
  /\ UNCHANGED <<queues, clientSocket, messageBuffers, locals, others, killed,
                 network, history>>

Connect(t) ==
  Lock(t) \/ CloseOld(t) \/ Socket(t) \/ ConnectSocket(t) \/ CheckConnected(t)

(* `while (!Live()) { sleep(5); Connect(); }`: Live takes no lock. *)
CheckLive(t, next) ==
  /\ At(t, "live")
  /\ Goto(t, IF Live THEN next ELSE "lock")
  /\ UNCHANGED <<queues, members, locals, kernel, network, history>>

(***************************************************************************)
(* Send.                                                                   *)
(***************************************************************************)
SendPop ==
  /\ At("send", "pop")
  /\ PopSendMessage(sending')
  /\ Goto("send", "write")
  /\ UNCHANGED <<receiveMessage, members, reading, kernel, network, history>>

SendPopNothing ==
  /\ At("send", "pop")
  /\ sendMessage = <<>>
  /\ Goto("send", "live")
  /\ UNCHANGED <<queues, members, locals, kernel, network, history>>

(* Mutant: a message that could not be written goes back to the queue. *)
SendWriteRequeue ==
  /\ At("send", "write")
  /\ LET file == File(clientSocket)
         accepted == file \in Conns /\ state[file] = "est"
     IN  /\ written' = IF accepted THEN Append(written, sending) ELSE written
         /\ sendMessage' = IF accepted THEN sendMessage
                             ELSE Append(sendMessage, sending)
  /\ sending' = Nothing
  /\ Goto("send", "live")
  /\ UNCHANGED <<receiveMessage, members, reading, kernel, network, pushed,
                 dispatched>>

(***************************************************************************)
(* write(clientSocket, ...), by the file the number stands for now.  The   *)
(* message is deleted whatever write returns.                              *)
(*   est    the kernel accepts the message                                 *)
(*   fin    accepted, but answered by a reset: the connection is dead      *)
(*   reset  ECONNRESET, once; the connection is dead                       *)
(*   dead, Fresh   EPIPE with SIGPIPE, which the agent does not handle     *)
(*   Free   EBADF                                                          *)
(*   Other  the file of another thread takes the bytes                     *)
(***************************************************************************)
SendWrite ==
  /\ At("send", "write")
  /\ LET file == File(clientSocket) IN
       /\ written' = IF file \in Conns /\ state[file] = "est"
                       THEN Append(written, sending) ELSE written
       /\ state' = IF file \in Conns /\ state[file] # "est"
                     THEN [state EXCEPT ![file] = "dead"] ELSE state
       /\ killed' = (file = Fresh \/ (file \in Conns /\ state[file] = "dead"))
  /\ sending' = Nothing
  /\ Goto("send", "live")
  /\ UNCHANGED <<queues, members, reading, fdTable, others, conns, inbound,
                 serverUp, failures, asked, pushed, dispatched, origin>>

(***************************************************************************)
(* Recv.  read() looks its descriptor up once: a call that blocks keeps    *)
(* the connection it found, whatever becomes of the number.                *)
(***************************************************************************)
RecvRead ==
  /\ At("recv", "read")
  /\ LET file == File(clientSocket) IN
       \/ /\ file \in {Free, Fresh}            \* EBADF, ENOTCONN: only logged
          /\ Goto("recv", "live")
          /\ UNCHANGED <<messageBuffers, reading>>
       \/ /\ file \in Conns
          /\ reading' = file
          /\ Goto("recv", "reading")
          /\ UNCHANGED messageBuffers
       \/ /\ file = Other                      \* bytes of that file, or its end
          /\ \/ /\ messageBuffers' =
                     IF messageBuffers # <<>> /\ messageBuffers[Len(messageBuffers)] = Noise
                       THEN messageBuffers ELSE Append(messageBuffers, Noise)
                /\ Goto("recv", "parse")
             \/ Goto("recv", "drop") /\ UNCHANGED messageBuffers
             \/ Goto("recv", "live") /\ UNCHANGED messageBuffers
          /\ UNCHANGED reading
  /\ UNCHANGED <<queues, clientSocket, connected, connectionMutex, sending,
                 kernel, network, history>>

(* Mutant: a read replaces what earlier reads left in messageBuffers. *)
RecvDataReplaces ==
  /\ At("recv", "reading")
  /\ \E k \in 1 .. Len(inbound[reading]) :
       /\ messageBuffers' = SubSeq(inbound[reading], 1, k)
       /\ inbound' = [inbound EXCEPT
                        ![reading] = SubSeq(@, k + 1, Len(@))]
  /\ reading' = Free
  /\ Goto("recv", "parse")
  /\ UNCHANGED <<queues, clientSocket, connected, connectionMutex, sending,
                 kernel, conns, state, serverUp, failures, asked, origin,
                 history>>

(* Bytes arrived: any non-empty prefix of what is there. *)
RecvData ==
  /\ At("recv", "reading")
  /\ \E k \in 1 .. Len(inbound[reading]) :
       /\ messageBuffers' = messageBuffers \o SubSeq(inbound[reading], 1, k)
       /\ inbound' = [inbound EXCEPT
                        ![reading] = SubSeq(@, k + 1, Len(@))]
  /\ reading' = Free
  /\ Goto("recv", "parse")
  /\ UNCHANGED <<queues, clientSocket, connected, connectionMutex, sending,
                 kernel, conns, state, serverUp, failures, asked, origin,
                 history>>

(* messageLength == 0: Disconnect follows. *)
RecvEnd ==
  /\ At("recv", "reading")
  /\ inbound[reading] = <<>>
  /\ state[reading] \in {"fin", "dead"}
  /\ reading' = Free
  /\ Goto("recv", "drop")
  /\ UNCHANGED <<queues, members, sending, kernel, network, history>>

(* messageLength < 0: ECONNRESET, only logged. *)
RecvError ==
  /\ At("recv", "reading")
  /\ inbound[reading] = <<>>
  /\ state[reading] = "reset"
  /\ state' = [state EXCEPT ![reading] = "dead"]
  /\ reading' = Free
  /\ Goto("recv", "live")
  /\ UNCHANGED <<queues, members, sending, kernel, conns, inbound, serverUp,
                 failures, asked, origin, history>>

(* Mutants: the frame stays in messageBuffers; its end marker stays; the   *)
(* first frame of a read is taken and the loop is left.                    *)
RecvFrameTwice ==
  /\ At("recv", "parse")
  /\ \E start, end \in 1 .. Len(messageBuffers) :
       /\ IsFirst(start, BOBSTART, messageBuffers)
       /\ IsFirst(end, BOBEND, messageBuffers)
       /\ \E packet \in ReadJsonFromString(Payload(messageBuffers, start, end)) :
            PushReceiveMessage(packet)
       /\ messageBuffers' = SubSeq(messageBuffers, start, Len(messageBuffers))
  /\ Goto("recv", "live")
  /\ UNCHANGED <<sendMessage, clientSocket, connected, connectionMutex,
                 locals, kernel, network, history>>

RecvFrameKeepsEnd ==
  /\ At("recv", "parse")
  /\ \E start, end \in 1 .. Len(messageBuffers) :
       /\ IsFirst(start, BOBSTART, messageBuffers)
       /\ IsFirst(end, BOBEND, messageBuffers)
       /\ \E packet \in ReadJsonFromString(Payload(messageBuffers, start, end)) :
            PushReceiveMessage(packet)
       /\ messageBuffers' = SubSeq(messageBuffers, end, Len(messageBuffers))
  /\ UNCHANGED <<sendMessage, clientSocket, connected, connectionMutex, pc,
                 locals, kernel, network, history>>

RecvFrameOnce ==
  /\ At("recv", "parse")
  /\ \E start, end \in 1 .. Len(messageBuffers) :
       /\ IsFirst(start, BOBSTART, messageBuffers)
       /\ IsFirst(end, BOBEND, messageBuffers)
       /\ \E packet \in ReadJsonFromString(Payload(messageBuffers, start, end)) :
            PushReceiveMessage(packet)
       /\ messageBuffers' = SubSeq(messageBuffers, end + 2, Len(messageBuffers))
  /\ Goto("recv", "live")
  /\ UNCHANGED <<sendMessage, clientSocket, connected, connectionMutex,
                 locals, kernel, network, history>>

(* One turn of the loop that takes the frames out of messageBuffers. *)
RecvFrame ==
  /\ At("recv", "parse")
  /\ \E start, end \in 1 .. Len(messageBuffers) :
       /\ IsFirst(start, BOBSTART, messageBuffers)
       /\ IsFirst(end, BOBEND, messageBuffers)
       /\ \E packet \in ReadJsonFromString(Payload(messageBuffers, start, end)) :
            PushReceiveMessage(packet)
       /\ messageBuffers' = SubSeq(messageBuffers, end + 2, Len(messageBuffers))
  /\ UNCHANGED <<sendMessage, clientSocket, connected, connectionMutex, pc,
                 locals, kernel, network, history>>

RecvNoFrame ==
  /\ At("recv", "parse")
  /\ \E marker \in {BOBSTART, BOBEND} : Occurrences(marker, messageBuffers) = {}
  /\ Goto("recv", "live")
  /\ UNCHANGED <<queues, members, locals, kernel, network, history>>

(* Disconnect: no mutex is taken, and clientSocket keeps its number. *)
Disconnect ==
  /\ At("recv", "drop")
  /\ connected' = -1
  /\ Goto("recv", "dropClose")
  /\ UNCHANGED <<queues, clientSocket, connectionMutex, messageBuffers, locals,
                 kernel, network, history>>

(* Mutant: Disconnect "forgets" the socket with a number that is one. *)
DisconnectCloseZero ==
  /\ At("recv", "dropClose")
  /\ Close(clientSocket)
  /\ clientSocket' = 0
  /\ Goto("recv", "live")
  /\ UNCHANGED <<queues, connected, connectionMutex, messageBuffers, locals,
                 others, killed, network, history>>

DisconnectClose ==
  /\ At("recv", "dropClose")
  /\ Close(clientSocket)
  /\ Goto("recv", "live")
  /\ UNCHANGED <<queues, members, locals, others, killed, network, history>>

(***************************************************************************)
(* The rest of the agent: components push messages, CMatch pops requests,  *)
(* and other threads open and close files by number.                       *)
(***************************************************************************)
ComponentPush ==
  /\ ~killed
  /\ pushed < MaxMessages
  /\ PushSendMessage(pushed + 1)
  /\ pushed' = pushed + 1
  /\ UNCHANGED <<receiveMessage, members, pc, locals, kernel, network, written,
                 dispatched>>

(* Mutant: the queue of requests is read from its end. *)
MatchPopLast ==
  /\ ~killed
  /\ receiveMessage # <<>>
  /\ LET last == Len(receiveMessage) IN
       /\ receiveMessage' = SubSeq(receiveMessage, 1, last - 1)
       /\ dispatched' = Append(dispatched, receiveMessage[last])
  /\ UNCHANGED <<sendMessage, members, pc, locals, kernel, network, pushed,
                 written>>

MatchPop ==
  /\ ~killed
  /\ \E packet \in Requests \cup {Garbage} :
       /\ PopReceiveMessage(packet)
       /\ dispatched' = Append(dispatched, packet)
  /\ UNCHANGED <<sendMessage, members, pc, locals, kernel, network, pushed,
                 written>>

OtherOpen ==
  /\ OtherThreads /\ ~killed
  /\ \E fd \in Fds :
       /\ IsLowestFree(fd)
       /\ fdTable' = [fdTable EXCEPT ![fd] = Other]
       /\ others' = others \cup {fd}
  /\ UNCHANGED <<queues, members, pc, locals, killed, network, history>>

OtherClose ==
  /\ OtherThreads /\ ~killed
  /\ \E fd \in others :
       /\ fdTable' = [fdTable EXCEPT ![fd] = Free]
       /\ others' = others \ {fd}
  /\ UNCHANGED <<queues, members, pc, locals, killed, network, history>>

(***************************************************************************)
(* The server and the network.  A connection is there for the server as    *)
(* long as a descriptor or a blocked read of the agent refers to it.       *)
(***************************************************************************)
Referenced(c) == reading = c \/ \E fd \in Fds : fdTable[fd] = c

ServerSend ==
  /\ asked < MaxRequests
  /\ \E c \in Conns :
       /\ state[c] = "est" /\ Referenced(c)
       /\ inbound' = [inbound EXCEPT ![c] = @ \o Frame(asked + 1)]
       /\ origin' = [origin EXCEPT ![asked + 1] = c]
  /\ asked' = asked + 1
  /\ UNCHANGED <<queues, members, pc, locals, kernel, conns, state, serverUp,
                 failures, history>>

ServerClose ==
  /\ failures < MaxFailures
  /\ \E c \in Conns :
       /\ state[c] = "est" /\ Referenced(c)
       /\ state' = [state EXCEPT ![c] = "fin"]
  /\ failures' = failures + 1
  /\ UNCHANGED <<queues, members, pc, locals, kernel, conns, inbound, serverUp,
                 asked, origin, history>>

(* A reset: what was still on its way is lost. *)
NetworkReset ==
  /\ failures < MaxFailures
  /\ \E c \in Conns :
       /\ state[c] = "est" /\ Referenced(c)
       /\ state' = [state EXCEPT ![c] = "reset"]
       /\ \E k \in 0 .. Len(inbound[c]) :
            inbound' = [inbound EXCEPT ![c] = SubSeq(@, 1, k)]
  /\ failures' = failures + 1
  /\ UNCHANGED <<queues, members, pc, locals, kernel, conns, serverUp, asked,
                 origin, history>>

ServerStop ==
  /\ failures < MaxFailures
  /\ serverUp
  /\ serverUp' = FALSE
  /\ state' = [c \in Conns |-> IF state[c] = "est" THEN "fin" ELSE state[c]]
  /\ failures' = failures + 1
  /\ UNCHANGED <<queues, members, pc, locals, kernel, conns, inbound, asked,
                 origin, history>>

ServerStart ==
  /\ ~serverUp
  /\ serverUp' = TRUE
  /\ UNCHANGED <<queues, members, pc, locals, kernel, conns, state, inbound,
                 failures, asked, origin, history>>

-----------------------------------------------------------------------------
Send == CheckLive("send", "pop") \/ SendPop \/ SendPopNothing \/ SendWrite

Recv ==
  \/ CheckLive("recv", "read") \/ RecvRead \/ RecvData \/ RecvEnd \/ RecvError
  \/ RecvFrame \/ RecvNoFrame \/ Disconnect \/ DisconnectClose

Environment ==
  \/ ComponentPush \/ MatchPop \/ OtherOpen \/ OtherClose
  \/ ServerSend \/ ServerClose \/ NetworkReset \/ ServerStop \/ ServerStart

Next == (\E t \in Threads : Connect(t)) \/ Send \/ Recv \/ Environment

Spec == Init /\ [][Next]_vars

(***************************************************************************)
(* Each thread keeps running.  A thread that waits for the mutex gets it:  *)
(* the other one sleeps five seconds between two calls of Connect.         *)
(* Nothing is assumed of the server, the network or the other components.  *)
(***************************************************************************)
Fairness ==
  /\ \A t \in Threads : SF_vars(Lock(t)) /\ WF_vars(Connect(t))
  /\ WF_vars(Send)
  /\ WF_vars(Recv)
-----------------------------------------------------------------------------
(* The labels at which a thread holds connectionMutex. *)
InConnect == {"close", "socket", "connect", "check"}

MainLabels == InConnect \cup {"lock", "done"}
SendLabels == InConnect \cup {"off", "live", "lock", "pop", "write"}
RecvLabels ==
  InConnect \cup {"off", "live", "lock", "read", "reading", "parse", "drop",
                  "dropClose"}

(* The type of every variable: the members of CCommunication, the threads, *)
(* the descriptors, the network and the histories.                         *)
TypeOK ==
  /\ sendMessage \in Seq(Messages)
  /\ receiveMessage \in Seq(Requests \cup {Garbage})
  /\ clientSocket \in Fds \cup {NoFd}
  /\ connected \in {0, -1}
  /\ connectionMutex \in Threads \cup {None}
  /\ messageBuffers \in Seq(Tokens)
  /\ pc \in [Threads -> MainLabels \cup SendLabels \cup RecvLabels]
  /\ pc["main"] \in MainLabels /\ pc["send"] \in SendLabels
  /\ pc["recv"] \in RecvLabels
  /\ sending \in Messages \cup {Nothing}
  /\ pc["send"] = "write" => sending \in Messages
  /\ reading \in Conns \cup {Free}
  /\ pc["recv"] = "reading" => reading \in Conns
  /\ fdTable \in [Fds -> Files]
  /\ others \subseteq Fds
  /\ killed \in BOOLEAN
  /\ conns \in 0 .. MaxConns
  /\ state \in [Conns -> {"none", "est", "fin", "reset", "dead"}]
  /\ inbound \in [Conns -> Seq(Tokens)]
  /\ serverUp \in BOOLEAN
  /\ failures \in 0 .. MaxFailures
  /\ asked \in 0 .. MaxRequests
  /\ pushed \in 0 .. MaxMessages
  /\ written \in Seq(Messages)
  /\ dispatched \in Seq(Requests \cup {Garbage})
  /\ origin \in [Requests -> 0 .. MaxConns]

IsSocket(fd) == fdTable[fd] \notin {Free, Other}

(* No socket leaks (CCommunication.cpp:28-48, 146-150): whatever the two   *)
(* threads and Disconnect, which takes no lock, do to each other, a socket *)
(* that is open is the one clientSocket names, and one that is not         *)
(* connected is seen only inside the Connect that made it.                 *)
NoSocketLeak ==
  \A fd \in Fds : IsSocket(fd) =>
    /\ fd = clientSocket
    /\ fdTable[fd] = Fresh => connectionMutex # None

(* The inductive strengthening of NoSocketLeak: a thread between the lock  *)
(* and the return of Connect holds the mutex; between close and socket no  *)
(* socket is open; an unconnected one waits for connect or for the close   *)
(* of the failed attempt (CCommunication.cpp:30-47).                       *)
MutexHeld ==
  \A t \in Threads : pc[t] \in InConnect <=> connectionMutex = t

SocketInv ==
  \A fd \in Fds :
    /\ IsSocket(fd) => fd = clientSocket /\ \A t \in Threads : pc[t] # "socket"
    /\ fdTable[fd] = Fresh =>
         \E t \in Threads :
           \/ pc[t] = "connect"
           \/ pc[t] = "check" /\ connected = -1

(* Messages reach the connections in the order they were pushed, none of   *)
(* them twice, across lost connections (CCommunication.cpp:70-89): nothing *)
(* is ever sent again.                                                     *)
SentInOrder ==
  \A i, j \in 1 .. Len(written) : i < j => written[i] < written[j]

(* Its inductive strengthening: the queue holds the last messages pushed,  *)
(* and those popped precede them.                                          *)
SendInv ==
  LET popped == pushed - Len(sendMessage) IN
  /\ popped \in Nat
  /\ \A i \in 1 .. Len(sendMessage) : sendMessage[i] = popped + i
  /\ sending <= popped
  /\ \A i \in 1 .. Len(written) :
       /\ written[i] <= popped
       /\ pc["send"] = "write" => written[i] < sending

(* What the two rest on, checked as one (the theorems of                   *)
(* CommunicationProofs show that every step keeps it).                     *)
IInv == MutexHeld /\ SocketInv /\ SendInv

Delivered == dispatched \o receiveMessage

(* Every request is handed to CMatch at most once, and those of one        *)
(* connection in the order they were sent, however the stream is cut and   *)
(* whichever connection a blocked read belongs to (:93-144).               *)
RequestsInOrder ==
  \A i, j \in 1 .. Len(Delivered) :
    i < j /\ Garbage \notin {Delivered[i], Delivered[j]} =>
      /\ Delivered[i] # Delivered[j]
      /\ origin[Delivered[i]] = origin[Delivered[j]] => Delivered[i] < Delivered[j]

(* As long as there was one connection only, the packets are the server's  *)
(* requests, whole and without gaps, wherever read cut them (:123-140).    *)
FramesIntact ==
  conns <= 1 => \A i \in 1 .. Len(Delivered) : Delivered[i] = i

(* What is left of a lost connection in messageBuffers spoils at most one  *)
(* packet of the connections that follow (:124-139).                       *)
GarbagePerReconnect ==
  LET garbage == {i \in 1 .. Len(Delivered) : Delivered[i] = Garbage}
  IN  garbage # {} => Cardinality(garbage) < conns

(* A message that waits is taken from the queue if the server is there for *)
(* good, whichever threads reconnect at the same time (:62-73).            *)
PushedIsTaken ==
  \A m \in Messages :
    (\E i \in 1 .. Len(sendMessage) : sendMessage[i] = m)
      ~> \/ ~\E i \in 1 .. Len(sendMessage) : sendMessage[i] = m
         \/ killed \/ ~serverUp

(* While nothing fails the agent is the reliable link                      *)
(* (CMessage.cpp:13-51, CCommunication.cpp:57-144).                        *)
LinkOf == INSTANCE Link WITH arrived <- written, delivered <- Delivered
ImplementsLink == LinkOf!LinkSpec
=============================================================================
