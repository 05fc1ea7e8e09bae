-------------------------------- MODULE Agent --------------------------------
(***************************************************************************)
(* The way of a request through the agent and of its answer back: the two  *)
(* threads of CCommunication and the queues of CMessage, composed with the *)
(* dispatcher of CMatch and the periodic reports of CCollector.            *)
(*                                                                         *)
(* Of CMatch there is here what Dispatch is shown to implement (Service):  *)
(* one request at a time is taken, and settled by its RESPONSE or by a     *)
(* handler that throws.  Every request carries data; what comes of Garbage *)
(* depends on the uninitialised protocol of the packet.                    *)
(***************************************************************************)
EXTENDS Framing

CONSTANTS
  MaxReports,    \* bound: messages of the timer in a behaviour
  MaxThrows      \* bound: handlers that throw

(* The bound on messages stops no answer. *)
ASSUME AgentAssumption ==
  /\ MaxReports \in Nat /\ MaxThrows \in Nat
  /\ MaxMessages >= MaxReports + MaxRequests + MaxConns

VARIABLES
  current,       \* the packet whose handler runs
  answerOf,      \* what each message pushed answers
  failed         \* the requests whose handler threw

agent == <<current, answerOf, failed>>
agentVars == <<vars, agent>>

NoRequest == -1
Report == -1

AgentInit == Init /\ current = NoRequest /\ answerOf = <<>> /\ failed = {}

Reports == Cardinality({m \in 1 .. Len(answerOf) : answerOf[m] = Report})

Push(of) == ComponentPush /\ answerOf' = Append(answerOf, of)

TimerReport ==
  /\ Reports < MaxReports
  /\ Push(Report)
  /\ UNCHANGED <<current, failed>>

Take ==
  /\ current = NoRequest
  /\ MatchPop
  /\ current' = dispatched'[Len(dispatched')]
  /\ UNCHANGED <<answerOf, failed>>

(* Mutants: the handler's packet is kept when it has answered; the message *)
(* is not counted as an answer.                                            *)
ReplyKept ==
  /\ current # NoRequest
  /\ Push(current)
  /\ UNCHANGED <<current, failed>>

ReplyUnknown ==
  /\ current # NoRequest
  /\ ComponentPush
  /\ current' = NoRequest
  /\ UNCHANGED <<answerOf, failed>>

Reply ==
  /\ current # NoRequest
  /\ Push(current)
  /\ current' = NoRequest
  /\ UNCHANGED failed

(* The handler throws; or no handler belongs to the protocol of Garbage.   *)
NoReply ==
  /\ ~killed
  /\ \/ /\ current \in Requests /\ Cardinality(failed) < MaxThrows
        /\ failed' = failed \cup {current}
     \/ current = Garbage /\ UNCHANGED failed
  /\ current' = NoRequest
  /\ UNCHANGED <<vars, answerOf>>

Settle == Reply \/ NoReply

(* Steps of CCommunication, of other threads, and of the world outside. *)
Connection ==
  /\ \/ \E t \in Threads : Connect(t)
     \/ Send \/ Recv
     \/ OtherOpen \/ OtherClose
     \/ ServerSend \/ ServerClose \/ NetworkReset \/ ServerStop \/ ServerStart
  /\ UNCHANGED agent

AgentNext == Connection \/ TimerReport \/ Take \/ Settle

(* The threads of CCommunication, the dispatcher, and handlers that end.   *)
AgentFairness == Fairness /\ WF_agentVars(Take) /\ WF_agentVars(Settle)

AgentSpec == AgentInit /\ [][AgentNext]_agentVars /\ AgentFairness

-----------------------------------------------------------------------------
(* The type of the dispatcher, and of what the messages are. *)
AgentTypeOK ==
  /\ current \in Requests \cup {Garbage, NoRequest}
  /\ answerOf \in Seq(Requests \cup {Garbage, Report})
  /\ Len(answerOf) = pushed
  /\ failed \subseteq Requests

(* However connections are lost and made: no request is answered twice or  *)
(* after its handler threw, the answers to what one connection brought are *)
(* in its order, whichever connections carry them back, and the answers    *)
(* the server never asked for are fewer than the connections               *)
(* (CCommunication.cpp:57-144, CMatch.cpp:18-56).                          *)
AnswersAreOwn ==
  LET Of(i) == answerOf[written[i]]
      answers == {i \in 1 .. Len(written) : Of(i) # Report}
      unasked == {i \in answers : Of(i) = Garbage}
  IN  /\ unasked # {} => Cardinality(unasked) < conns
      /\ \A i, j \in answers :
           i < j /\ Garbage \notin {Of(i), Of(j)} =>
             /\ Of(i) # Of(j)
             /\ origin[Of(i)] = origin[Of(j)] => Of(i) < Of(j)
      /\ \A i \in answers : Of(i) \notin failed

(* Its inductive strengthening: a packet is answered, or fails, once, and  *)
(* the packets that were are those before the one in hand, in their order. *)
Handled == IF current = NoRequest THEN Len(dispatched) ELSE Len(dispatched) - 1

SettledOnce ==
  /\ current # NoRequest => Handled \in Nat /\ dispatched[Handled + 1] = current
  /\ \A m \in 1 .. Len(answerOf) :
       answerOf[m] # Report => \E p \in 1 .. Handled : dispatched[p] = answerOf[m]
  /\ \A m, n \in 1 .. Len(answerOf) :
       m < n /\ answerOf[m] \in Requests /\ answerOf[n] \in Requests =>
         \E p, q \in 1 .. Handled :
           p < q /\ dispatched[p] = answerOf[m] /\ dispatched[q] = answerOf[n]
  /\ \A r \in failed :
       /\ \E p \in 1 .. Handled : dispatched[p] = r
       /\ \A m \in 1 .. Len(answerOf) : answerOf[m] # r
  /\ Spoiled(answerOf) + (IF current = Garbage THEN 1 ELSE 0) <= Spoiled(dispatched)

(* What the theorems of the agent rest on, checked as one: the sockets and *)
(* the queues (IInv), the framing of the streams, and the dispatcher.      *)
AgentInv ==
  /\ IInv /\ MainFirst /\ BeforeFirst
  /\ OriginInv /\ StreamInv /\ OneConnection
  /\ SettledOnce

(* A request that has reached the queue is settled in the end: its handler *)
(* has thrown, or its answer has left the queue, also when the connection  *)
(* is lost and made anew by both threads, unless the agent dies or the     *)
(* server stays away (CMatch.cpp:18-56, CCommunication.cpp:57-91).         *)
IsSettled(r) ==
  \/ r \in failed
  \/ \E m \in 1 .. Len(answerOf) :
       answerOf[m] = r /\ \A i \in 1 .. Len(sendMessage) : sendMessage[i] # m

RequestIsSettled ==
  \A r \in Requests :
    (\E i \in 1 .. Len(receiveMessage) : receiveMessage[i] = r)
      ~> IsSettled(r) \/ killed \/ ~serverUp

(* While nothing fails, the server sees the service that Dispatch offers   *)
(* inside the agent: every request it sends is answered once, in order,    *)
(* and in the end (CCommunication.cpp:57-144, CMatch.cpp:18-56).           *)
Answered == {i \in 1 .. Len(written) : answerOf[written[i]] # Report}

RoundTrip == INSTANCE Service WITH
  requested <- 1 .. asked,
  settled   <- {answerOf[written[i]] : i \in Answered},
  outcomes  <- Cardinality(Answered)
ImplementsRoundTrip == RoundTrip!ServiceSpec
=============================================================================
