------------------------------- MODULE Message -------------------------------
(***************************************************************************)
(* CMessage: the two queues through which the threads of the agent talk.   *)
(* Each operation of the class holds the mutex of its queue from its first *)
(* statement to its return, so each is one step.  A packet is whatever the *)
(* module that extends this one puts in a queue: the heap cell around it   *)
(* (new ... delete) is left out.                                           *)
(***************************************************************************)
EXTENDS Sequences

VARIABLES
  sendMessage,     \* packets for the server, pushed by every other component
  receiveMessage   \* packets from the server, for CMatch

queues == <<sendMessage, receiveMessage>>

(* Neither queue has a limit, and both are empty in a new CMessage. *)
InitQueues ==
  /\ sendMessage = <<>>
  /\ receiveMessage = <<>>

PushSendMessage(packet) == sendMessage' = Append(sendMessage, packet)

PushReceiveMessage(packet) == receiveMessage' = Append(receiveMessage, packet)

(* The Pops return NULL, and change nothing, when the queue is empty: the  *)
(* caller's branch on NULL is an action of the caller.                     *)
PopSendMessage(packet) ==
  /\ sendMessage # <<>>
  /\ packet = Head(sendMessage)
  /\ sendMessage' = Tail(sendMessage)

PopReceiveMessage(packet) ==
  /\ receiveMessage # <<>>
  /\ packet = Head(receiveMessage)
  /\ receiveMessage' = Tail(receiveMessage)
=============================================================================
