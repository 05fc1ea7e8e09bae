-------------------------------- MODULE Link --------------------------------
(***************************************************************************)
(* What CMessage and CCommunication promise together while nothing fails:  *)
(* two channels that are first in, first out and lose nothing.  Messages   *)
(* and requests are numbered in the order they are made.                   *)
(***************************************************************************)
EXTENDS Naturals, Sequences

VARIABLES
  pushed,      \* messages handed to PushSendMessage
  arrived,     \* messages the connection accepted, in order
  asked,       \* requests the server sent
  delivered    \* packets PushReceiveMessage received, in order

linkVars == <<pushed, arrived, asked, delivered>>

LinkInit ==
  /\ pushed = 0 /\ arrived = <<>>
  /\ asked = 0 /\ delivered = <<>>

Push == pushed' = pushed + 1 /\ UNCHANGED <<arrived, asked, delivered>>

Arrive ==
  /\ Len(arrived) < pushed
  /\ arrived' = Append(arrived, Len(arrived) + 1)
  /\ UNCHANGED <<pushed, asked, delivered>>

Ask == asked' = asked + 1 /\ UNCHANGED <<pushed, arrived, delivered>>

Deliver ==
  /\ Len(delivered) < asked
  /\ delivered' = Append(delivered, Len(delivered) + 1)
  /\ UNCHANGED <<pushed, arrived, asked>>

LinkNext == Push \/ Arrive \/ Ask \/ Deliver

LinkSpec ==
  /\ LinkInit /\ [][LinkNext]_linkVars
  /\ WF_linkVars(Arrive) /\ WF_linkVars(Deliver)
=============================================================================
