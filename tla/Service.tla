------------------------------- MODULE Service -------------------------------
(***************************************************************************)
(* What the agent promises the server about requests that carry data: each *)
(* is settled once, in the order in which they came, by its RESPONSE or by *)
(* the failure of its handler.  Requests are numbered as they come.        *)
(***************************************************************************)
EXTENDS Naturals

VARIABLES
  requested,   \* the requests with data that have come
  settled,     \* those that were carried out or have failed
  outcomes     \* how many RESPONSEs and failures there were

serviceVars == <<requested, settled, outcomes>>

ServiceInit == requested = {} /\ settled = {} /\ outcomes = 0

Request ==
  /\ \E r \in requested' :
       /\ requested' = requested \cup {r}
       /\ \A q \in requested : q < r
  /\ UNCHANGED <<settled, outcomes>>

Settle ==
  /\ \E r \in requested \ settled :
       /\ \A q \in requested \ settled : r <= q
       /\ settled' = settled \cup {r}
  /\ outcomes' = outcomes + 1
  /\ UNCHANGED requested

ServiceNext == Request \/ Settle

ServiceSafety == ServiceInit /\ [][ServiceNext]_serviceVars

ServiceSpec == ServiceSafety /\ WF_serviceVars(Settle)
=============================================================================
