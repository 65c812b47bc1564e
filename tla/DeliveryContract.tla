-------------------------- MODULE DeliveryContract --------------------------
(***************************************************************************)
(* What the Notification Service promises its clients, without rows, queues*)
(* or workers: a notification that was accepted is handed to the provider, *)
(* perhaps several times but at most Limit times, or is put aside as a dead*)
(* letter; one of the two happens.                                         *)
(***************************************************************************)
EXTENDS Naturals

CONSTANTS Id, Limit

VARIABLES
  known,      \* accepted notifications
  delivered,  \* how often the provider accepted each of them
  dead        \* dead letters

contractVars == <<known, delivered, dead>>

Init == known = {} /\ delivered = [id \in Id |-> 0] /\ dead = {}

Accept(id) ==
  /\ id \notin known
  /\ known' = known \cup {id}
  /\ UNCHANGED <<delivered, dead>>

Deliver(id) ==
  /\ id \in known
  /\ delivered[id] < Limit
  /\ delivered' = [delivered EXCEPT ![id] = @ + 1]
  /\ UNCHANGED <<known, dead>>

Bury(id) ==
  /\ id \in known
  /\ dead' = dead \cup {id}
  /\ UNCHANGED <<known, delivered>>

Next == \E id \in Id : Accept(id) \/ Deliver(id) \/ Bury(id)

\* Whatever fails: nothing is delivered or put aside that was not accepted, no
\* more often than Limit, and neither the accepted nor the dead are forgotten.
Safety == Init /\ [][Next]_contractVars

\* Nothing that was accepted is left undone.
Served == \A id \in Id : id \in known ~> delivered[id] > 0 \/ id \in dead

Spec == Safety /\ Served
=============================================================================
