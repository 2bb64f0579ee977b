-------------------------- MODULE DeliveryContract --------------------------
(***************************************************************************)
(* What the outbox promises to whoever hands it a message: the message is  *)
(* kept until it is settled once, its parts are confirmed in order and     *)
(* each once, and 'delivered' means that a whole plan was confirmed.       *)
(***************************************************************************)
EXTENDS Integers

CONSTANTS Deliveries, NumParts, PlanSizes

VARIABLES
  stage,     \* none, open, or how the delivery was settled
  confirmed  \* the parts whose delivery is on record

vars == <<stage, confirmed>>

Init ==
  /\ stage = [d \in Deliveries |-> "none"]
  /\ confirmed = [d \in Deliveries |-> {}]

Accept(d) ==
  /\ stage[d] = "none"
  /\ stage' = [stage EXCEPT ![d] = "open"]
  /\ UNCHANGED confirmed

Confirm(d, i) ==
  /\ stage[d] = "open"
  /\ i \notin confirmed[d]
  /\ 1 .. i - 1 \subseteq confirmed[d]
  /\ confirmed' = [confirmed EXCEPT ![d] = @ \cup {i}]
  /\ UNCHANGED stage

Settle(d, outcome) ==
  /\ stage[d] = "open"
  /\ outcome = "delivered" => \E n \in PlanSizes : 1 .. n \subseteq confirmed[d]
  /\ stage' = [stage EXCEPT ![d] = outcome]
  /\ UNCHANGED confirmed

Settlements == {"delivered", "suppressed", "undelivered"}

Next == \E d \in Deliveries :
  \/ Accept(d)
  \/ \E i \in 1 .. NumParts : Confirm(d, i)
  \/ \E outcome \in Settlements : Settle(d, outcome)

Spec == Init /\ [][Next]_vars

FairSpec ==
  /\ Spec
  /\ \A d \in Deliveries : WF_vars(\E outcome \in Settlements : Settle(d, outcome))
=============================================================================
