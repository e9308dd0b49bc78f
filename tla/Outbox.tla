------------------------------- MODULE Outbox -------------------------------
(***************************************************************************)
(* What the delivery table promises, without leases, ticks or incidents: a *)
(* delivery once written is never lost, it is reported done only after the *)
(* provider acted on it, and a delivery that is done or dropped stays so.  *)
(***************************************************************************)
CONSTANT Deliveries   \* the identities deliveries may have

VARIABLES stage,      \* the deliveries written so far, and where each is
          sent        \* the deliveries the provider has acted on

Init ==
  /\ stage = [d \in {} |-> "queued"]
  /\ sent = {}

\* What may become of one delivery in a step.
Moves(d) ==
  \/ d \in DOMAIN stage /\ stage'[d] = stage[d]
  \/ d \in DOMAIN stage /\ stage[d] = "queued" /\ stage'[d] = "dropped"
  \/ d \in DOMAIN stage /\ stage[d] = "queued" /\ stage'[d] = "done" /\ d \in sent
  \/ d \notin DOMAIN stage /\ stage'[d] \in {"queued", "dropped"}

Write ==
  /\ DOMAIN stage \subseteq DOMAIN stage' /\ DOMAIN stage' \subseteq Deliveries
  /\ \A d \in DOMAIN stage' : Moves(d)
  /\ sent' = sent

Send ==
  /\ \E d \in DOMAIN stage : sent' = sent \cup {d}
  /\ stage' = stage

Next == Write \/ Send

Spec == Init /\ [][Next]_<<stage, sent>>
=============================================================================
