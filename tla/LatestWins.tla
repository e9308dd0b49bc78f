----------------------------- MODULE LatestWins -----------------------------
(***************************************************************************)
(* What the incident table promises, whatever the order in which events    *)
(* arrive: for every key the verdict is the lifecycle of the event that    *)
(* occurred last, and a recovery beats an opening of the same instant.     *)
(***************************************************************************)
EXTENDS Naturals

CONSTANTS Keys,   \* (project, dedupe key) pairs
          Times   \* the instants at which lifecycle events occur

VARIABLES seen,   \* for every key, the lifecycle events received so far
          verdict \* for every key, the status a reader of the table sees

LifecycleEvent == [lifecycle : {"opened", "recovered"}, at : Times]

\* e is not older than anything in S.
Latest(S, e) == e \in S /\ \A f \in S : f.at <= e.at

VerdictOf(S) ==
  IF S = {} THEN "none"
  ELSE IF \E e \in S : Latest(S, e) /\ e.lifecycle = "recovered"
       THEN "resolved" ELSE "open"

Init ==
  /\ seen = [k \in Keys |-> {}]
  /\ verdict = [k \in Keys |-> "none"]

Receive(k, e) ==
  /\ seen' = [seen EXCEPT ![k] = @ \cup {e}]
  /\ verdict' = [verdict EXCEPT ![k] = VerdictOf(seen[k] \cup {e})]

Next == \E k \in Keys, e \in LifecycleEvent : Receive(k, e)

Spec == Init /\ [][Next]_<<seen, verdict>>
=============================================================================
