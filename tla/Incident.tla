------------------------------ MODULE Incident ------------------------------
(***************************************************************************)
(* The incident table under lifecycle events that arrive late, twice or in *)
(* any order: emitNotification calls updateIncident inside its BEGIN       *)
(* IMMEDIATE transaction, so one event is one step.  `occurredAt` is       *)
(* chosen by the publisher and unrelated to the order of arrival.          *)
(***************************************************************************)
EXTENDS IncidentRules

CONSTANTS Keys,   \* (project, dedupe key) pairs
          Times   \* the instants at which lifecycle events occur

ASSUME TimesAssumption == Times \subseteq OccurrenceTime

VARIABLES incidents, \* notification_incidents, by key
          seen       \* history: the lifecycle events received, by key

vars == <<incidents, seen>>

LifecycleEvent == [lifecycle : Lifecycles, at : Times]

Init ==
  /\ incidents = [k \in Keys |-> NoIncident]
  /\ seen = [k \in Keys |-> {}]

Receive(k, e) ==
  /\ incidents' = [incidents EXCEPT ![k] = UpdatedIncident(@, e.lifecycle, e.at)]
  /\ seen' = [seen EXCEPT ![k] = @ \cup {e}]

Opened(k, at) == Receive(k, [lifecycle |-> "opened", at |-> at])
Recovered(k, at) == Receive(k, [lifecycle |-> "recovered", at |-> at])

Next == \E k \in Keys, at \in Times : Opened(k, at) \/ Recovered(k, at)

Spec == Init /\ [][Next]_vars

-----------------------------------------------------------------------------
TypeOK ==
  /\ incidents \in [Keys -> IncidentRow]
  /\ seen \in [Keys -> SUBSET LifecycleEvent]

\* The columns of a row are in the order the comparisons of updateIncident,
\* claimDelivery and processDeliveries rely on.
RowOrdered(row) ==
  /\ row.status = "none" => row = NoIncident
  /\ row.status # "none" => 0 < row.opened_at /\ row.opened_at <= row.last_opened_at
  /\ row.status = "open" => row.resolved_at = NULL
  /\ row.status = "resolved" => row.last_opened_at <= row.resolved_at

\* Every row keeps its columns ordered, however late its events arrive.
RowsOrdered == \A k \in Keys : RowOrdered(incidents[k])

\* The watermark of a row is the time of the latest event received, and the
\* row is resolved exactly when a recovery occurred at that time.
SummaryOf(row, S) ==
  IF S = {} THEN row.status = "none"
  ELSE /\ row.status # "none"
       /\ \A e \in S : e.at <= Watermark(row)
       /\ \E e \in S : /\ e.at = Watermark(row)
                       /\ row.status = "resolved" => e.lifecycle = "recovered"
       /\ row.status = "open" =>
            \A e \in S : e.lifecycle = "recovered" => e.at < Watermark(row)

RowsSummarise == \A k \in Keys : SummaryOf(incidents[k], seen[k])

\* The status of an incident depends on which events were received, never on
\* the order they came in: the event that occurred last decides, a recovery
\* winning a tie.  (updateIncident compares occurredAt with three columns, each
\* on its own path.)
Refines == INSTANCE LatestWins WITH verdict <- [k \in Keys |-> incidents[k].status]
OrderIndependent == Refines!Spec

\* An episode that begins is later than everything the row knew, so an opening
\* of an earlier episode can be told by its occurrence time alone.
EpisodesMoveForward ==
  [][\A k \in Keys :
       incidents'[k].opened_at # incidents[k].opened_at
         => incidents'[k].opened_at > Watermark(incidents[k])]_vars
=============================================================================
