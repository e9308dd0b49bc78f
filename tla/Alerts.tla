------------------------------- MODULE Alerts -------------------------------
(***************************************************************************)
(* Alerts of monitored sources and the lifecycle events they publish.      *)
(* Every check of a source calls updateAlertState, which opens or resolves *)
(* the source's alert, emits alert.opened or alert.recovered, and marks    *)
(* the alert as announced.  The call runs without interruption, but it is  *)
(* three commits: the process may die between them, and emitNotification   *)
(* may throw (the error is logged, and a later check tries again).         *)
(*                                                                         *)
(* The dedupe key of the events is the alert, so each alert has an         *)
(* incident of its own, kept by the rules of IncidentRules.                *)
(***************************************************************************)
EXTENDS IncidentRules, Sequences

CONSTANTS Sources,            \* (source type, source id) pairs
          MaxTime, MaxAlerts  \* bounds: the clock, the alerts opened

ASSUME AlertsAssumption == MaxTime \in Nat /\ MaxAlerts \in Nat

VARIABLES
  now,        \* the clock
  monitored,  \* sources neither deleted nor disabled
  healthy,    \* sources whose latest results are not a failure
  alerts,     \* alerts, in order of insertion; a deleted row keeps its place
  published,  \* notification_events: the events stored, by idempotency key
  incidents,  \* notification_incidents, by dedupe key
  announced   \* history: the accepted events of each alert, in order

vars == <<now, monitored, healthy, alerts, published, incidents, announced>>

AlertIds == 1..MaxAlerts

Alert ==
  [source : Sources, status : {"open", "resolved", "deleted"},
   opened_at : OccurrenceTime, resolved_at : Nat,
   notified : BOOLEAN, recovery_notified : BOOLEAN]

OfSource(s, status) ==
  {a \in DOMAIN alerts : alerts[a].source = s /\ alerts[a].status = status}

-----------------------------------------------------------------------------
(* emitNotification with the idempotency key alert-<lifecycle>:<id>.       *)

\* The event is stored whenever it is emitted: no idempotency key.
FaultyPublish(a, lifecycle, at) ==
  LET row == incidents[a]
  IN /\ published' = published \cup {<<a, lifecycle>>}
     /\ incidents' = [incidents EXCEPT ![a] = UpdatedIncident(row, lifecycle, at)]
     /\ announced' = IF Accepts(row, lifecycle, at)
                     THEN [announced EXCEPT ![a] = Append(@, lifecycle)]
                     ELSE announced

Publish(a, lifecycle, at) ==
  LET row == incidents[a]
      fresh == <<a, lifecycle>> \notin published
      accepted == fresh /\ Accepts(row, lifecycle, at)
  IN /\ published' = published \cup {<<a, lifecycle>>}
     /\ incidents' = IF fresh
                     THEN [incidents EXCEPT ![a] = UpdatedIncident(row, lifecycle, at)]
                     ELSE incidents
     /\ announced' = IF accepted
                     THEN [announced EXCEPT ![a] = Append(@, lifecycle)]
                     ELSE announced

Silent == UNCHANGED <<published, incidents, announced>>

\* How far a call gets: not to the event, because the emission threw or the
\* process died; not to the mark, because the process died; or to its end.
Outcomes == {"not emitted", "not marked", "marked"}

-----------------------------------------------------------------------------
(* updateAlertState.                                                       *)

NewAlert(s) ==
  [source |-> s, status |-> "open", opened_at |-> now, resolved_at |-> NULL,
   notified |-> FALSE, recovery_notified |-> FALSE]

\* The alerts after the first statement of a failing check.
WithOpenAlert(s) ==
  IF OfSource(s, "open") = {} THEN Append(alerts, NewAlert(s)) ELSE alerts

CheckFailing(s, outcome) ==
  LET rows == WithOpenAlert(s)
      a == CHOOSE i \in DOMAIN rows : rows[i].source = s /\ rows[i].status = "open"
  IN /\ s \in monitored /\ s \notin healthy
     /\ Len(rows) <= MaxAlerts
     /\ IF rows[a].notified \/ outcome = "not emitted"
        THEN alerts' = rows /\ Silent
        ELSE /\ Publish(a, "opened", rows[a].opened_at)
             /\ alerts' = [rows EXCEPT ![a].notified = (outcome = "marked")]
     /\ UNCHANGED <<now, monitored, healthy>>

\* The alerts after the first statement of a check that is not failing.
WithResolved(s) ==
  [a \in DOMAIN alerts |->
     IF a \in OfSource(s, "open")
     THEN [alerts[a] EXCEPT !.status = "resolved", !.resolved_at = now]
     ELSE alerts[a]]

\* The row of pendingRecovery: ORDER BY resolved_at DESC LIMIT 1
Unannounced(rows, s) ==
  {a \in DOMAIN rows :
     rows[a].source = s /\ rows[a].status = "resolved" /\ ~rows[a].recovery_notified}

\* Only the alert this very check resolved is announced.
FaultyPendingRecovery(rows, s) == Unannounced(rows, s) \cap OfSource(s, "open")

PendingRecovery(rows, s) ==
  {a \in Unannounced(rows, s) :
     \A b \in Unannounced(rows, s) : rows[b].resolved_at <= rows[a].resolved_at}

CheckOk(s, outcome) ==
  LET rows == WithResolved(s)
  IN /\ s \in monitored /\ s \in healthy
     /\ \/ /\ PendingRecovery(rows, s) = {} \/ outcome = "not emitted"
           /\ alerts' = rows /\ Silent
        \/ \E a \in PendingRecovery(rows, s) :
             /\ outcome # "not emitted"
             /\ Publish(a, "recovered", rows[a].resolved_at)
             /\ alerts' = [rows EXCEPT ![a].recovery_notified = (outcome = "marked")]
     /\ UNCHANGED <<now, monitored, healthy>>

-----------------------------------------------------------------------------
(* The sources, and the clock.                                             *)

\* The results of a source turn to failure, or back.
Turn(s) ==
  /\ s \in monitored
  /\ healthy' = IF s \in healthy THEN healthy \ {s} ELSE healthy \cup {s}
  /\ UNCHANGED <<now, monitored, alerts, published, incidents, announced>>

\* DELETE of a node, an endpoint or an AI target takes its alerts along.
DeleteSource(s) ==
  /\ s \in monitored
  /\ monitored' = monitored \ {s}
  /\ alerts' = [a \in DOMAIN alerts |->
                  IF alerts[a].source = s THEN [alerts[a] EXCEPT !.status = "deleted"]
                  ELSE alerts[a]]
  /\ UNCHANGED <<now, healthy, published, incidents, announced>>

Advance ==
  /\ now < MaxTime
  /\ now' = now + 1
  /\ UNCHANGED <<monitored, healthy, alerts, published, incidents, announced>>

Init ==
  /\ now = 1
  /\ monitored = Sources
  /\ healthy = Sources
  /\ alerts = <<>>
  /\ published = {}
  /\ incidents = [a \in AlertIds |-> NoIncident]
  /\ announced = [a \in AlertIds |-> <<>>]

Check(s) == \E outcome \in Outcomes : CheckFailing(s, outcome) \/ CheckOk(s, outcome)

Next ==
  \/ \E s \in Sources : Check(s) \/ Turn(s) \/ DeleteSource(s)
  \/ Advance

Spec == Init /\ [][Next]_vars

-----------------------------------------------------------------------------
TypeOK ==
  /\ now \in OccurrenceTime
  /\ monitored \subseteq Sources /\ healthy \subseteq Sources
  /\ alerts \in Seq(Alert) /\ Len(alerts) <= MaxAlerts
  /\ published \subseteq ((DOMAIN alerts) \X Lifecycles)
  /\ incidents \in [AlertIds -> IncidentRow]
  /\ announced \in [AlertIds -> Seq(Lifecycles)]

\* However often a call is cut short and repeated, subscribers hear of an
\* alert's opening and of its recovery at most once each, in this order.  A
\* recovery may come alone, when the opening could never be emitted.
AnnouncedOnce ==
  \A a \in AlertIds :
    announced[a] \in {<<>>, <<"opened">>, <<"recovered">>, <<"opened", "recovered">>}

\* The incident of an alert that still exists agrees with it: the incident is
\* open only while the alert is, or while its recovery is still to be
\* announced, and a recovery marked as announced did close the incident.  All
\* variables have their types.
IncidentTracksAlert ==
  /\ TypeOK
  /\ \A a \in DOMAIN alerts :
       LET alert == alerts[a]
           row == incidents[a]
       IN /\ alert.status = "open" => row.status # "resolved"
          /\ alert.status = "open" /\ alert.notified => row.status = "open"
          /\ alert.status = "resolved" /\ alert.recovery_notified => row.status = "resolved"

\* Checks recur, and an emission that is tried again and again succeeds.
FairSpec == Spec /\ \A s \in Sources : SF_vars(CheckOk(s, "marked"))

\* Once a source stays healthy, none of its incidents stays open, including
\* those of earlier alerts whose recovery could not be announced in time.
RecoveriesCatchUp ==
  \A s \in Sources :
    <>[](s \in monitored /\ s \in healthy) =>
      <>[](\A a \in DOMAIN alerts : alerts[a].source = s => incidents[a].status # "open")
=============================================================================
