----------------------------- MODULE Retention -----------------------------
(***************************************************************************)
(* What the retention of db.ts does to incidents.  Events are deleted by   *)
(* the time they arrived, whatever the time they are stamped with, and the *)
(* foreign keys of notification_incidents take a row along with the event  *)
(* that opened it.  Instants stand for days; events of no incident, and    *)
(* deliveries, which go with their events, are left out.                   *)
(***************************************************************************)
EXTENDS IncidentRules, Sequences

CONSTANTS Keys, Keep,           \* dedupe keys; days events are kept (90)
          MaxTime, MaxEvents    \* bounds

VARIABLES
  now,
  received,  \* notification_events in the order of arrival, deleted ones included
  stored,    \* which of them are there
  row,       \* notification_incidents
  opened,    \* its opened_event_id
  forgotten  \* history: keys that have lost the row of an opening that was due

retentionVars == <<now, received, stored, row, opened, forgotten>>

Received == [key : Keys, lifecycle : Lifecycles, at : 1..MaxTime, created : 1..MaxTime]

\* emitNotification, as far as incidents go: the row names the opening it was
\* opened or refreshed by, or the recovery that came first.
Arrive(k, lifecycle, at) ==
  /\ Len(received) < MaxEvents
  /\ received' = Append(received, [key |-> k, lifecycle |-> lifecycle, at |-> at, created |-> now])
  /\ stored' = stored \cup {Len(received')}
  /\ row' = [row EXCEPT ![k] = UpdatedIncident(@, lifecycle, at)]
  /\ opened' = IF /\ Accepts(row[k], lifecycle, at)
                  /\ lifecycle = "opened" \/ row[k].status = "none"
               THEN [opened EXCEPT ![k] = Len(received')] ELSE opened
  /\ UNCHANGED <<now, forgotten>>

Due(i) == received[i].created < now - Keep

Expired(i) == received[i].created < now - Keep

\* Nothing is exempt.
FaultyExempt == {}

\* The openings of unresolved incidents.
Exempt == {opened[k] : k \in {j \in Keys : row[j].status = "open"}}

\* Without the foreign key.
FaultyCascaded(gone) == {}

\* The rows that go with their opening.
Cascaded(gone) == {k \in Keys : opened[k] \in gone}

CleanupExpiredData ==
  LET gone == {i \in stored : Expired(i)} \ Exempt
      rows == Cascaded(gone)
  IN /\ stored' = stored \ gone
     /\ row' = [k \in Keys |-> IF k \in rows THEN NoIncident ELSE row[k]]
     /\ opened' = [k \in Keys |-> IF k \in rows THEN 0 ELSE opened[k]]
     /\ forgotten' = forgotten \cup {k \in rows : Due(opened[k])}
     /\ UNCHANGED <<now, received>>

Tomorrow ==
  /\ now < MaxTime
  /\ now' = now + 1
  /\ UNCHANGED <<received, stored, row, opened, forgotten>>

RetentionInit ==
  /\ now = 1 /\ received = <<>> /\ stored = {} /\ forgotten = {}
  /\ row = [k \in Keys |-> NoIncident] /\ opened = [k \in Keys |-> 0]

RetentionNext ==
  \/ \E k \in Keys, lifecycle \in Lifecycles, at \in 1..now : Arrive(k, lifecycle, at)
  \/ CleanupExpiredData
  \/ Tomorrow

RetentionSpec == RetentionInit /\ [][RetentionNext]_retentionVars

-----------------------------------------------------------------------------
\* The foreign key: a row names an event that is there.
RetentionTypeOK ==
  /\ now \in 1..MaxTime /\ received \in Seq(Received) /\ Len(received) <= MaxEvents
  /\ stored \subseteq DOMAIN received /\ forgotten \subseteq Keys
  /\ row \in [Keys -> IncidentRow] /\ opened \in [Keys -> 0..Len(received)]
  /\ \A k \in Keys : IF row[k].status = "none" THEN opened[k] = 0 ELSE opened[k] \in stored

\* No outage is forgotten: however long it lasts and however much is deleted,
\* an incident is open from its opening to a recovery, unless it never was
\* because a later recovery was known.
NoMissedAlarm ==
  \A i \in DOMAIN received :
    received[i].lifecycle = "opened" =>
      \/ row[received[i].key].status = "open"
      \/ \E j \in DOMAIN received :
           /\ received[j].key = received[i].key /\ received[j].lifecycle = "recovered"
           /\ received[j].at >= received[i].at

\* No recovery is forgotten while it matters: an incident is open only if
\* nothing as late as its last opening has reported its recovery.  The exception
\* is a key whose row was deleted with an opening that had been kept long
\* enough, although its recovery had not.
NoFalseAlarm ==
  \A k \in Keys \ forgotten :
    row[k].status = "open" =>
      \A j \in DOMAIN received :
        received[j].key = k /\ received[j].lifecycle = "recovered" => received[j].at < row[k].last_opened_at

\* What retention deletes decides nothing any more: neither an outage nor a
\* recovery is lost with it.
NothingThatMattersForgotten == NoMissedAlarm /\ NoFalseAlarm
=============================================================================
