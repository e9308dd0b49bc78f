----------------------------- MODULE AlertProofs -----------------------------
(***************************************************************************)
(* Proofs that what subscribers were told of an alert, and the incident    *)
(* the notification service keeps for it, follow from which of its two     *)
(* events were stored.  The invariant says so event by event: the three    *)
(* commits of updateAlertState may be cut anywhere and repeated, and every *)
(* repetition finds either the event stored or nothing done.               *)
(***************************************************************************)
EXTENDS Alerts, TLAPS

-----------------------------------------------------------------------------
(* The inductive invariant.                                                *)

Told(a, lifecycle) == <<a, lifecycle>> \in published

\* What the stored events of an alert make its subscribers hear.
Heard(a) ==
  IF Told(a, "opened")
  THEN IF Told(a, "recovered") THEN <<"opened", "recovered">> ELSE <<"opened">>
  ELSE IF Told(a, "recovered") THEN <<"recovered">> ELSE <<>>

\* What they make of its incident.
Verdict(a) ==
  IF Told(a, "recovered") THEN "resolved" ELSE IF Told(a, "opened") THEN "open" ELSE "none"

StoresTell ==
  \A a \in AlertIds : announced[a] = Heard(a) /\ incidents[a].status = Verdict(a)

\* What the row of an alert knows of the events stored for it.
Knows(alert, a) ==
  /\ alert.opened_at <= now
  /\ alert.status = "open" => ~Told(a, "recovered")
  /\ alert.status = "resolved" => alert.opened_at <= alert.resolved_at
  /\ alert.notified => Told(a, "opened")
  /\ alert.recovery_notified => Told(a, "recovered")
  /\ incidents[a].status = "open" => incidents[a].last_opened_at = alert.opened_at

\* A table of alerts, as the statements of a check leave it.
TableKnows(rows) ==
  /\ rows \in Seq(Alert) /\ Len(rows) <= MaxAlerts
  /\ published \subseteq ((DOMAIN rows) \X Lifecycles)
  /\ \A a \in DOMAIN rows : Knows(rows[a], a)

IInv == TypeOK /\ StoresTell /\ TableKnows(alerts)

-----------------------------------------------------------------------------
(* Publishing.                                                             *)

LEMMA UpdateTyped ==
  ASSUME NEW row \in IncidentRow, NEW lifecycle, NEW at \in Nat
  PROVE  UpdatedIncident(row, lifecycle, at) \in IncidentRow
<1>1. OpenedRow(row, at) \in IncidentRow
  BY DEF OpenedRow, IncidentRow, NULL
<1>2. RecoveredRow(row, at) \in IncidentRow
  BY DEF RecoveredRow, IncidentRow, NULL
<1> QED BY <1>1, <1>2 DEF UpdatedIncident

\* An event that is not stored yet is accepted, when an opening comes before
\* its recovery and no recovery is older than its opening.
LEMMA FreshIsAccepted ==
  ASSUME NEW row \in IncidentRow, NEW lifecycle \in Lifecycles, NEW at \in Nat,
         lifecycle = "opened" => row.status = "none",
         lifecycle = "recovered" => row.status # "resolved",
         lifecycle = "recovered" /\ row.status = "open" => row.last_opened_at <= at
  PROVE  LET after == UpdatedIncident(row, lifecycle, at)
         IN /\ Accepts(row, lifecycle, at)
            /\ lifecycle = "opened" => after.status = "open" /\ after.last_opened_at = at
            /\ lifecycle = "recovered" => after.status = "resolved"
<1>1. OpenedRow(row, at).status = "open" /\ RecoveredRow(row, at).status = "resolved"
  BY DEF OpenedRow, RecoveredRow, IncidentRow
<1>2. row.status = "none" => OpenedRow(row, at).last_opened_at = at
  BY DEF OpenedRow
<1>3. row.status \in {"none", "open", "resolved"}
  BY DEF IncidentRow
<1> QED
  BY <1>1, <1>2, <1>3 DEF Accepts, UpdatedIncident, AcceptsOpening, AcceptsRecovery, Lifecycles

LEMMA AppendPair ==
  ASSUME NEW x, NEW y
  PROVE  Append(<<x>>, y) = <<x, y>>
<1> DEFINE s == Append(<<x>>, y)
           t == <<x, y>>
<1>1. s \in Seq({x, y}) /\ t \in Seq({x, y}) /\ Len(s) = 2 /\ Len(t) = 2
  OBVIOUS
<1>2. s[1] = t[1] /\ s[2] = t[2]
  OBVIOUS
<1> HIDE DEF s, t
<1>3. \A i \in 1..Len(s) : s[i] = t[i]
  BY <1>1, <1>2
<1>4. s = t
  BY <1>1, <1>3
<1> QED BY <1>4 DEF s, t

LEMMA PublishTells ==
  ASSUME incidents \in [AlertIds -> IncidentRow], announced \in [AlertIds -> Seq(Lifecycles)],
         StoresTell,
         NEW a \in AlertIds, NEW lifecycle \in Lifecycles, NEW at \in Nat,
         lifecycle = "opened" => ~Told(a, "recovered"),
         lifecycle = "recovered" /\ incidents[a].status = "open"
           => incidents[a].last_opened_at <= at,
         Publish(a, lifecycle, at)
  PROVE  /\ incidents' \in [AlertIds -> IncidentRow]
         /\ announced' \in [AlertIds -> Seq(Lifecycles)]
         /\ StoresTell'
         /\ published' = published \cup {<<a, lifecycle>>}
         /\ \A b \in AlertIds : b # a => incidents'[b] = incidents[b]
         /\ lifecycle = "opened" =>
              IF incidents[a].status = "open" THEN incidents'[a] = incidents[a]
              ELSE incidents'[a].last_opened_at = at
<1> DEFINE row == incidents[a]
           after == UpdatedIncident(row, lifecycle, at)
<1>1. row \in IncidentRow /\ after \in IncidentRow
  BY UpdateTyped
<1>2. /\ announced[a] = Heard(a) /\ row.status = Verdict(a)
      /\ published' = published \cup {<<a, lifecycle>>}
  BY DEF StoresTell, Publish
<1>3. \A b \in AlertIds : b # a => Heard(b)' = Heard(b) /\ Verdict(b)' = Verdict(b)
  BY <1>2 DEF Heard, Verdict, Told
<1>4. CASE Told(a, lifecycle)
  <2>1. incidents' = incidents /\ announced' = announced /\ published' = published
    BY <1>2, <1>4 DEF Publish, Told
  <2>2. lifecycle = "opened" => row.status = "open"
    BY <1>2, <1>4 DEF Verdict
  <2> QED BY <1>2, <2>1, <2>2 DEF StoresTell, Heard, Verdict, Told
<1>5. CASE ~Told(a, lifecycle)
  <2>1. /\ lifecycle = "opened" => row.status = "none"
        /\ lifecycle = "recovered" => row.status # "resolved"
    BY <1>2, <1>5 DEF Verdict
  <2> HIDE DEF row
  <2>2. /\ Accepts(row, lifecycle, at)
        /\ lifecycle = "opened" => after.status = "open" /\ after.last_opened_at = at
        /\ lifecycle = "recovered" => after.status = "resolved"
    BY <1>1, <2>1, FreshIsAccepted DEF row
  <2> HIDE DEF after
  <2>3. /\ incidents' = [incidents EXCEPT ![a] = after]
        /\ announced' = [announced EXCEPT ![a] = Append(announced[a], lifecycle)]
    BY <1>5, <2>2 DEF Publish, Told, row, after
  <2>4. /\ incidents' \in [AlertIds -> IncidentRow] /\ incidents'[a] = after
        /\ announced' \in [AlertIds -> Seq(Lifecycles)]
        /\ announced'[a] = Append(announced[a], lifecycle)
        /\ \A b \in AlertIds : b # a => incidents'[b] = incidents[b] /\ announced'[b] = announced[b]
    BY <1>1, <2>3
  <2>5. Verdict(a)' = after.status
    BY <1>2, <2>2 DEF Verdict, Told, Lifecycles
  <2>6. Heard(a)' = Append(Heard(a), lifecycle)
    <3>1. CASE lifecycle = "opened"
      <4>1. Heard(a) = <<>>
        BY <1>5, <3>1 DEF Heard
      <4>2. Heard(a)' = <<"opened">>
        BY <1>2, <3>1 DEF Heard, Told
      <4> QED BY <3>1, <4>1, <4>2
    <3>2. CASE lifecycle = "recovered"
      <4>1. Told(a, "opened")' <=> Told(a, "opened")
        BY <1>2, <3>2 DEF Told
      <4>2. Heard(a) = IF Told(a, "opened") THEN <<"opened">> ELSE <<>>
        BY <1>5, <3>2 DEF Heard
      <4>3. Heard(a)' = IF Told(a, "opened") THEN <<"opened", "recovered">> ELSE <<"recovered">>
        BY <1>2, <3>2, <4>1 DEF Heard, Told
      <4>4. Append(<<"opened">>, "recovered") = <<"opened", "recovered">>
        BY AppendPair
      <4>5. Append(<< >>, "recovered") = <<"recovered">>
        OBVIOUS
      <4> QED BY <3>2, <4>2, <4>3, <4>4, <4>5
    <3> QED BY <3>1, <3>2 DEF Lifecycles
  <2>7. StoresTell'
    BY <1>2, <1>3, <2>4, <2>5, <2>6 DEF StoresTell
  <2> QED BY <1>2, <2>1, <2>2, <2>4, <2>7 DEF row
<1> QED BY <1>4, <1>5

-----------------------------------------------------------------------------
(* The statements of a check.                                              *)

LEMMA NewAlertTyped ==
  ASSUME TypeOK, NEW s \in Sources
  PROVE  NewAlert(s) \in Alert
BY DEF TypeOK, NewAlert, Alert, NULL

\* A failing check leaves an open alert of its source.
LEMMA OpenAlertKnows ==
  ASSUME IInv, NEW s \in Sources, Len(WithOpenAlert(s)) <= MaxAlerts
  PROVE  LET rows == WithOpenAlert(s)
         IN /\ TableKnows(rows)
            /\ \E i \in DOMAIN rows : rows[i].source = s /\ rows[i].status = "open"
<1> DEFINE rows == WithOpenAlert(s)
<1>1. TypeOK /\ StoresTell /\ TableKnows(alerts)
  BY DEF IInv
<1>2. CASE OfSource(s, "open") # {}
  BY <1>1, <1>2 DEF WithOpenAlert, OfSource
<1>3. CASE OfSource(s, "open") = {}
  <2> DEFINE n == Len(alerts) + 1
             new == NewAlert(s)
  <2>1. rows = Append(alerts, new) /\ new \in Alert /\ alerts \in Seq(Alert)
    BY <1>1, <1>3, NewAlertTyped DEF WithOpenAlert, TypeOK
  <2> HIDE DEF new
  <2>2. /\ rows \in Seq(Alert) /\ DOMAIN rows = DOMAIN alerts \cup {n}
        /\ n \notin DOMAIN alerts /\ rows[n] = new /\ Len(rows) = n
        /\ \A a \in DOMAIN alerts : rows[a] = alerts[a]
    BY <2>1
  <2>3. published \subseteq ((DOMAIN rows) \X Lifecycles)
    BY <1>1, <2>2 DEF TableKnows
  <2>4. ~Told(n, "opened") /\ ~Told(n, "recovered")
    BY <1>1, <2>2 DEF TableKnows, Told
  <2>5. n \in AlertIds
    BY <2>1, <2>2, AlertsAssumption DEF AlertIds
  <2>6. incidents[n].status # "open"
    BY <1>1, <2>4, <2>5 DEF StoresTell, Verdict
  <2>7. Knows(new, n)
    BY <1>1, <2>4, <2>6 DEF Knows, NewAlert, TypeOK, OccurrenceTime, new
  <2>8. new.source = s /\ new.status = "open"
    BY DEF new, NewAlert
  <2> HIDE DEF rows, n
  <2> QED BY <1>1, <2>2, <2>3, <2>7, <2>8 DEF TableKnows, rows
<1> QED BY <1>2, <1>3

\* A check that is not failing leaves none.
LEMMA ResolvedKnows ==
  ASSUME IInv, NEW s \in Sources
  PROVE  TableKnows(WithResolved(s))
<1> DEFINE rows == WithResolved(s)
           closed(alert) == [alert EXCEPT !.status = "resolved", !.resolved_at = now]
<1>1. /\ now \in Nat /\ alerts \in Seq(Alert) /\ Len(alerts) <= MaxAlerts
      /\ TableKnows(alerts)
  BY DEF IInv, TypeOK, OccurrenceTime
<1>2. ASSUME NEW alert \in Alert
      PROVE  /\ closed(alert) \in Alert
             /\ closed(alert).status = "resolved" /\ closed(alert).resolved_at = now
             /\ closed(alert).opened_at = alert.opened_at
             /\ closed(alert).notified = alert.notified
             /\ closed(alert).recovery_notified = alert.recovery_notified
  BY <1>1, <1>2 DEF Alert
<1>3. rows = [a \in DOMAIN alerts |->
                IF a \in OfSource(s, "open") THEN closed(alerts[a]) ELSE alerts[a]]
  BY DEF WithResolved
<1> HIDE DEF rows, closed
<1>4. \A a \in DOMAIN alerts : alerts[a] \in Alert
  BY <1>1
<1>5. \A a \in DOMAIN alerts : rows[a] \in Alert /\ Knows(rows[a], a)
  BY <1>1, <1>2, <1>3, <1>4 DEF Knows, TableKnows
<1>6. rows \in Seq(Alert) /\ Len(rows) = Len(alerts) /\ DOMAIN rows = DOMAIN alerts
  BY <1>1, <1>3, <1>5
<1> QED BY <1>1, <1>5, <1>6 DEF TableKnows, rows

\* The marks are two columns of the row.
LEMMA OpeningPublished ==
  ASSUME IInv, NEW rows, TableKnows(rows), NEW a \in DOMAIN rows, NEW mark \in BOOLEAN,
         rows[a].status = "open", Publish(a, "opened", rows[a].opened_at),
         alerts' = [rows EXCEPT ![a].notified = mark],
         UNCHANGED <<now, monitored, healthy>>
  PROVE  IInv'
<1> DEFINE at == rows[a].opened_at
           new == [rows[a] EXCEPT !.notified = mark]
<1>1. rows \in Seq(Alert) /\ rows[a] \in Alert /\ a \in AlertIds
  BY AlertsAssumption DEF TableKnows, AlertIds
<1>2. at \in Nat /\ "opened" \in Lifecycles
  BY <1>1 DEF Alert, OccurrenceTime, Lifecycles
<1>3. ~Told(a, "recovered") /\ Knows(rows[a], a)
  BY DEF TableKnows, Knows
<1>4. /\ incidents \in [AlertIds -> IncidentRow] /\ announced \in [AlertIds -> Seq(Lifecycles)]
      /\ StoresTell
  BY DEF IInv, TypeOK
<1>5. /\ incidents' \in [AlertIds -> IncidentRow] /\ announced' \in [AlertIds -> Seq(Lifecycles)]
      /\ StoresTell'
      /\ published' = published \cup {<<a, "opened">>}
      /\ \A b \in AlertIds : b # a => incidents'[b] = incidents[b]
      /\ IF incidents[a].status = "open" THEN incidents'[a] = incidents[a]
         ELSE incidents'[a].last_opened_at = at
  <2> HIDE DEF at
  <2>1. Publish(a, "opened", at)
    BY DEF at
  <2> QED BY <1>1, <1>2, <1>3, <1>4, <2>1, PublishTells
<1>6. /\ new \in Alert /\ new.opened_at = at /\ new.status = "open"
      /\ new.recovery_notified = rows[a].recovery_notified
  BY <1>1 DEF Alert
<1>7. alerts' = [rows EXCEPT ![a] = new]
  OBVIOUS
<1> HIDE DEF new
<1>8. /\ alerts' \in Seq(Alert) /\ Len(alerts') = Len(rows) /\ DOMAIN alerts' = DOMAIN rows
      /\ alerts'[a] = new /\ \A b \in DOMAIN rows : b # a => alerts'[b] = rows[b]
  BY <1>1, <1>6, <1>7
<1>9. Told(a, "opened")' /\ ~Told(a, "recovered")'
  BY <1>3, <1>5 DEF Told
<1>10. Knows(new, a)'
  BY <1>3, <1>5, <1>6, <1>9 DEF Knows, StoresTell, Verdict
<1>11. \A b \in DOMAIN rows : b # a => Knows(rows[b], b)'
  <2>1. DOMAIN rows \subseteq AlertIds
    BY AlertsAssumption DEF TableKnows, AlertIds
  <2> QED BY <1>5, <2>1 DEF TableKnows, Knows, Told
<1>12. TableKnows(alerts)'
  <2>1. published' \subseteq ((DOMAIN rows) \X Lifecycles) /\ Len(rows) <= MaxAlerts
    BY <1>2, <1>5 DEF TableKnows
  <2> QED BY <1>8, <1>10, <1>11, <2>1 DEF TableKnows, Knows, Told
<1> QED BY <1>5, <1>12 DEF IInv, TypeOK, TableKnows

LEMMA RecoveryPublished ==
  ASSUME IInv, NEW rows, TableKnows(rows), NEW a \in DOMAIN rows, NEW mark \in BOOLEAN,
         rows[a].status = "resolved", Publish(a, "recovered", rows[a].resolved_at),
         alerts' = [rows EXCEPT ![a].recovery_notified = mark],
         UNCHANGED <<now, monitored, healthy>>
  PROVE  IInv'
<1> DEFINE at == rows[a].resolved_at
           new == [rows[a] EXCEPT !.recovery_notified = mark]
<1>1. rows \in Seq(Alert) /\ rows[a] \in Alert /\ a \in AlertIds
  BY AlertsAssumption DEF TableKnows, AlertIds
<1>2. at \in Nat /\ "recovered" \in Lifecycles
  BY <1>1 DEF Alert, Lifecycles
<1>3. /\ Knows(rows[a], a)
      /\ incidents[a].status = "open" => incidents[a].last_opened_at <= at
  BY DEF TableKnows, Knows
<1>4. /\ incidents \in [AlertIds -> IncidentRow] /\ announced \in [AlertIds -> Seq(Lifecycles)]
      /\ StoresTell
  BY DEF IInv, TypeOK
<1>5. /\ incidents' \in [AlertIds -> IncidentRow] /\ announced' \in [AlertIds -> Seq(Lifecycles)]
      /\ StoresTell'
      /\ published' = published \cup {<<a, "recovered">>}
      /\ \A b \in AlertIds : b # a => incidents'[b] = incidents[b]
  <2> HIDE DEF at
  <2>1. Publish(a, "recovered", at)
    BY DEF at
  <2> QED BY <1>1, <1>2, <1>3, <1>4, <2>1, PublishTells
<1>6. /\ new \in Alert /\ new.opened_at = rows[a].opened_at /\ new.status = "resolved"
      /\ new.resolved_at = at /\ new.notified = rows[a].notified
  BY <1>1 DEF Alert
<1>7. alerts' = [rows EXCEPT ![a] = new]
  OBVIOUS
<1> HIDE DEF new
<1>8. /\ alerts' \in Seq(Alert) /\ Len(alerts') = Len(rows) /\ DOMAIN alerts' = DOMAIN rows
      /\ alerts'[a] = new /\ \A b \in DOMAIN rows : b # a => alerts'[b] = rows[b]
  BY <1>1, <1>6, <1>7
<1>9. Told(a, "recovered")' /\ (Told(a, "opened")' <=> Told(a, "opened"))
  BY <1>5 DEF Told
<1>10. Knows(new, a)'
  <2>1. incidents'[a].status # "open"
    BY <1>1, <1>5, <1>9 DEF StoresTell, Verdict
  <2> QED BY <1>3, <1>6, <1>9, <2>1 DEF Knows
<1>11. \A b \in DOMAIN rows : b # a => Knows(rows[b], b)'
  <2>1. DOMAIN rows \subseteq AlertIds
    BY AlertsAssumption DEF TableKnows, AlertIds
  <2> QED BY <1>5, <2>1 DEF TableKnows, Knows, Told
<1>12. TableKnows(alerts)'
  <2>1. published' \subseteq ((DOMAIN rows) \X Lifecycles) /\ Len(rows) <= MaxAlerts
    BY <1>2, <1>5 DEF TableKnows
  <2> QED BY <1>8, <1>10, <1>11, <2>1 DEF TableKnows, Knows, Told
<1> QED BY <1>5, <1>12 DEF IInv, TypeOK, TableKnows

-----------------------------------------------------------------------------
(* The steps.                                                              *)

\* A check that stores no event.
LEMMA SilentCheck ==
  ASSUME IInv, TableKnows(alerts'), Silent, UNCHANGED <<now, monitored, healthy>>
  PROVE  IInv'
<1>1. TableKnows(alerts)' /\ StoresTell'
  BY DEF IInv, TableKnows, Knows, StoresTell, Heard, Verdict, Told, Silent
<1> QED BY <1>1 DEF IInv, TypeOK, TableKnows, Silent

LEMMA CheckFailingKeeps ==
  ASSUME IInv, NEW s \in Sources, NEW outcome \in Outcomes, CheckFailing(s, outcome)
  PROVE  IInv'
<1> DEFINE rows == WithOpenAlert(s)
           a == CHOOSE i \in DOMAIN rows : rows[i].source = s /\ rows[i].status = "open"
           mark == (outcome = "marked")
<1>1. /\ Len(rows) <= MaxAlerts
      /\ IF rows[a].notified \/ outcome = "not emitted"
         THEN alerts' = rows /\ Silent
         ELSE /\ Publish(a, "opened", rows[a].opened_at)
              /\ alerts' = [rows EXCEPT ![a].notified = mark]
      /\ UNCHANGED <<now, monitored, healthy>>
  BY DEF CheckFailing
<1>2. TableKnows(rows) /\ a \in DOMAIN rows /\ rows[a].status = "open"
  BY <1>1, OpenAlertKnows
<1>3. mark \in BOOLEAN
  OBVIOUS
<1> HIDE DEF rows, a, mark
<1>4. CASE rows[a].notified \/ outcome = "not emitted"
  BY <1>1, <1>2, <1>4, SilentCheck
<1>5. CASE ~(rows[a].notified \/ outcome = "not emitted")
  BY <1>1, <1>2, <1>3, <1>5, OpeningPublished
<1> QED BY <1>4, <1>5

LEMMA CheckOkKeeps ==
  ASSUME IInv, NEW s \in Sources, NEW outcome \in Outcomes, CheckOk(s, outcome)
  PROVE  IInv'
<1> DEFINE rows == WithResolved(s)
           mark == (outcome = "marked")
<1>1. /\ \/ alerts' = rows /\ Silent
         \/ \E a \in PendingRecovery(rows, s) :
              /\ Publish(a, "recovered", rows[a].resolved_at)
              /\ alerts' = [rows EXCEPT ![a].recovery_notified = mark]
      /\ UNCHANGED <<now, monitored, healthy>>
  BY DEF CheckOk
<1>2. TableKnows(rows) /\ mark \in BOOLEAN
  BY ResolvedKnows
<1>3. \A a \in PendingRecovery(rows, s) : a \in DOMAIN rows /\ rows[a].status = "resolved"
  BY DEF PendingRecovery, Unannounced
<1> HIDE DEF rows, mark
<1> QED BY <1>1, <1>2, <1>3, SilentCheck, RecoveryPublished

LEMMA DeleteSourceKeeps ==
  ASSUME IInv, NEW s \in Sources, DeleteSource(s)
  PROVE  IInv'
<1> DEFINE gone(alert) == [alert EXCEPT !.status = "deleted"]
<1>1. TableKnows(alerts) /\ StoresTell
  BY DEF IInv
<1>2. alerts \in Seq(Alert) /\ \A a \in DOMAIN alerts : alerts[a] \in Alert
  BY <1>1 DEF TableKnows
<1>3. ASSUME NEW alert \in Alert
      PROVE  /\ gone(alert) \in Alert /\ gone(alert).status = "deleted"
             /\ gone(alert).opened_at = alert.opened_at
             /\ gone(alert).notified = alert.notified
             /\ gone(alert).recovery_notified = alert.recovery_notified
  BY <1>3 DEF Alert
<1>4. alerts' = [a \in DOMAIN alerts |->
                   IF alerts[a].source = s THEN gone(alerts[a]) ELSE alerts[a]]
  BY DEF DeleteSource
<1> HIDE DEF gone
<1>5. \A a \in DOMAIN alerts : alerts'[a] \in Alert /\ Knows(alerts'[a], a)
  BY <1>1, <1>2, <1>3, <1>4 DEF TableKnows, Knows
<1>6. /\ alerts' \in Seq(Alert) /\ Len(alerts') = Len(alerts) /\ DOMAIN alerts' = DOMAIN alerts
  BY <1>2, <1>4, <1>5
<1>7. UNCHANGED <<now, healthy, published, incidents, announced>> /\ monitored' \subseteq monitored
  BY DEF DeleteSource
<1>8. TableKnows(alerts)' /\ StoresTell'
  BY <1>1, <1>5, <1>6, <1>7 DEF TableKnows, Knows, StoresTell, Heard, Verdict, Told
<1> QED BY <1>6, <1>7, <1>8 DEF IInv, TypeOK, TableKnows

LEMMA IInvKept ==
  ASSUME IInv, [Next]_vars
  PROVE  IInv'
<1>1. ASSUME NEW s \in Sources, Check(s)
      PROVE  IInv'
  BY <1>1, CheckFailingKeeps, CheckOkKeeps DEF Check
<1>2. ASSUME NEW s \in Sources, Turn(s)
      PROVE  IInv'
  <2>1. TableKnows(alerts') /\ Silent /\ healthy' \subseteq Sources /\ UNCHANGED <<now, monitored>>
    BY <1>2 DEF Turn, Silent, IInv, TypeOK
  <2>2. TableKnows(alerts)' /\ StoresTell'
    BY <2>1 DEF IInv, TableKnows, Knows, StoresTell, Heard, Verdict, Told, Silent
  <2> QED BY <2>1, <2>2 DEF IInv, TypeOK, TableKnows, Silent
<1>3. ASSUME NEW s \in Sources, DeleteSource(s)
      PROVE  IInv'
  BY <1>3, DeleteSourceKeeps
<1>4. CASE Advance
  <2>1. /\ now \in Nat /\ now' = now + 1 /\ now' \in OccurrenceTime
        /\ UNCHANGED <<monitored, healthy, alerts, published, incidents, announced>>
    BY <1>4 DEF Advance, IInv, TypeOK, OccurrenceTime, NULL
  <2>2. ASSUME NEW a \in DOMAIN alerts
        PROVE  alerts[a].opened_at \in Nat /\ Knows(alerts[a], a)
    <3>1. alerts[a] \in Alert /\ Knows(alerts[a], a)
      BY DEF IInv, TableKnows
    <3> QED BY <3>1 DEF Alert, OccurrenceTime
  <2>3. ASSUME NEW a \in DOMAIN alerts
        PROVE  Knows(alerts[a], a)'
    BY <2>1, <2>2 DEF Knows, Told
  <2>4. TableKnows(alerts)' /\ StoresTell'
    BY <2>1, <2>3 DEF IInv, TableKnows, StoresTell, Heard, Verdict, Told
  <2> QED BY <2>1, <2>4 DEF IInv, TypeOK
<1>5. CASE UNCHANGED vars
  BY <1>5, SilentCheck DEF vars, Silent, IInv, TableKnows
<1> QED BY <1>1, <1>2, <1>3, <1>4, <1>5 DEF Next

LEMMA InitHolds ==
  ASSUME Init
  PROVE  IInv
<1>1. NoIncident \in IncidentRow /\ NoIncident.status = "none"
  BY DEF NoIncident, IncidentRow, NULL
<1>2. alerts = <<>> /\ published = {} /\ Len(alerts) <= MaxAlerts
  BY AlertsAssumption DEF Init
<1>3. TypeOK
  BY <1>1, <1>2 DEF Init, TypeOK, OccurrenceTime, NULL
<1>4. StoresTell
  BY <1>1 DEF Init, StoresTell, Heard, Verdict, Told
<1>5. TableKnows(alerts)
  BY <1>2 DEF TableKnows
<1> QED BY <1>3, <1>4, <1>5 DEF IInv

-----------------------------------------------------------------------------
(* The theorems.                                                           *)

LEMMA IInvHolds == Spec => []IInv
BY InitHolds, IInvKept, PTL DEF Spec

\* For any sources and any number of alerts, wherever the calls of
\* updateAlertState are cut short and however often a check repeats them,
\* subscribers hear of an alert's opening and its recovery at most once each,
\* in this order.
THEOREM AlertsAnnouncedOnce == Spec => []AnnouncedOnce
<1>1. IInv => AnnouncedOnce
  BY DEF IInv, StoresTell, Heard, AnnouncedOnce
<1> QED BY <1>1, IInvHolds, PTL

\* The incident of an alert that still exists agrees with the alert's row
\* through every cut between the three commits.
THEOREM AlertsTrackIncidents == Spec => []IncidentTracksAlert
<1>1. ASSUME IInv
      PROVE  IncidentTracksAlert
  <2>1. \A a \in DOMAIN alerts : a \in AlertIds
    BY <1>1, AlertsAssumption DEF IInv, TypeOK, AlertIds
  <2> QED
    BY <1>1, <2>1 DEF IInv, TableKnows, Knows, StoresTell, Verdict, IncidentTracksAlert
<1> QED BY <1>1, IInvHolds, PTL
=============================================================================
