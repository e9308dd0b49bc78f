------------------------- MODULE NotificationProofs -------------------------
(***************************************************************************)
(* Proofs about the notification service, for every value of its           *)
(* constants.  The inductive invariant adds to the types what a running    *)
(* tick may rely on after an await (ClaimsKept) and how the tokens of      *)
(* claims relate to the lease in the row (TokensFence).                    *)
(***************************************************************************)
EXTENDS NotificationProperties, TLAPS

\* What deliveries must be for TypeOK.
Table(rows) ==
  /\ DOMAIN rows \subseteq DeliveryId
  /\ rows \in [DOMAIN rows -> DeliveryRow]

-----------------------------------------------------------------------------
(* Lemmas about the operators of the specification.                        *)

\* The columns of a row, one by one.
LEMMA RowColumns ==
  ASSUME NEW r \in DeliveryRow
  PROVE  /\ r.status \in Statuses
         /\ r.attempt_count \in Nat /\ r.next_attempt_at \in Nat
         /\ r.lease_until \in Nat /\ r.created_at \in Nat /\ r.delivered_at \in Nat
         /\ r.rule \in RuleType
BY DEF DeliveryRow

\* Superseding keeps the rows and their types, and changes two columns of those
\* named.
LEMMA SupersedingRows ==
  ASSUME NEW rows, NEW D, Table(rows)
  PROVE  /\ DOMAIN Superseding(rows, D) = DOMAIN rows
         /\ Table(Superseding(rows, D))
         /\ \A d \in DOMAIN rows :
              LET new == Superseding(rows, D)[d]
              IN /\ d \notin D => new = rows[d]
                 /\ d \in D => new.status = "superseded" /\ new.lease_until = NULL
                 /\ new.rule = rows[d].rule
                 /\ new.created_at = rows[d].created_at
                 /\ new.delivered_at = rows[d].delivered_at
<1> DEFINE gone(r) == [r EXCEPT !.status = "superseded", !.lease_until = NULL]
<1>1. ASSUME NEW r \in DeliveryRow
      PROVE  /\ gone(r) \in DeliveryRow
             /\ gone(r).status = "superseded" /\ gone(r).lease_until = NULL
             /\ gone(r).rule = r.rule /\ gone(r).created_at = r.created_at
             /\ gone(r).delivered_at = r.delivered_at
  BY <1>1 DEF DeliveryRow, Statuses, NULL
<1>2. \A d \in DOMAIN rows : rows[d] \in DeliveryRow
  BY DEF Table
<1>3. Superseding(rows, D) = [d \in DOMAIN rows |-> IF d \in D THEN gone(rows[d]) ELSE rows[d]]
  BY DEF Superseding
<1> HIDE DEF gone
<1>4. DOMAIN Superseding(rows, D) = DOMAIN rows
  BY <1>3
<1>5. \A d \in DOMAIN rows : Superseding(rows, D)[d] \in DeliveryRow
  BY <1>1, <1>2, <1>3
<1>6. Superseding(rows, D) \in [DOMAIN rows -> DeliveryRow]
  BY <1>3, <1>5
<1> QED
  BY <1>1, <1>2, <1>3, <1>4, <1>6 DEF Table

\* When a delivery is attempted, it is attempted at a time.
LEMMA AttemptTime ==
  ASSUME NEW rule, NEW e, NEW t \in Nat
  PROVE  AfterQuietHours(rule, e, t) \in Nat
BY TimingAssumption DEF AfterQuietHours

\* The row of a new delivery.
LEMMA NewRowTyped ==
  ASSUME TypeOK, NEW s \in Subs, NEW c, NEW e, NEW row
  PROVE  NewRow(s, c, e, row) \in DeliveryRow
<1>1. InitialStatus(s, c, e, row) \in Statuses
  BY DEF InitialStatus, Statuses
<1>2. now \in Nat /\ subs[s] \in RuleType
  BY DEF TypeOK
<1>3. AfterQuietHours(subs[s], e, now) \in Nat
  BY <1>2, AttemptTime
<1> QED
  BY <1>1, <1>2, <1>3 DEF NewRow, DeliveryRow, NULL

\* Fan-out keeps every delivery, supersedes the queued openings it names, and
\* adds the deliveries of the new event.
LEMMA FanOutRows ==
  ASSUME TypeOK, NEW e, NEW n \in Nat \ {0}, NEW row
  PROVE  /\ DOMAIN FanOut(e, n, row) = DOMAIN deliveries \cup FannedOut(e, n)
         /\ Table(FanOut(e, n, row))
         /\ \A d \in DOMAIN deliveries :
              FanOut(e, n, row)[d] = Superseding(deliveries, MergedAway(e))[d]
         /\ \A d \in FannedOut(e, n) \ DOMAIN deliveries :
              FanOut(e, n, row)[d] = NewRow(d.sub, d.channel, e, row)
<1> DEFINE F == FanOut(e, n, row)
           kept == Superseding(deliveries, MergedAway(e))
<1>1. FannedOut(e, n) \subseteq DeliveryId
  BY DEF FannedOut, DeliveryId, Matching
<1>2. \A d \in FannedOut(e, n) : d.sub \in Subs
  BY <1>1 DEF DeliveryId
<1>3. Table(deliveries)
  BY DEF TypeOK, Table
<1>4. \A d \in DOMAIN deliveries : kept[d] \in DeliveryRow
  BY <1>3, SupersedingRows DEF Table
<1>5. DOMAIN F = DOMAIN deliveries \cup FannedOut(e, n)
  BY DEF FanOut
<1>6. \A d \in DOMAIN deliveries : F[d] = kept[d]
  BY DEF FanOut
<1>7. \A d \in FannedOut(e, n) \ DOMAIN deliveries : F[d] = NewRow(d.sub, d.channel, e, row)
  BY DEF FanOut
<1>8. \A d \in FannedOut(e, n) \ DOMAIN deliveries : F[d] \in DeliveryRow
  BY <1>2, <1>7, NewRowTyped
<1>9. \A d \in DOMAIN F : F[d] \in DeliveryRow
  BY <1>4, <1>5, <1>6, <1>8
<1>10. F = [d \in DOMAIN F |-> F[d]]
  BY DEF FanOut
<1>11. F \in [DOMAIN F -> DeliveryRow]
  BY <1>9, <1>10
<1>12. DOMAIN F \subseteq DeliveryId
  BY <1>1, <1>3, <1>5 DEF Table
<1> QED
  BY <1>5, <1>6, <1>7, <1>11, <1>12 DEF Table

\* The rules of an incident row keep its types.
LEMMA UpdateTyped ==
  ASSUME NEW row \in IncidentRow, NEW lifecycle, NEW at \in Nat
  PROVE  UpdatedIncident(row, lifecycle, at) \in IncidentRow
<1>1. OpenedRow(row, at) \in IncidentRow
  BY DEF OpenedRow, IncidentRow, NULL
<1>2. RecoveredRow(row, at) \in IncidentRow
  BY DEF RecoveredRow, IncidentRow, NULL
<1> QED
  BY <1>1, <1>2 DEF UpdatedIncident

-----------------------------------------------------------------------------
(* The inductive invariant.                                                *)

\* A tick that awaits a provider holds a claim on a row that exists; once the
\* provider acted, the row is among those sent.
ClaimsKept ==
  \A w \in Workers : Busy(w) =>
    /\ claim[w] \in Claim
    /\ claim[w].delivery \in DOMAIN deliveries
    /\ pc[w] = "acted" => claim[w].delivery \in sent
    /\ left[w] > 0

Queued == {"pending", "processing"}

\* The lease in a row is never older than the token of a claim on it, and a
\* row that went back to the queue is not due before that token is past.
TokensFence ==
  \A w \in Workers : Busy(w) =>
    LET token == claim[w].lease_until
        row == deliveries[claim[w].delivery]
    IN /\ token <= now + Lease
       /\ row.lease_until # NULL => token <= row.lease_until
       /\ row.lease_until = NULL /\ row.status \in Queued
            => token < row.next_attempt_at + Lease

IInv == TypeOK /\ ClaimsKept /\ TokensFence /\ TokensDiffer

-----------------------------------------------------------------------------
(* What a step may do to the delivery table.                               *)

RowMove(d) ==
  LET old == deliveries[d]
      new == deliveries'[d]
  IN \/ new = old
     \/ /\ old.status \in Queued /\ new.status \in {"failed", "superseded"}
        /\ new.lease_until = NULL
     \/ /\ old.status \in Queued /\ new.status = "delivered" /\ d \in sent
        /\ new.lease_until = NULL
     \/ /\ old.status \in Queued /\ new.status = "pending"
        /\ new.lease_until = NULL /\ new.next_attempt_at > now
     \/ /\ old.status \in Queued /\ new.status = "processing"
        /\ new.lease_until = now + Lease

RowsMove ==
  /\ Table(deliveries')
  /\ \A d \in DOMAIN deliveries : d \in DOMAIN deliveries' /\ RowMove(d)
  /\ \A d \in DOMAIN deliveries' :
       /\ d.event \in DOMAIN events'
       /\ d \notin DOMAIN deliveries => deliveries'[d].status \in {"pending", "suppressed"}

\* A step that leaves events and deliveries alone.
LEMMA NoMove ==
  ASSUME TypeOK, UNCHANGED <<events, deliveries>>
  PROVE  RowsMove
BY DEF TypeOK, RowsMove, RowMove, Table

\* The sweeps.
LEMMA StartTickMoves ==
  ASSUME TypeOK, NEW w \in Workers, StartTick(w)
  PROVE  RowsMove
<1> DEFINE D == ResolvedAway \cup UnauthorizedAway
           swept == Superseding(deliveries, D)
<1>1. Table(deliveries)
  BY DEF TypeOK, Table
<1>2. deliveries' = swept /\ events' = events
  BY DEF StartTick
<1>3. \A d \in D : d \in DOMAIN deliveries /\ deliveries[d].status \in Queued
  BY DEF ResolvedAway, UnauthorizedAway, Unheld, Queued
<1>4. /\ DOMAIN swept = DOMAIN deliveries
      /\ Table(swept)
      /\ \A d \in DOMAIN deliveries :
           /\ d \notin D => swept[d] = deliveries[d]
           /\ d \in D => swept[d].status = "superseded" /\ swept[d].lease_until = NULL
  <2> HIDE DEF D
  <2> QED BY <1>1, SupersedingRows
<1>5. \A d \in DOMAIN deliveries : RowMove(d)
  <2> HIDE DEF D, swept
  <2> QED BY <1>2, <1>3, <1>4 DEF RowMove
<1>6. \A d \in DOMAIN deliveries : d.event \in DOMAIN events
  BY DEF TypeOK
<1> QED
  <2> HIDE DEF D, swept
  <2> QED BY <1>2, <1>4, <1>5, <1>6 DEF RowsMove

\* The claim.
LEMMA ClaimMoves ==
  ASSUME TypeOK, NEW w \in Workers, NEW d \in DOMAIN deliveries, ClaimDelivery(w, d)
  PROVE  RowsMove
<1> DEFINE old == deliveries[d]
           attempts == old.attempt_count + 1
           token == now + Lease
           new == [old EXCEPT !.status = "processing", !.attempt_count = attempts,
                              !.lease_until = token]
<1>1. old \in DeliveryRow /\ now \in Nat /\ Lease \in Nat
  BY TimingAssumption DEF TypeOK
<1>2. attempts \in Nat /\ token \in Nat /\ "processing" \in Statuses
  BY <1>1, RowColumns DEF Statuses
<1>3. old.status \in Queued
  BY DEF ClaimDelivery, Claimable, Queued
<1>4. deliveries' = [deliveries EXCEPT ![d] = new] /\ events' = events
  BY DEF ClaimDelivery
<1>5. new = [old EXCEPT !.status = "processing", !.attempt_count = attempts,
                        !.lease_until = token]
  OBVIOUS
<1>6. new \in DeliveryRow /\ new.status = "processing" /\ new.lease_until = token
  <2> HIDE DEF old, attempts, token, new
  <2> QED BY <1>1, <1>2, <1>5 DEF DeliveryRow
<1>7. Table(deliveries')
  <2> HIDE DEF new
  <2> QED BY <1>4, <1>6 DEF TypeOK, Table
<1>8. \A x \in DOMAIN deliveries : x \in DOMAIN deliveries' /\ RowMove(x)
  <2> HIDE DEF new
  <2> QED BY <1>3, <1>4, <1>6 DEF RowMove
<1>9. \A x \in DOMAIN deliveries' : x \in DOMAIN deliveries /\ x.event \in DOMAIN events
  <2> HIDE DEF new
  <2> QED BY <1>4 DEF TypeOK
<1> QED
  BY <1>4, <1>7, <1>8, <1>9 DEF RowsMove

\* A claim that lost its lease changes no row; one that holds it ends its row.
LEMMA SettleMoves ==
  ASSUME TypeOK, NEW w \in Workers, NEW status \in {"failed", "superseded"},
         Settle(w, status), events' = events
  PROVE  RowsMove
<1>1. CASE ~HoldsLease(w)
  BY <1>1, NoMove DEF Settle
<1>2. CASE HoldsLease(w)
  <2> DEFINE d == claim[w].delivery
             old == deliveries[d]
             new == [old EXCEPT !.status = status, !.lease_until = NULL]
  <2>1. d \in DOMAIN deliveries /\ old.status \in Queued
    BY <1>2 DEF HoldsLease, Queued
  <2>2. old \in DeliveryRow
    BY <2>1 DEF TypeOK
  <2>3. new \in DeliveryRow /\ new.status = status /\ new.lease_until = NULL
    BY <2>2 DEF DeliveryRow, Statuses, NULL
  <2>4. deliveries' = [deliveries EXCEPT ![d] = new]
    BY <1>2 DEF Settle
  <2> HIDE DEF new
  <2>5. Table(deliveries')
    BY <2>3, <2>4 DEF TypeOK, Table
  <2>6. \A x \in DOMAIN deliveries : x \in DOMAIN deliveries' /\ RowMove(x)
    BY <2>1, <2>3, <2>4 DEF RowMove
  <2>7. \A x \in DOMAIN deliveries' : x \in DOMAIN deliveries /\ x.event \in DOMAIN events
    BY <2>4 DEF TypeOK
  <2> QED
    BY <2>5, <2>6, <2>7 DEF RowsMove
<1> QED BY <1>1, <1>2

\* The same for a row that goes back to the queue.
LEMMA RequeueMoves ==
  ASSUME TypeOK, NEW w \in Workers, NEW delay \in Nat \ {0},
         Requeue(w, delay), events' = events
  PROVE  RowsMove
<1>1. CASE ~HoldsLease(w)
  BY <1>1, NoMove DEF Requeue
<1>2. CASE HoldsLease(w)
  <2> DEFINE d == claim[w].delivery
             old == deliveries[d]
             due == now + delay
             new == [old EXCEPT !.status = "pending", !.next_attempt_at = due,
                                !.lease_until = NULL]
  <2>1. d \in DOMAIN deliveries /\ old.status \in Queued
    BY <1>2 DEF HoldsLease, Queued
  <2>2. old \in DeliveryRow /\ now \in Nat
    BY <2>1 DEF TypeOK
  <2>3. due \in Nat /\ due > now /\ NULL \in Nat /\ "pending" \in Statuses
    BY <2>2 DEF Statuses, NULL
  <2>4. deliveries' = [deliveries EXCEPT ![d] = new]
    BY <1>2 DEF Requeue
  <2>5. new = [old EXCEPT !.status = "pending", !.next_attempt_at = due, !.lease_until = NULL]
    OBVIOUS
  <2>6. /\ new \in DeliveryRow /\ new.status = "pending" /\ new.lease_until = NULL
        /\ new.next_attempt_at = due
    <3> HIDE DEF old, due, new
    <3> QED BY <2>2, <2>3, <2>5 DEF DeliveryRow
  <2> HIDE DEF due, new
  <2>7. Table(deliveries')
    BY <2>4, <2>6 DEF TypeOK, Table
  <2>8. \A x \in DOMAIN deliveries : x \in DOMAIN deliveries' /\ RowMove(x)
    BY <2>1, <2>3, <2>4, <2>6 DEF RowMove
  <2>9. \A x \in DOMAIN deliveries' : x \in DOMAIN deliveries /\ x.event \in DOMAIN events
    BY <2>4 DEF TypeOK
  <2> QED
    BY <2>7, <2>8, <2>9 DEF RowsMove
<1> QED BY <1>1, <1>2

\* A provider that refused, or did not answer.
LEMMA FailMoves ==
  ASSUME TypeOK, ClaimsKept, NEW w \in Workers, FailDelivery(w)
  PROVE  RowsMove
<1> DEFINE attempts == claim[w].attempt_count
<1>1. events' = events
  BY DEF FailDelivery, NextInBatch
<1>2. claim[w] \in Claim
  BY DEF FailDelivery, ClaimsKept, Busy
<1>3. attempts \in Nat \ {0}
  BY <1>2 DEF Claim
<1>4. CASE Settle(w, "superseded")
  BY <1>1, <1>4, SettleMoves
<1>5. CASE Settle(w, "failed")
  BY <1>1, <1>5, SettleMoves
<1>6. CASE attempts <= Len(RetryDelays) /\ Requeue(w, RetryDelays[attempts])
  <2>1. RetryDelays[attempts] \in Nat \ {0}
    BY <1>3, <1>6, TimingAssumption
  <2> QED BY <1>1, <1>6, <2>1, RequeueMoves
<1>7. Len(RetryDelays) \in Nat
  BY TimingAssumption
<1> QED
  BY <1>3, <1>4, <1>5, <1>6, <1>7 DEF FailDelivery

\* The claim that holds its lease ends its row, and may add the next reminder.
LEMMA CompleteMoves ==
  ASSUME TypeOK, ClaimsKept, NEW w \in Workers, CompleteDelivery(w)
  PROVE  RowsMove
<1> DEFINE d == claim[w].delivery
           old == deliveries[d]
           new == [old EXCEPT !.status = "delivered", !.delivered_at = now, !.lease_until = NULL]
           done == [deliveries EXCEPT ![d] = new]
           next == Successor(d)
<1>1. events' = events
  BY DEF CompleteDelivery, NextInBatch
<1>2. claim[w] \in Claim /\ d \in sent /\ d \in DOMAIN deliveries
  BY DEF CompleteDelivery, ClaimsKept, Busy
<1>3. old.status \in Queued /\ old \in DeliveryRow /\ now \in Nat
  BY <1>2 DEF CompleteDelivery, HoldsLease, Queued, TypeOK
<1>4. new = [old EXCEPT !.status = "delivered", !.delivered_at = now, !.lease_until = NULL]
  OBVIOUS
<1>5. new \in DeliveryRow /\ new.status = "delivered" /\ new.lease_until = NULL
  <2>1. "delivered" \in Statuses /\ NULL \in Nat
    BY DEF Statuses, NULL
  <2> HIDE DEF old, new
  <2> QED BY <1>3, <1>4, <2>1 DEF DeliveryRow
<1>6. Table(done) /\ DOMAIN done = DOMAIN deliveries
  <2> HIDE DEF new, d
  <2> QED BY <1>2, <1>5 DEF TypeOK, Table
<1>7. \/ deliveries' = done
      \/ deliveries' = [x \in DOMAIN deliveries \cup {next} |->
                          IF x = next THEN RepeatRow(w) ELSE done[x]]
         /\ next \notin DOMAIN deliveries
  BY DEF CompleteDelivery
<1>8. next \in DeliveryId /\ next.event = d.event
  BY <1>2 DEF Successor, Claim, DeliveryId
<1>9. RepeatRow(w) \in DeliveryRow /\ RepeatRow(w).status = "pending"
  <2>1. claim[w].rule \in RuleType
    BY <1>2 DEF Claim
  <2>2. now + claim[w].rule.cooldown \in Nat
    BY <1>3, <2>1 DEF RuleType
  <2>3. AfterQuietHours(claim[w].rule, EventOf(d), now + claim[w].rule.cooldown) \in Nat
    BY <2>2, AttemptTime
  <2> QED BY <1>3, <2>1, <2>3 DEF RepeatRow, DeliveryRow, Statuses, NULL
<1>10. \A x \in DOMAIN deliveries : done[x] = IF x = d THEN new ELSE deliveries[x]
  OBVIOUS
<1>11. \A x \in DOMAIN deliveries : x.event \in DOMAIN events
  BY DEF TypeOK
<1> HIDE DEF d, old, new, done, next
<1>12. \A x \in DOMAIN deliveries : x \in DOMAIN deliveries' /\ deliveries'[x] = done[x]
  BY <1>6, <1>7
<1>13. \A x \in DOMAIN deliveries : RowMove(x)
  BY <1>2, <1>3, <1>5, <1>10, <1>12 DEF RowMove, old
<1>14. Table(deliveries')
  BY <1>6, <1>7, <1>8, <1>9 DEF Table
<1>15. \A x \in DOMAIN deliveries' :
         /\ x.event \in DOMAIN events
         /\ x \notin DOMAIN deliveries => deliveries'[x].status \in {"pending", "suppressed"}
  BY <1>2, <1>6, <1>7, <1>8, <1>9, <1>11
<1> QED
  BY <1>1, <1>12, <1>13, <1>14, <1>15 DEF RowsMove

\* The event e is published, and `after` is the row of its incident then.
Published(e, after) ==
  /\ events' = Append(events, e)
  /\ LifecycleOf[e.type] \in Lifecycles => e.key # NoKey
  /\ e.episode = after.opened_at
  /\ IF HasIncident(e)
     THEN /\ KeyOf(e) \in IncidentKeys
          /\ after = UpdatedIncident(incidents[KeyOf(e)], LifecycleOf[e.type], e.at)
          /\ incidents' = [incidents EXCEPT ![KeyOf(e)] = after]
          /\ e.accepted = Accepts(incidents[KeyOf(e)], LifecycleOf[e.type], e.at)
     ELSE /\ incidents' = incidents
          /\ e.accepted
  /\ deliveries' = IF e.accepted THEN FanOut(e, Len(events) + 1, after) ELSE deliveries
  /\ UNCHANGED <<now, adminVars, workerVars, sent>>

\* Every call of emitNotification that is a step publishes an event.
LEMMA PublishStep ==
  ASSUME TypeOK, Publish
  PROVE  \E e \in Event, after \in IncidentRow : Published(e, after)
<1>1. PICK type \in EventTypes, key \in DedupeKeys \cup {NoKey}, priority \in Priorities,
          target \in Users \cup {Unset}, idempotency \in IdempotencyKeys \cup {NoIdempotencyKey},
          at \in {t \in 1..(now + Skew) : t + Backlog >= now} :
        Emit(type, key, at, priority, target, idempotency)
  BY DEF Publish
<1> DEFINE draft == [type |-> type, key |-> key, at |-> at, priority |-> priority,
                     target |-> target, idempotency |-> idempotency,
                     accepted |-> TRUE, episode |-> NULL]
           tracked == HasIncident(draft)
           row == IF key = NoKey THEN NoIncident ELSE incidents[KeyOf(draft)]
           after == IF tracked THEN UpdatedIncident(row, LifecycleOf[type], at) ELSE row
           accepted == tracked => Accepts(row, LifecycleOf[type], at)
           e == [draft EXCEPT !.accepted = accepted, !.episode = after.opened_at]
<1>2. at \in OccurrenceTime /\ at \in Nat
  BY DEF OccurrenceTime, NULL
<1>3. key # NoKey => KeyOf(draft) \in IncidentKeys
  BY CatalogAssumption DEF KeyOf, IncidentKeys
<1>4. row \in IncidentRow
  <2>1. NoIncident \in IncidentRow
    BY DEF NoIncident, IncidentRow, NULL
  <2>2. incidents \in [IncidentKeys -> IncidentRow]
    BY DEF TypeOK
  <2> QED BY <1>3, <2>1, <2>2
<1>5. after \in IncidentRow
  <2> HIDE DEF row, tracked
  <2> QED BY <1>2, <1>4, UpdateTyped
<1>6. accepted \in BOOLEAN /\ Accepts(row, LifecycleOf[type], at) \in BOOLEAN
  BY DEF Accepts, AcceptsOpening, AcceptsRecovery
<1>7. e \in Event
  <2>1. priority \in 1..5
    BY RulesAssumption
  <2>2. after.opened_at \in Nat
    BY <1>5 DEF IncidentRow
  <2>3. draft \in Event
    BY <1>2, <2>1 DEF Event, NULL
  <2>4. e = [draft EXCEPT !.accepted = accepted, !.episode = after.opened_at]
    OBVIOUS
  <2> HIDE DEF accepted, after, draft, e
  <2> QED BY <1>6, <2>2, <2>3, <2>4 DEF Event
<1>8. /\ e.type = type /\ e.key = key /\ e.at = at
      /\ e.accepted = accepted /\ e.episode = after.opened_at
      /\ draft.type = type /\ draft.key = key
  <2> HIDE DEF accepted, after
  <2> QED OBVIOUS
<1>9. KeyOf(e) = KeyOf(draft) /\ HasIncident(e) = tracked
  <2> HIDE DEF e, draft
  <2> QED BY <1>8 DEF KeyOf, HasIncident
<1>10. tracked <=> (key # NoKey /\ LifecycleOf[type] \in Lifecycles)
  BY DEF HasIncident
<1>11. /\ events' = Append(events, e)
       /\ LifecycleOf[type] \in Lifecycles => key # NoKey
       /\ incidents' = IF tracked THEN [incidents EXCEPT ![KeyOf(e)] = after] ELSE incidents
       /\ deliveries' = IF accepted THEN FanOut(e, Len(events) + 1, after) ELSE deliveries
       /\ UNCHANGED <<now, adminVars, workerVars, sent>>
  BY <1>1 DEF Emit
<1>12. tracked => row = incidents[KeyOf(e)] /\ KeyOf(e) \in IncidentKeys
  <2> HIDE DEF e, draft
  <2> QED BY <1>3, <1>9, <1>10
<1> HIDE DEF e, draft, row
<1>13. CASE tracked
  <2>1. after = UpdatedIncident(row, LifecycleOf[type], at)
        /\ accepted = Accepts(row, LifecycleOf[type], at)
    BY <1>6, <1>13
  <2> HIDE DEF tracked, after, accepted
  <2>2. Published(e, after)
    BY <1>8, <1>9, <1>11, <1>12, <1>13, <2>1 DEF Published
  <2> QED BY <1>5, <1>7, <2>2
<1>14. CASE ~tracked
  <2>1. accepted
    BY <1>14
  <2> HIDE DEF tracked, after, accepted
  <2>2. Published(e, after)
    BY <1>8, <1>9, <1>11, <1>14, <2>1 DEF Published
  <2> QED BY <1>5, <1>7, <2>2
<1> QED BY <1>13, <1>14

\* What publishing does to the tables, as far as types go.
EmitEffect(e, row) ==
  /\ events' = Append(events, e)
  /\ incidents' \in [IncidentKeys -> IncidentRow]
  /\ deliveries' = deliveries \/ deliveries' = FanOut(e, Len(events) + 1, row)
  /\ UNCHANGED <<now, adminVars, workerVars, sent>>

LEMMA PublishEffect ==
  ASSUME TypeOK, Publish
  PROVE  \E e \in Event, row \in IncidentRow : EmitEffect(e, row)
<1>1. PICK e \in Event, row \in IncidentRow : Published(e, row)
  BY PublishStep
<1>2. incidents \in [IncidentKeys -> IncidentRow]
  BY DEF TypeOK
<1>3. incidents' \in [IncidentKeys -> IncidentRow]
  BY <1>1, <1>2 DEF Published
<1> QED BY <1>1, <1>3 DEF Published, EmitEffect

LEMMA PublishMoves ==
  ASSUME TypeOK, Publish
  PROVE  RowsMove
<1>1. PICK e \in Event, row \in IncidentRow : EmitEffect(e, row)
  BY PublishEffect
<1> DEFINE n == Len(events) + 1
<1>2. /\ n \in Nat \ {0} /\ events' = Append(events, e) /\ DOMAIN events \subseteq DOMAIN events'
      /\ n \in DOMAIN events'
  BY <1>1 DEF EmitEffect, TypeOK
<1>3. \A d \in DOMAIN deliveries : d.event \in DOMAIN events'
  BY <1>2 DEF TypeOK
<1>4. Table(deliveries)
  BY DEF TypeOK, Table
<1>5. CASE deliveries' = deliveries
  BY <1>3, <1>4, <1>5 DEF RowsMove, RowMove
<1>6. CASE deliveries' = FanOut(e, n, row)
  <2>1. /\ DOMAIN deliveries' = DOMAIN deliveries \cup FannedOut(e, n)
        /\ Table(deliveries')
        /\ \A d \in DOMAIN deliveries :
             deliveries'[d] = Superseding(deliveries, MergedAway(e))[d]
        /\ \A d \in FannedOut(e, n) \ DOMAIN deliveries :
             deliveries'[d] = NewRow(d.sub, d.channel, e, row)
    <3> HIDE DEF n
    <3>1. n \in Nat \ {0}
      BY <1>2
    <3> QED BY <1>6, <3>1, FanOutRows
  <2>2. \A d \in MergedAway(e) : deliveries[d].status = "pending"
    BY DEF MergedAway
  <2>3. \A d \in DOMAIN deliveries : RowMove(d)
    <3> DEFINE kept == Superseding(deliveries, MergedAway(e))
    <3>1. \A d \in DOMAIN deliveries :
            /\ d \notin MergedAway(e) => kept[d] = deliveries[d]
            /\ d \in MergedAway(e) => kept[d].status = "superseded" /\ kept[d].lease_until = NULL
      BY <1>4, SupersedingRows
    <3> HIDE DEF kept
    <3> QED BY <2>1, <2>2, <3>1 DEF RowMove, Queued, kept
  <2>4. \A d \in FannedOut(e, n) : d.event \in DOMAIN events'
    BY <1>2 DEF FannedOut
  <2>5. \A d \in FannedOut(e, n) \ DOMAIN deliveries :
          deliveries'[d].status \in {"pending", "suppressed"}
    BY <2>1 DEF NewRow, InitialStatus
  <2> QED BY <1>3, <2>1, <2>3, <2>4, <2>5 DEF RowsMove
<1> QED BY <1>1, <1>5, <1>6 DEF EmitEffect

LEMMA NextMoves ==
  ASSUME TypeOK, ClaimsKept, [Next]_vars
  PROVE  RowsMove
<1>1. CASE Publish
  BY <1>1, PublishMoves
<1>2. ASSUME NEW w \in Workers, WorkerStep(w)
      PROVE  RowsMove
  <2>1. CASE StartTick(w)
    BY <2>1, StartTickMoves
  <2>2. ASSUME NEW d \in DOMAIN deliveries, ClaimDelivery(w, d)
        PROVE  RowsMove
    BY <2>2, ClaimMoves
  <2>3. CASE EndTick(w) \/ ProviderActs(w)
    BY <2>3, NoMove DEF EndTick, ProviderActs
  <2>4. CASE SupersedeOvertaken(w)
    BY <2>4, SettleMoves DEF SupersedeOvertaken, NextInBatch
  <2>5. CASE CompleteDelivery(w)
    BY <2>5, CompleteMoves
  <2>6. CASE CompletionFails(w)
    BY <2>6, SettleMoves DEF CompletionFails, NextInBatch
  <2>7. CASE FailDelivery(w)
    BY <2>7, FailMoves
  <2> QED
    BY <1>2, <2>1, <2>2, <2>3, <2>4, <2>5, <2>6, <2>7 DEF WorkerStep
<1>3. CASE Manage
  BY <1>3, NoMove DEF Manage, SetUserActive, SetMember, SetProjectEnabled,
                      SaveSubscription, DeleteSubscription
<1>4. CASE Advance \/ Crash
  BY <1>4, NoMove DEF Advance, Crash
<1>5. CASE UNCHANGED vars
  BY <1>5, NoMove DEF vars
<1> QED
  BY <1>1, <1>2, <1>3, <1>4, <1>5 DEF Next

-----------------------------------------------------------------------------
(* What a step may do to the ticks.                                        *)

WorkerTypes ==
  /\ pc \in [Workers -> {"idle", "loop", "sending", "acted"}]
  /\ left \in [Workers -> Nat]
  /\ claim \in [Workers -> Claim \cup {NoClaim}]
  /\ turn \in Workers \cup {Free}
  /\ sent \subseteq DOMAIN deliveries

\* Every claim held after the step was held before it.
ClaimsPersist ==
  \A w \in Workers : Busy(w)' => Busy(w) /\ claim'[w] = claim[w]

LEMMA TicksUnchanged ==
  ASSUME TypeOK, ClaimsKept, RowsMove, UNCHANGED <<workerVars, sent>>
  PROVE  WorkerTypes' /\ ClaimsKept' /\ ClaimsPersist
BY DEF TypeOK, ClaimsKept, RowsMove, WorkerTypes, ClaimsPersist, Busy, workerVars

LEMMA StartTickTicks ==
  ASSUME TypeOK, ClaimsKept, RowsMove, NEW w \in Workers, StartTick(w)
  PROVE  WorkerTypes' /\ ClaimsKept' /\ ClaimsPersist
BY TimingAssumption
   DEF TypeOK, ClaimsKept, RowsMove, WorkerTypes, ClaimsPersist, Busy, StartTick

LEMMA ClaimTicks ==
  ASSUME TypeOK, ClaimsKept, RowsMove, NEW w \in Workers, NEW d \in DOMAIN deliveries,
         ClaimDelivery(w, d)
  PROVE  WorkerTypes' /\ ClaimsKept'
<1> DEFINE new == [delivery |-> d, lease_until |-> now + Lease,
                   attempt_count |-> deliveries[d].attempt_count + 1, rule |-> subs[d.sub]]
<1>1. new \in Claim
  <2>1. d \in DeliveryId /\ d.sub \in Subs /\ deliveries[d] \in DeliveryRow
    BY DEF TypeOK, DeliveryId
  <2>2. deliveries[d].attempt_count + 1 \in Nat \ {0}
    BY <2>1, RowColumns
  <2>3. now + Lease \in Nat /\ subs[d.sub] \in RuleType
    BY <2>1, TimingAssumption DEF TypeOK
  <2> QED BY <2>1, <2>2, <2>3 DEF Claim
<1>2. /\ claim' = [claim EXCEPT ![w] = new] /\ new.delivery = d
      /\ pc' = [pc EXCEPT ![w] = "sending"] /\ turn' = Free /\ left[w] > 0
      /\ UNCHANGED <<left, sent>>
  BY DEF ClaimDelivery
<1> HIDE DEF new
<1>3. WorkerTypes'
  BY <1>1, <1>2 DEF TypeOK, RowsMove, WorkerTypes
<1>4. ClaimsKept'
  BY <1>1, <1>2 DEF TypeOK, ClaimsKept, RowsMove, Busy
<1> QED BY <1>3, <1>4

LEMMA EndTickTicks ==
  ASSUME TypeOK, ClaimsKept, RowsMove, NEW w \in Workers, EndTick(w)
  PROVE  WorkerTypes' /\ ClaimsKept' /\ ClaimsPersist
BY DEF TypeOK, ClaimsKept, RowsMove, WorkerTypes, ClaimsPersist, Busy, EndTick

LEMMA ProviderTicks ==
  ASSUME TypeOK, ClaimsKept, RowsMove, NEW w \in Workers, ProviderActs(w)
  PROVE  WorkerTypes' /\ ClaimsKept' /\ ClaimsPersist
BY DEF TypeOK, ClaimsKept, RowsMove, WorkerTypes, ClaimsPersist, Busy, ProviderActs

LEMMA NextInBatchTicks ==
  ASSUME TypeOK, ClaimsKept, RowsMove, NEW w \in Workers, Busy(w), NextInBatch(w)
  PROVE  WorkerTypes' /\ ClaimsKept' /\ ClaimsPersist
<1>1. left[w] \in Nat /\ left[w] > 0 /\ left[w] - 1 \in Nat
  BY DEF TypeOK, ClaimsKept
<1> QED
  BY <1>1 DEF TypeOK, ClaimsKept, RowsMove, WorkerTypes, ClaimsPersist, Busy, NextInBatch

LEMMA CrashTicks ==
  ASSUME TypeOK, RowsMove, Crash
  PROVE  WorkerTypes' /\ ClaimsKept' /\ ClaimsPersist
BY DEF TypeOK, ClaimsKept, RowsMove, WorkerTypes, ClaimsPersist, Busy, Crash

\* What a step may do to the claims: it takes one, or it takes none.
LEMMA NextTicks ==
  ASSUME TypeOK, ClaimsKept, RowsMove, [Next]_vars
  PROVE  /\ WorkerTypes' /\ ClaimsKept'
         /\ \/ ClaimsPersist
            \/ \E w \in Workers, d \in DOMAIN deliveries : ClaimDelivery(w, d)
<1>1. CASE Publish
  BY <1>1, PublishEffect, TicksUnchanged DEF EmitEffect
<1>2. ASSUME NEW w \in Workers, WorkerStep(w)
      PROVE  /\ WorkerTypes' /\ ClaimsKept'
             /\ \/ ClaimsPersist
                \/ \E x \in Workers, d \in DOMAIN deliveries : ClaimDelivery(x, d)
  <2>1. CASE StartTick(w)
    BY <2>1, StartTickTicks
  <2>2. ASSUME NEW d \in DOMAIN deliveries, ClaimDelivery(w, d)
        PROVE  WorkerTypes' /\ ClaimsKept'
    BY <2>2, ClaimTicks
  <2>3. CASE EndTick(w)
    BY <2>3, EndTickTicks
  <2>4. CASE ProviderActs(w)
    BY <2>4, ProviderTicks
  <2>5. CASE SupersedeOvertaken(w) \/ CompleteDelivery(w) \/ CompletionFails(w) \/ FailDelivery(w)
    <3>1. Busy(w) /\ NextInBatch(w)
      BY <2>5 DEF SupersedeOvertaken, CompleteDelivery, CompletionFails, FailDelivery, Busy
    <3> QED BY <3>1, NextInBatchTicks
  <2> QED
    BY <1>2, <2>1, <2>2, <2>3, <2>4, <2>5 DEF WorkerStep
<1>3. CASE Manage
  BY <1>3, TicksUnchanged DEF Manage, SetUserActive, SetMember, SetProjectEnabled,
                              SaveSubscription, DeleteSubscription
<1>4. CASE Advance
  BY <1>4, TicksUnchanged DEF Advance
<1>5. CASE Crash
  BY <1>5, CrashTicks
<1>6. CASE UNCHANGED vars
  BY <1>6, TicksUnchanged DEF vars
<1> QED
  BY <1>1, <1>2, <1>3, <1>4, <1>5, <1>6 DEF Next

-----------------------------------------------------------------------------
(* Types.                                                                  *)

AdminTypes ==
  /\ now \in Nat \ {0}
  /\ activeUsers \subseteq Users
  /\ members \subseteq Projects \X Users
  /\ enabledProjects \subseteq Projects
  /\ subs \in [Subs -> RuleType]

LedgerTypes ==
  /\ events \in Seq(Event)
  /\ incidents \in [IncidentKeys -> IncidentRow]

LEMMA WorkerStepKeeps ==
  ASSUME NEW w \in Workers, WorkerStep(w)
  PROVE  UNCHANGED <<now, adminVars, events, incidents>>
BY DEF WorkerStep, StartTick, ClaimDelivery, EndTick, ProviderActs, SupersedeOvertaken,
       CompleteDelivery, CompletionFails, FailDelivery, NextInBatch

LEMMA ManageTypes ==
  ASSUME TypeOK, Manage
  PROVE  AdminTypes' /\ UNCHANGED <<now, events, incidents>>
<1>1. ASSUME NEW u \in ManagedUsers, SetUserActive(u)
      PROVE  AdminTypes' /\ UNCHANGED <<now, events, incidents>>
  BY <1>1, UsersAssumption DEF TypeOK, AdminTypes, SetUserActive
<1>2. ASSUME NEW u \in ManagedUsers, NEW p \in Projects, SetMember(p, u)
      PROVE  AdminTypes' /\ UNCHANGED <<now, events, incidents>>
  BY <1>2, UsersAssumption DEF TypeOK, AdminTypes, SetMember
<1>3. ASSUME NEW p \in ManagedProjects, SetProjectEnabled(p)
      PROVE  AdminTypes' /\ UNCHANGED <<now, events, incidents>>
  BY <1>3, UsersAssumption DEF TypeOK, AdminTypes, SetProjectEnabled
<1>4. ASSUME NEW s \in ManagedSubs, DeleteSubscription(s)
      PROVE  AdminTypes' /\ UNCHANGED <<now, events, incidents>>
  <2>1. \A rule \in RuleType : [rule EXCEPT !.enabled = FALSE] \in RuleType
    BY DEF RuleType
  <2>2. subs' \in [Subs -> RuleType]
    <3>1. subs' = [subs EXCEPT ![s] = [subs[s] EXCEPT !.enabled = FALSE]]
      BY <1>4 DEF DeleteSubscription
    <3>2. s \in Subs => [subs[s] EXCEPT !.enabled = FALSE] \in RuleType
      BY <2>1 DEF TypeOK
    <3> DEFINE deleted == [subs[s] EXCEPT !.enabled = FALSE]
    <3> HIDE DEF deleted
    <3> QED BY <3>1, <3>2 DEF TypeOK, deleted
  <2> QED
    BY <1>4, <2>2 DEF TypeOK, AdminTypes, DeleteSubscription
<1>5. ASSUME NEW s \in ManagedSubs, NEW rule \in Rules, SaveSubscription(s, rule)
      PROVE  AdminTypes' /\ UNCHANGED <<now, events, incidents>>
  BY <1>5, RulesAssumption DEF TypeOK, AdminTypes, SaveSubscription
<1> QED
  BY <1>1, <1>2, <1>3, <1>4, <1>5 DEF Manage

LEMMA NextTypes ==
  ASSUME TypeOK, [Next]_vars
  PROVE  AdminTypes' /\ LedgerTypes' /\ now' >= now
<1>1. CASE Publish
  <2>1. PICK e \in Event, row \in IncidentRow : EmitEffect(e, row)
    BY <1>1, PublishEffect
  <2>2. Append(events, e) \in Seq(Event)
    BY DEF TypeOK
  <2> QED BY <2>1, <2>2 DEF EmitEffect, TypeOK, AdminTypes, LedgerTypes, adminVars
<1>2. ASSUME NEW w \in Workers, WorkerStep(w)
      PROVE  AdminTypes' /\ LedgerTypes' /\ now' >= now
  BY <1>2, WorkerStepKeeps DEF TypeOK, AdminTypes, LedgerTypes, adminVars
<1>3. CASE Manage
  BY <1>3, ManageTypes DEF TypeOK, LedgerTypes
<1>4. CASE Advance
  BY <1>4 DEF Advance, TypeOK, AdminTypes, LedgerTypes, adminVars
<1>5. CASE Crash \/ UNCHANGED vars
  BY <1>5 DEF Crash, vars, TypeOK, AdminTypes, LedgerTypes, adminVars
<1> QED
  BY <1>1, <1>2, <1>3, <1>4, <1>5 DEF Next

\* The types, and what a running tick relies on, are inductive.
LEMMA TypesKept ==
  ASSUME TypeOK, ClaimsKept, [Next]_vars
  PROVE  TypeOK' /\ ClaimsKept'
<1>1. RowsMove
  BY NextMoves
<1>2. AdminTypes' /\ LedgerTypes'
  BY NextTypes
<1>3. WorkerTypes' /\ ClaimsKept'
  BY <1>1, NextTicks
<1> QED
  BY <1>1, <1>2, <1>3 DEF TypeOK, AdminTypes, LedgerTypes, WorkerTypes, RowsMove, Table

LEMMA InitHolds ==
  ASSUME Init
  PROVE  IInv
<1>1. \A w \in Workers : ~Busy(w)
  BY DEF Init, Busy
<1>2. NoIncident \in IncidentRow
  BY DEF NoIncident, IncidentRow, NULL
<1>3. DOMAIN deliveries = {} /\ events = <<>>
  BY DEF Init
<1>4. TypeOK
  BY <1>2, <1>3, RulesAssumption DEF Init, TypeOK
<1> QED
  BY <1>1, <1>4 DEF IInv, ClaimsKept, TokensFence, TokensDiffer

-----------------------------------------------------------------------------
(* The tokens.                                                             *)

\* A claim that persists stays fenced, whatever the step does to its row.
LEMMA FenceKept ==
  ASSUME IInv, RowsMove, NEW w \in Workers, Busy(w), claim'[w] = claim[w],
         now \in Nat \ {0}, now' \in Nat, now' >= now
  PROVE  LET token == claim'[w].lease_until
             row == deliveries'[claim'[w].delivery]
         IN /\ token <= now' + Lease
            /\ row.lease_until # NULL => token <= row.lease_until
            /\ row.lease_until = NULL /\ row.status \in Queued
                 => token < row.next_attempt_at + Lease
<1> DEFINE token == claim[w].lease_until
           d == claim[w].delivery
           old == deliveries[d]
           new == deliveries'[d]
<1>1. /\ token \in Nat /\ d \in DOMAIN deliveries
      /\ Lease \in Nat
  BY TimingAssumption DEF IInv, ClaimsKept, Claim
<1>2. /\ token <= now + Lease
      /\ old.lease_until # NULL => token <= old.lease_until
      /\ old.lease_until = NULL /\ old.status \in Queued => token < old.next_attempt_at + Lease
  BY DEF IInv, TokensFence
<1>3. RowMove(d) /\ new \in DeliveryRow
  BY <1>1 DEF RowsMove, Table
<1>4. new.next_attempt_at \in Nat
  BY <1>3, RowColumns
<1>5. \/ new = old
      \/ new.lease_until = NULL /\ new.status \notin Queued
      \/ new.lease_until = NULL /\ new.next_attempt_at > now
      \/ new.lease_until = now + Lease
  BY <1>3 DEF RowMove, Queued
<1> HIDE DEF token, d, old, new
<1>6. token <= now' + Lease
  BY <1>1, <1>2
<1>7. new.lease_until # NULL => token <= new.lease_until
  BY <1>1, <1>2, <1>5
<1>8. new.lease_until = NULL /\ new.status \in Queued => token < new.next_attempt_at + Lease
  BY <1>1, <1>2, <1>4, <1>5 DEF NULL
<1> QED
  BY <1>6, <1>7, <1>8 DEF token, d, new

\* A row is claimed after every token of an earlier claim on it has passed.
LEMMA TokenPassed ==
  ASSUME IInv, NEW w \in Workers, Busy(w), Claimable(claim[w].delivery)
  PROVE  claim[w].lease_until < now + Lease
<1> DEFINE token == claim[w].lease_until
           row == deliveries[claim[w].delivery]
<1>1. /\ token \in Nat /\ row \in DeliveryRow /\ Lease \in Nat /\ now \in Nat
  BY TimingAssumption DEF IInv, TypeOK, ClaimsKept, Claim
<1>2. row.next_attempt_at \in Nat /\ row.lease_until \in Nat
  BY <1>1, RowColumns
<1>3. /\ row.lease_until # NULL => token <= row.lease_until
      /\ row.lease_until = NULL /\ row.status \in Queued => token < row.next_attempt_at + Lease
  BY DEF IInv, TokensFence
<1>4. /\ row.status \in Queued /\ row.next_attempt_at <= now
      /\ row.lease_until = NULL \/ row.lease_until < now
  BY DEF Claimable, Queued
<1> HIDE DEF token, row
<1>5. token < now + Lease
  BY <1>1, <1>2, <1>3, <1>4
<1> QED BY <1>5 DEF token

LEMMA TokensKept ==
  ASSUME IInv, [Next]_vars
  PROVE  TokensFence' /\ TokensDiffer'
<1>1. RowsMove
  BY NextMoves DEF IInv
<1>2. now \in Nat \ {0} /\ now' \in Nat /\ now' >= now
  BY NextTypes DEF IInv, TypeOK, AdminTypes
<1>3. CASE ClaimsPersist
  <2>1. TokensFence'
    BY <1>1, <1>2, <1>3, FenceKept DEF TokensFence, ClaimsPersist
  <2>2. TokensDiffer'
    BY <1>3 DEF IInv, TokensDiffer, ClaimsPersist
  <2> QED BY <2>1, <2>2
<1>4. ASSUME NEW w \in Workers, NEW d \in DOMAIN deliveries, ClaimDelivery(w, d)
      PROVE  TokensFence' /\ TokensDiffer'
  <2>1. /\ claim'[w].delivery = d /\ claim'[w].lease_until = now + Lease /\ Busy(w)'
        /\ now' = now /\ Claimable(d)
    BY <1>4 DEF ClaimDelivery, IInv, TypeOK, Busy
  <2>2. deliveries'[d].lease_until = now + Lease /\ now + Lease \in Nat /\ now + Lease # NULL
    <3>1. deliveries' = [deliveries EXCEPT ![d] =
                           [deliveries[d] EXCEPT !.status = "processing",
                                                 !.attempt_count = deliveries[d].attempt_count + 1,
                                                 !.lease_until = now + Lease]]
      BY <1>4 DEF ClaimDelivery
    <3>2. deliveries[d] \in DeliveryRow
      BY DEF IInv, TypeOK
    <3>3. deliveries'[d].lease_until = now + Lease
      BY <3>1, <3>2 DEF DeliveryRow
    <3> QED BY <1>2, <3>3, TimingAssumption DEF NULL
  <2>3. \A x \in Workers \ {w} : Busy(x)' => Busy(x) /\ claim'[x] = claim[x]
    BY <1>4 DEF ClaimDelivery, IInv, TypeOK, Busy
  <2>4. TokensFence'
    <3>1. ASSUME NEW x \in Workers \ {w}, Busy(x)'
          PROVE  LET token == claim'[x].lease_until
                     row == deliveries'[claim'[x].delivery]
                 IN /\ token <= now' + Lease
                    /\ row.lease_until # NULL => token <= row.lease_until
                    /\ row.lease_until = NULL /\ row.status \in Queued
                         => token < row.next_attempt_at + Lease
      BY <1>1, <1>2, <2>3, <3>1, FenceKept
    <3> QED BY <2>1, <2>2, <3>1 DEF TokensFence
  <2>5. \A x \in Workers \ {w} :
          Busy(x)' /\ claim'[x].delivery = d => claim'[x].lease_until # now + Lease
    <3>1. \A x \in Workers \ {w} : Busy(x)' /\ claim'[x].delivery = d
            => claim'[x].lease_until < now + Lease /\ claim'[x].lease_until \in Nat
      BY <2>1, <2>3, TokenPassed DEF IInv, ClaimsKept, Claim
    <3> QED BY <2>2, <3>1
  <2>6. TokensDiffer'
    BY <2>1, <2>3, <2>5 DEF IInv, TokensDiffer
  <2> QED BY <2>4, <2>6
<1> QED
  BY <1>1, <1>3, <1>4, NextTicks DEF IInv

LEMMA IInvKept ==
  ASSUME IInv, [Next]_vars
  PROVE  IInv'
BY TypesKept, TokensKept DEF IInv

-----------------------------------------------------------------------------
(* The theorems.                                                           *)

\* Every reachable state of the service, with the settings, ticks and crashes
\* it allows, has the types of the tables of notification-service.ts.
THEOREM NotificationTypes == Spec => []TypeOK
<1>1. Spec => []IInv
  BY InitHolds, IInvKept, PTL DEF Spec
<1>2. IInv => TypeOK
  BY DEF IInv
<1> QED BY <1>1, <1>2, PTL

\* However many ticks overlap, and however long each awaits its provider, two
\* of them never hold one delivery under the same lease_until, so the updates
\* that end processDeliveries and failDelivery can tell the holder of the lease
\* from a tick that lost it.
THEOREM NotificationTokens == Spec => []TokensDiffer
<1>1. Spec => []IInv
  BY InitHolds, IInvKept, PTL DEF Spec
<1>2. IInv => TokensDiffer
  BY DEF IInv
<1> QED BY <1>1, <1>2, PTL

-----------------------------------------------------------------------------
(* The delivery table is the outbox of Outbox.tla.                         *)

\* A step that acts on no message writes the outbox.
LEMMA WriteStep ==
  ASSUME IInv, RowsMove, sent' = sent
  PROVE  AtLeastOnce!Write
<1> DEFINE stage == [d \in DOMAIN deliveries |-> StageOf(deliveries[d].status)]
<1>1. /\ DOMAIN stage = DOMAIN deliveries /\ DOMAIN stage' = DOMAIN deliveries'
      /\ DOMAIN deliveries \subseteq DOMAIN deliveries'
      /\ DOMAIN deliveries' \subseteq DeliveryId
  BY DEF RowsMove, Table
<1>2. ASSUME NEW d \in DOMAIN deliveries'
      PROVE  AtLeastOnce!Moves(d)
  <2>1. stage'[d] = StageOf(deliveries'[d].status)
    OBVIOUS
  <2>2. CASE d \in DOMAIN deliveries
    <3>1. stage[d] = StageOf(deliveries[d].status) /\ RowMove(d)
      BY <2>2 DEF RowsMove
    <3> QED
      BY <2>1, <2>2, <3>1 DEF RowMove, StageOf, Queued, AtLeastOnce!Moves
  <2>3. CASE d \notin DOMAIN deliveries
    <3>1. deliveries'[d].status \in {"pending", "suppressed"}
      BY <1>2, <2>3 DEF RowsMove
    <3> QED
      BY <2>1, <2>3, <3>1 DEF StageOf, AtLeastOnce!Moves
  <2> QED BY <2>2, <2>3
<1> QED
  BY <1>1, <1>2 DEF AtLeastOnce!Write

LEMMA OutboxStep ==
  ASSUME IInv, [Next]_vars
  PROVE  AtLeastOnce!Next
<1>1. RowsMove
  BY NextMoves DEF IInv
<1>2. CASE sent' = sent
  BY <1>1, <1>2, WriteStep DEF AtLeastOnce!Next
<1>3. ASSUME NEW w \in Workers, ProviderActs(w)
      PROVE  AtLeastOnce!Next
  <2>1. claim[w].delivery \in DOMAIN deliveries
    BY <1>3 DEF ProviderActs, IInv, ClaimsKept, Busy
  <2>2. sent' = sent \cup {claim[w].delivery} /\ deliveries' = deliveries
    BY <1>3 DEF ProviderActs
  <2> QED
    BY <2>1, <2>2 DEF AtLeastOnce!Next, AtLeastOnce!Send
<1>4. sent' = sent \/ \E w \in Workers : ProviderActs(w)
  <2>1. CASE Publish
    BY <2>1, PublishEffect DEF EmitEffect, IInv
  <2>2. ASSUME NEW w \in Workers, WorkerStep(w)
        PROVE  sent' = sent \/ ProviderActs(w)
    <3>1. \A d \in DOMAIN deliveries : ClaimDelivery(w, d) => sent' = sent
      BY DEF ClaimDelivery
    <3>2. SupersedeOvertaken(w) \/ CompleteDelivery(w) \/ CompletionFails(w) \/ FailDelivery(w)
            => NextInBatch(w)
      BY DEF SupersedeOvertaken, CompleteDelivery, CompletionFails, FailDelivery
    <3> QED BY <2>2, <3>1, <3>2 DEF WorkerStep, StartTick, EndTick, NextInBatch
  <2>3. CASE Manage
    BY <2>3 DEF Manage, SetUserActive, SetMember, SetProjectEnabled, SaveSubscription,
                DeleteSubscription
  <2>4. CASE Advance \/ Crash \/ UNCHANGED vars
    BY <2>4 DEF Advance, Crash, vars
  <2> QED BY <2>1, <2>2, <2>3, <2>4 DEF Next
<1> QED BY <1>2, <1>3, <1>4

\* The delivery table is a durable at-least-once outbox: no step of the service,
\* whatever lease expired, whatever answer came late and wherever it crashed,
\* loses a delivery, reports one done that no provider acted on, or revives one
\* that came to an end.
THEOREM NotificationImplementsOutbox == Spec => ImplementsOutbox
<1>1. Init => AtLeastOnce!Init
  BY DEF Init, AtLeastOnce!Init
<1>2. Spec => []IInv
  BY InitHolds, IInvKept, PTL DEF Spec
<1>3. IInv /\ [Next]_vars
        => [AtLeastOnce!Next]_<<[d \in DOMAIN deliveries |-> StageOf(deliveries[d].status)], sent>>
  BY OutboxStep
<1> QED
  BY <1>1, <1>2, <1>3, PTL DEF Spec, ImplementsOutbox, AtLeastOnce!Spec
=============================================================================
