---------------------------- MODULE EpisodeProofs ----------------------------
(***************************************************************************)
(* Proofs about the episodes of incidents and the routes that announce     *)
(* them, whatever was published and in whatever order.                     *)
(*                                                                         *)
(* The occurrence time of an opening tells the episodes of its incident    *)
(* apart.  The invariant needs the watermark of the incident row: no       *)
(* accepted opening is later than it, so an episode that begins after a    *)
(* recovery begins after every opening of the earlier ones.  What the row  *)
(* keeps of recoveries makes an opening they ended stay ended, and that    *)
(* with the times a delivery row keeps gives what a route is spared.       *)
(***************************************************************************)
EXTENDS NotificationProofs

\* An open row was last refreshed no earlier than it was opened.
RowSound(row) == row.status = "open" => row.opened_at <= row.last_opened_at

\* What the row of an incident remembers of an opening it accepted.
Remembered(e, row) ==
  /\ row.status \in {"open", "resolved"}
  /\ e.episode <= e.at /\ e.at <= Watermark(row)
  /\ row.status = "open" => e.episode = row.opened_at \/ e.at < row.opened_at

EpisodeInv ==
  /\ \A k \in IncidentKeys : RowSound(incidents[k])
  /\ \A i \in DOMAIN events :
       events[i].accepted /\ IsOpening(events[i]) =>
         /\ KeyOf(events[i]) \in IncidentKeys
         /\ Remembered(events[i], incidents[KeyOf(events[i])])

-----------------------------------------------------------------------------
(* The rules of a row.                                                     *)

LEMMA RulesSound ==
  ASSUME NEW row \in IncidentRow, NEW lifecycle \in Lifecycles, NEW at \in OccurrenceTime,
         RowSound(row)
  PROVE  RowSound(UpdatedIncident(row, lifecycle, at))
<1> DEFINE opened == OpenedRow(row, at)
           recovered == RecoveredRow(row, at)
<1>1. lifecycle = "opened" /\ AcceptsOpening(row, at) => RowSound(opened)
  BY DEF AcceptsOpening, OpenedRow, RowSound, IncidentRow, OccurrenceTime, NULL
<1>2. RowSound(recovered)
  BY DEF RecoveredRow, RowSound, IncidentRow
<1> QED
  BY <1>1, <1>2 DEF UpdatedIncident

\* The openings a row remembers it remembers after any event.
LEMMA RulesRemember ==
  ASSUME NEW row \in IncidentRow, NEW lifecycle \in Lifecycles, NEW at \in OccurrenceTime,
         NEW e \in Event, Remembered(e, row)
  PROVE  Remembered(e, UpdatedIncident(row, lifecycle, at))
<1>1. e.at \in Nat /\ e.episode \in Nat
  BY DEF Event, OccurrenceTime, NULL
<1>2. AcceptsOpening(row, at) => Remembered(e, OpenedRow(row, at))
  BY <1>1 DEF AcceptsOpening, OpenedRow, Remembered, Watermark, IncidentRow, OccurrenceTime, NULL
<1>3. AcceptsRecovery(row, at) \/ (row.status = "resolved" /\ at > row.resolved_at)
        => Remembered(e, RecoveredRow(row, at))
  BY <1>1 DEF AcceptsRecovery, RecoveredRow, Remembered, Watermark, IncidentRow, OccurrenceTime, NULL
<1> QED
  BY <1>2, <1>3 DEF UpdatedIncident

\* An opening that is accepted is remembered as one of the episode in progress.
LEMMA AcceptedRemembered ==
  ASSUME NEW row \in IncidentRow, NEW e \in Event, RowSound(row),
         Accepts(row, "opened", e.at),
         e.episode = UpdatedIncident(row, "opened", e.at).opened_at
  PROVE  Remembered(e, UpdatedIncident(row, "opened", e.at))
<1>1. e.at \in Nat
  BY DEF Event, OccurrenceTime, NULL
<1>2. AcceptsOpening(row, e.at)
  BY DEF Accepts
<1>3. UpdatedIncident(row, "opened", e.at) = OpenedRow(row, e.at)
  BY <1>2 DEF UpdatedIncident
<1>4. e.episode = OpenedRow(row, e.at).opened_at
  BY <1>3
<1>5. Remembered(e, OpenedRow(row, e.at))
  BY <1>1, <1>2, <1>4 DEF AcceptsOpening, OpenedRow, Remembered, Watermark, RowSound, IncidentRow
<1> QED BY <1>3, <1>5

-----------------------------------------------------------------------------
(* The steps of the service.                                               *)

\* What publishing does to the incident of an event.
Ledger(e) ==
  LET row == incidents[KeyOf(e)]
      after == UpdatedIncident(row, LifecycleOf[e.type], e.at)
  IN \/ /\ ~HasIncident(e) /\ ~IsOpening(e)
        /\ incidents' = incidents
     \/ /\ HasIncident(e) /\ KeyOf(e) \in IncidentKeys
        /\ incidents' = [incidents EXCEPT ![KeyOf(e)] = after]
        /\ e.accepted = Accepts(row, LifecycleOf[e.type], e.at)
        /\ e.episode = after.opened_at

LEMMA PublishLedger ==
  ASSUME TypeOK, Publish
  PROVE  \E e \in Event : events' = Append(events, e) /\ Ledger(e)
<1>1. PICK e \in Event, after \in IncidentRow : Published(e, after)
  BY PublishStep
<1>2. ~HasIncident(e) => ~IsOpening(e)
  BY <1>1 DEF Published, HasIncident, IsOpening, Lifecycles
<1>3. Ledger(e)
  BY <1>1, <1>2 DEF Published, Ledger
<1> QED BY <1>1, <1>3 DEF Published

LEMMA EpisodeInvKept ==
  ASSUME TypeOK, EpisodeInv, [Next]_vars
  PROVE  EpisodeInv'
<1>1. CASE Publish
  <2>1. PICK e \in Event : events' = Append(events, e) /\ Ledger(e)
    BY <1>1, PublishLedger
  <2> DEFINE row == incidents[KeyOf(e)]
             lifecycle == LifecycleOf[e.type]
             after == UpdatedIncident(row, lifecycle, e.at)
  <2>2. /\ events \in Seq(Event) /\ incidents \in [IncidentKeys -> IncidentRow]
        /\ e.at \in OccurrenceTime
    BY DEF TypeOK, Event
  <2>3. /\ DOMAIN events' = DOMAIN events \cup {Len(events) + 1}
        /\ \A i \in DOMAIN events : events'[i] = events[i] /\ events[i] \in Event
        /\ events'[Len(events) + 1] = e
    BY <2>1, <2>2
  <2>4. CASE ~HasIncident(e)
    <3>1. ~IsOpening(e) /\ incidents' = incidents
      BY <2>1, <2>4 DEF Ledger
    <3> QED
      BY <2>3, <3>1 DEF EpisodeInv, IsOpening, KeyOf
  <2>5. CASE HasIncident(e)
    <3>1. /\ KeyOf(e) \in IncidentKeys /\ incidents' = [incidents EXCEPT ![KeyOf(e)] = after]
          /\ e.accepted = Accepts(row, lifecycle, e.at) /\ e.episode = after.opened_at
          /\ lifecycle \in Lifecycles
      BY <2>1, <2>5 DEF Ledger, HasIncident
    <3>2. row \in IncidentRow /\ RowSound(row)
      BY <2>2, <3>1 DEF EpisodeInv
    <3>3. RowSound(after)
      <4> HIDE DEF row, lifecycle
      <4> QED BY <2>2, <3>1, <3>2, RulesSound
    <3>4. \A x \in Event : Remembered(x, row) => Remembered(x, after)
      <4> HIDE DEF row, lifecycle
      <4> QED BY <2>2, <3>1, <3>2, RulesRemember
    <3>5. e.accepted /\ IsOpening(e) => Remembered(e, after)
      <4>1. IsOpening(e) => lifecycle = "opened"
        BY DEF IsOpening
      <4> HIDE DEF row, lifecycle
      <4> QED BY <3>1, <3>2, <4>1, AcceptedRemembered
    <3> HIDE DEF row, lifecycle, after
    <3>6. \A k \in IncidentKeys : RowSound(incidents'[k])
      BY <2>2, <3>1, <3>3 DEF EpisodeInv
    <3>7. ASSUME NEW i \in DOMAIN events', events'[i].accepted, IsOpening(events'[i])
          PROVE  /\ KeyOf(events'[i]) \in IncidentKeys
                 /\ Remembered(events'[i], incidents'[KeyOf(events'[i])])
      <4>1. CASE i = Len(events) + 1
        BY <2>2, <2>3, <3>1, <3>5, <3>7, <4>1
      <4>2. CASE i \in DOMAIN events
        <5> DEFINE x == events[i]
        <5>1. /\ events'[i] = x /\ x \in Event /\ KeyOf(x) \in IncidentKeys
              /\ Remembered(x, incidents[KeyOf(x)])
          BY <2>3, <3>7, <4>2 DEF EpisodeInv
        <5> HIDE DEF x
        <5>2. Remembered(x, incidents'[KeyOf(x)])
          BY <2>2, <3>1, <3>4, <5>1 DEF row
        <5> QED BY <5>1, <5>2
      <4> QED BY <2>3, <4>1, <4>2
    <3> QED
      BY <3>6, <3>7 DEF EpisodeInv, IsOpening, KeyOf
  <2> QED BY <2>4, <2>5
<1>2. CASE UNCHANGED <<events, incidents>>
  BY <1>2 DEF EpisodeInv, IsOpening, KeyOf
<1>3. Publish \/ UNCHANGED <<events, incidents>>
  BY ManageTypes, WorkerStepKeeps DEF Next, Advance, Crash, vars
<1> QED BY <1>1, <1>2, <1>3

-----------------------------------------------------------------------------
(* The theorem.                                                            *)

LEMMA FenceHolds ==
  ASSUME TypeOK, EpisodeInv
  PROVE  EpisodeFence
<1> SUFFICES ASSUME NEW i \in DOMAIN events, events[i].accepted, IsOpening(events[i])
             PROVE  LET e == events[i]
                    IN Current(e) <=> /\ incidents[KeyOf(e)].status = "open"
                                      /\ incidents[KeyOf(e)].opened_at = e.episode
  BY DEF EpisodeFence
<1> DEFINE e == events[i]
           row == incidents[KeyOf(e)]
<1>1. e \in Event /\ row \in IncidentRow /\ Remembered(e, row)
  BY DEF EpisodeInv, TypeOK
<1>2. e.at \in Nat /\ e.episode \in Nat /\ row.opened_at \in Nat
  BY <1>1 DEF Event, OccurrenceTime, NULL, IncidentRow
<1> HIDE DEF e, row
<1>3. row.status = "open" => (e.at >= row.opened_at <=> row.opened_at = e.episode)
  BY <1>1, <1>2 DEF Remembered
<1> QED BY <1>3 DEF Current, e, row

\* For any events, stamped and ordered in any way: the test that an incident is
\* open and the opening no earlier than its opened_at, on which
\* supersedeResolvedIncidentDeliveries, claimDelivery, processDeliveries and
\* failDelivery rely, holds of exactly the openings of the episode in progress.
THEOREM NotificationEpisodes == Spec => []EpisodeFence
<1>1. Init => EpisodeInv
  BY DEF Init, EpisodeInv, RowSound, NoIncident
<1>2. TypeOK /\ EpisodeInv /\ [Next]_vars => EpisodeInv'
  BY EpisodeInvKept
<1>3. TypeOK /\ EpisodeInv => EpisodeFence
  BY FenceHolds
<1> QED
  BY <1>1, <1>2, <1>3, NotificationTypes, PTL DEF Spec

-----------------------------------------------------------------------------
(* Recoveries.                                                             *)

IsRecovery(e) == LifecycleOf[e.type] = "recovered"

\* What the row of an incident knows of a recovery it accepted: since then the
\* incident was resolved, or has begun a later episode.
RecoveryKnown(e, row) ==
  \/ row.status = "resolved" /\ e.at <= row.resolved_at
  \/ row.status = "open" /\ e.at < row.opened_at

\* An accepted recovery is known to its row, and no earlier than any opening
\* accepted before it.
LedgerInv ==
  /\ \A i \in DOMAIN events :
       events[i].accepted /\ IsRecovery(events[i]) =>
         /\ KeyOf(events[i]) \in IncidentKeys
         /\ RecoveryKnown(events[i], incidents[KeyOf(events[i])])
  /\ \A i, j \in DOMAIN events :
       /\ i < j /\ KeyOf(events[i]) = KeyOf(events[j])
       /\ events[i].accepted /\ IsOpening(events[i])
       /\ events[j].accepted /\ IsRecovery(events[j])
       => events[i].at <= events[j].at

LEMMA RulesKnow ==
  ASSUME NEW row \in IncidentRow, NEW lifecycle \in Lifecycles, NEW at \in OccurrenceTime,
         NEW e \in Event, RowSound(row), RecoveryKnown(e, row)
  PROVE  RecoveryKnown(e, UpdatedIncident(row, lifecycle, at))
<1>1. e.at \in Nat
  BY DEF Event, OccurrenceTime, NULL
<1>2. AcceptsOpening(row, at) => RecoveryKnown(e, OpenedRow(row, at))
  BY <1>1 DEF AcceptsOpening, OpenedRow, RecoveryKnown, IncidentRow, OccurrenceTime, NULL
<1>3. AcceptsRecovery(row, at) \/ (row.status = "resolved" /\ at > row.resolved_at)
        => RecoveryKnown(e, RecoveredRow(row, at))
  BY <1>1 DEF AcceptsRecovery, RecoveredRow, RecoveryKnown, RowSound, IncidentRow,
              OccurrenceTime, NULL
<1> QED
  BY <1>2, <1>3 DEF UpdatedIncident

\* A recovery that is accepted is known, and follows every opening remembered.
LEMMA AcceptedKnown ==
  ASSUME NEW row \in IncidentRow, NEW at \in OccurrenceTime, AcceptsRecovery(row, at)
  PROVE  /\ \A e \in Event : e.at = at => RecoveryKnown(e, UpdatedIncident(row, "recovered", at))
         /\ \A e \in Event : Remembered(e, row) => e.at <= at
<1>1. UpdatedIncident(row, "recovered", at) = RecoveredRow(row, at)
  BY DEF UpdatedIncident
<1>2. /\ RecoveredRow(row, at).status = "resolved" /\ RecoveredRow(row, at).resolved_at = at
      /\ at \in Nat
  BY DEF RecoveredRow, IncidentRow, OccurrenceTime, NULL
<1>3. ASSUME NEW e \in Event, Remembered(e, row)
      PROVE  e.at <= at
  BY <1>2, <1>3 DEF Remembered, AcceptsRecovery, Watermark, IncidentRow, Event, OccurrenceTime, NULL
<1> QED
  BY <1>1, <1>2, <1>3 DEF RecoveryKnown

LEMMA LedgerInvKept ==
  ASSUME TypeOK, EpisodeInv, LedgerInv, [Next]_vars
  PROVE  LedgerInv'
<1>1. CASE Publish
  <2>1. PICK e \in Event, after \in IncidentRow : Published(e, after)
    BY <1>1, PublishStep
  <2> DEFINE row == incidents[KeyOf(e)]
             lifecycle == LifecycleOf[e.type]
             n == Len(events) + 1
  <2>2. /\ events \in Seq(Event) /\ incidents \in [IncidentKeys -> IncidentRow]
        /\ e.at \in OccurrenceTime
    BY DEF TypeOK, Event
  <2>3. /\ DOMAIN events' = DOMAIN events \cup {n}
        /\ \A i \in DOMAIN events : events'[i] = events[i] /\ events[i] \in Event /\ i < n /\ i \in Nat
        /\ events'[n] = e /\ n \in Nat
    BY <2>1, <2>2 DEF Published
  <2>4. IsOpening(e) \/ IsRecovery(e) => HasIncident(e) /\ lifecycle \in Lifecycles
    BY <2>1 DEF Published, IsOpening, IsRecovery, HasIncident, Lifecycles
  <2>5. HasIncident(e) =>
          /\ lifecycle \in Lifecycles /\ KeyOf(e) \in IncidentKeys
          /\ row \in IncidentRow /\ RowSound(row)
          /\ after = UpdatedIncident(row, lifecycle, e.at)
          /\ e.accepted = Accepts(row, lifecycle, e.at)
    BY <2>1, <2>2 DEF Published, HasIncident, EpisodeInv
  <2>6. incidents' = IF HasIncident(e) THEN [incidents EXCEPT ![KeyOf(e)] = after] ELSE incidents
    BY <2>1 DEF Published
  <2>7. HasIncident(e) => \A x \in Event : RecoveryKnown(x, row) => RecoveryKnown(x, after)
    <3> HIDE DEF row, lifecycle
    <3> QED BY <2>2, <2>5, RulesKnow
  <2>8. IsRecovery(e) /\ e.accepted =>
          /\ RecoveryKnown(e, after)
          /\ \A x \in Event : Remembered(x, row) => x.at <= e.at
    <3>1. IsRecovery(e) => lifecycle = "recovered"
      BY DEF IsRecovery
    <3>2. IsRecovery(e) /\ e.accepted => AcceptsRecovery(row, e.at)
      BY <2>4, <2>5, <3>1 DEF Accepts
    <3> HIDE DEF row, lifecycle
    <3> QED BY <2>2, <2>4, <2>5, <3>1, <3>2, AcceptedKnown
  <2> HIDE DEF row, lifecycle, n
  <2>9. ASSUME NEW i \in DOMAIN events', events'[i].accepted, IsRecovery(events'[i])
        PROVE  /\ KeyOf(events'[i]) \in IncidentKeys
               /\ RecoveryKnown(events'[i], incidents'[KeyOf(events'[i])])
    <3>1. CASE i = n
      BY <2>2, <2>3, <2>4, <2>5, <2>6, <2>8, <2>9, <3>1
    <3>2. CASE i \in DOMAIN events
      <4> DEFINE x == events[i]
      <4>1. /\ events'[i] = x /\ x \in Event /\ KeyOf(x) \in IncidentKeys
            /\ RecoveryKnown(x, incidents[KeyOf(x)])
        BY <2>3, <2>9, <3>2 DEF LedgerInv
      <4> HIDE DEF x
      <4>2. RecoveryKnown(x, incidents'[KeyOf(x)])
        BY <2>2, <2>5, <2>6, <2>7, <4>1 DEF row
      <4> QED BY <4>1, <4>2
    <3> QED BY <2>3, <3>1, <3>2
  <2>10. ASSUME NEW i \in DOMAIN events', NEW j \in DOMAIN events', i < j,
                KeyOf(events'[i]) = KeyOf(events'[j]),
                events'[i].accepted, IsOpening(events'[i]),
                events'[j].accepted, IsRecovery(events'[j])
         PROVE  events'[i].at <= events'[j].at
    <3>1. CASE j \in DOMAIN events
      <4>1. i \in DOMAIN events
        BY <2>3, <2>10, <3>1
      <4> QED BY <2>3, <2>10, <3>1, <4>1 DEF LedgerInv
    <3>2. CASE j = n
      <4>1. i \in DOMAIN events
        BY <2>3, <2>10, <3>2
      <4>2. events'[i] = events[i] /\ events[i] \in Event /\ events'[j] = e
        BY <2>3, <3>2, <4>1
      <4>3. Remembered(events[i], row)
        BY <2>10, <4>1, <4>2 DEF EpisodeInv, row
      <4> QED BY <2>8, <2>10, <4>2, <4>3
    <3> QED BY <2>3, <3>1, <3>2
  <2> QED
    BY <2>9, <2>10 DEF LedgerInv, IsOpening, IsRecovery, KeyOf
<1>2. CASE UNCHANGED <<events, incidents>>
  BY <1>2 DEF LedgerInv, IsOpening, IsRecovery, KeyOf
<1>3. Publish \/ UNCHANGED <<events, incidents>>
  BY ManageTypes, WorkerStepKeeps DEF Next, Advance, Crash, vars
<1> QED BY <1>1, <1>2, <1>3

\* An opening that a recovery was accepted after is over for good.
LEMMA OverForGood ==
  ASSUME TypeOK, LedgerInv, NEW i \in DOMAIN events, NEW j \in DOMAIN events, i < j,
         KeyOf(events[i]) = KeyOf(events[j]),
         events[i].accepted, IsOpening(events[i]),
         events[j].accepted, IsRecovery(events[j])
  PROVE  ~Current(events[i])
<1> DEFINE row == incidents[KeyOf(events[j])]
<1>1. events[i].at \in Nat /\ events[j].at \in Nat
  <2>1. events[i] \in Event /\ events[j] \in Event
    BY DEF TypeOK
  <2> QED BY <2>1 DEF Event, OccurrenceTime, NULL
<1>2. /\ events[i].at <= events[j].at
      /\ KeyOf(events[j]) \in IncidentKeys /\ RecoveryKnown(events[j], row)
  BY DEF LedgerInv
<1>3. row \in IncidentRow
  BY <1>2 DEF TypeOK
<1> HIDE DEF row
<1>4. row.opened_at \in Nat
  BY <1>3 DEF IncidentRow
<1>5. ~(row.status = "open" /\ events[i].at >= row.opened_at)
  BY <1>1, <1>2, <1>4 DEF RecoveryKnown
<1> QED BY <1>5 DEF Current, row

-----------------------------------------------------------------------------
(* What a step does to the columns that decide what is announced.          *)

\* A row keeps its rule and its creation, is delivered now or not at all, and
\* returns to the queue only while its opening belongs to the episode in progress.
RowTrace(d) ==
  LET old == deliveries[d]
      new == deliveries'[d]
  IN /\ new.rule = old.rule /\ new.created_at = old.created_at
     /\ new.delivered_at = old.delivered_at \/ new.delivered_at = now
     /\ new.status = "pending" /\ old.status # "pending" /\ IsOpening(EventOf(d))
          => Current(EventOf(d))

\* The reminder that follows a delivery of the episode in progress.
IsRepeat(d) ==
  LET previous == [d EXCEPT !.index = @ - 1]
  IN /\ d.index > 0
     /\ previous \in DOMAIN deliveries /\ deliveries'[previous].status = "delivered"
     /\ IsOpening(EventOf(d)) /\ Current(EventOf(d))
     /\ deliveries'[d].created_at = now /\ deliveries'[d].delivered_at = NULL

RepeatsOnly ==
  /\ UNCHANGED <<events, incidents>>
  /\ \A d \in DOMAIN deliveries : RowTrace(d)
  /\ \A d \in DOMAIN deliveries' : d \notin DOMAIN deliveries => IsRepeat(d)

LEMMA SameRows ==
  ASSUME UNCHANGED <<events, incidents, deliveries>>
  PROVE  RepeatsOnly
BY DEF RepeatsOnly, RowTrace

LEMMA StartTickRepeats ==
  ASSUME TypeOK, NEW w \in Workers, StartTick(w)
  PROVE  RepeatsOnly
<1> DEFINE D == ResolvedAway \cup UnauthorizedAway
           swept == Superseding(deliveries, D)
<1>1. Table(deliveries)
  BY DEF TypeOK, Table
<1>2. deliveries' = swept /\ UNCHANGED <<now, events, incidents>>
  BY DEF StartTick
<1> HIDE DEF D
<1>3. /\ DOMAIN swept = DOMAIN deliveries
      /\ \A d \in DOMAIN deliveries :
           /\ d \notin D => swept[d] = deliveries[d]
           /\ d \in D => swept[d].status = "superseded"
           /\ swept[d].rule = deliveries[d].rule
           /\ swept[d].created_at = deliveries[d].created_at
           /\ swept[d].delivered_at = deliveries[d].delivered_at
  BY <1>1, SupersedingRows
<1> HIDE DEF swept
<1> QED BY <1>2, <1>3 DEF RepeatsOnly, RowTrace

LEMMA ClaimRepeats ==
  ASSUME TypeOK, NEW w \in Workers, NEW d \in DOMAIN deliveries, ClaimDelivery(w, d)
  PROVE  RepeatsOnly
<1> DEFINE old == deliveries[d]
           attempts == old.attempt_count + 1
           token == now + Lease
           new == [old EXCEPT !.status = "processing", !.attempt_count = attempts,
                              !.lease_until = token]
<1>1. old \in DeliveryRow
  BY DEF TypeOK
<1>2. deliveries' = [deliveries EXCEPT ![d] = new] /\ UNCHANGED <<now, events, incidents>>
  BY DEF ClaimDelivery
<1>3. new = [old EXCEPT !.status = "processing", !.attempt_count = attempts,
                        !.lease_until = token]
  OBVIOUS
<1> HIDE DEF old, attempts, token, new
<1>4. /\ new.rule = old.rule /\ new.created_at = old.created_at
      /\ new.delivered_at = old.delivered_at /\ new.status = "processing"
  BY <1>1, <1>3 DEF DeliveryRow
<1> QED BY <1>2, <1>4 DEF RepeatsOnly, RowTrace, old

LEMMA SettleRepeats ==
  ASSUME TypeOK, NEW w \in Workers, NEW status \in {"failed", "superseded"},
         Settle(w, status), UNCHANGED <<now, events, incidents>>
  PROVE  RepeatsOnly
<1>1. CASE ~HoldsLease(w)
  BY <1>1, SameRows DEF Settle
<1>2. CASE HoldsLease(w)
  <2> DEFINE d == claim[w].delivery
             old == deliveries[d]
             new == [old EXCEPT !.status = status, !.lease_until = NULL]
  <2>1. d \in DOMAIN deliveries
    BY <1>2 DEF HoldsLease
  <2>2. old \in DeliveryRow
    BY <2>1 DEF TypeOK
  <2>3. deliveries' = [deliveries EXCEPT ![d] = new]
    BY <1>2 DEF Settle
  <2>4. new = [old EXCEPT !.status = status, !.lease_until = NULL]
    OBVIOUS
  <2> HIDE DEF d, old, new
  <2>5. /\ new.rule = old.rule /\ new.created_at = old.created_at
        /\ new.delivered_at = old.delivered_at /\ new.status = status
    BY <2>2, <2>4 DEF DeliveryRow
  <2> QED BY <2>1, <2>3, <2>5 DEF RepeatsOnly, RowTrace, old
<1> QED BY <1>1, <1>2

LEMMA RequeueRepeats ==
  ASSUME TypeOK, NEW w \in Workers, NEW delay, ~Overtaken(w),
         Requeue(w, delay), UNCHANGED <<now, events, incidents>>
  PROVE  RepeatsOnly
<1>1. CASE ~HoldsLease(w)
  BY <1>1, SameRows DEF Requeue
<1>2. CASE HoldsLease(w)
  <2> DEFINE d == claim[w].delivery
             old == deliveries[d]
             due == now + delay
             new == [old EXCEPT !.status = "pending", !.next_attempt_at = due,
                                !.lease_until = NULL]
  <2>1. d \in DOMAIN deliveries
    BY <1>2 DEF HoldsLease
  <2>2. old \in DeliveryRow
    BY <2>1 DEF TypeOK
  <2>3. deliveries' = [deliveries EXCEPT ![d] = new]
    BY <1>2 DEF Requeue
  <2>4. new = [old EXCEPT !.status = "pending", !.next_attempt_at = due, !.lease_until = NULL]
    OBVIOUS
  <2>5. IsOpening(EventOf(d)) => Current(EventOf(d))
    BY DEF Overtaken
  <2> HIDE DEF d, old, due, new
  <2>6. /\ new.rule = old.rule /\ new.created_at = old.created_at
        /\ new.delivered_at = old.delivered_at
    BY <2>2, <2>4 DEF DeliveryRow
  <2> QED BY <2>1, <2>3, <2>5, <2>6 DEF RepeatsOnly, RowTrace, old
<1> QED BY <1>1, <1>2

\* The successor of a delivery differs in its index, and leads back to it.
LEMMA SuccessorFollows ==
  ASSUME NEW d \in DeliveryId
  PROVE  /\ Successor(d).event = d.event /\ Successor(d).index = d.index + 1 /\ d.index \in Nat
         /\ d = [Successor(d) EXCEPT !.index = @ - 1]
<1> DEFINE next == Successor(d)
           i == d.index + 1
           j == next.index - 1
           back == [next EXCEPT !.index = j]
<1>1. next = [d EXCEPT !.index = i] /\ d.index \in Nat /\ i \in Nat
  BY DEF Successor, DeliveryId
<1>2. back = [next EXCEPT !.index = j]
  OBVIOUS
<1>3. i = d.index + 1 /\ j = next.index - 1
  OBVIOUS
<1> HIDE DEF next, i, j, back
<1>4. /\ next \in DeliveryId /\ next.index = i /\ next.event = d.event
      /\ next.sub = d.sub /\ next.channel = d.channel
  BY <1>1 DEF DeliveryId
<1>5. j = d.index /\ j \in Nat
  BY <1>1, <1>3, <1>4
<1>6. /\ back \in DeliveryId /\ back.index = j /\ back.event = next.event
      /\ back.sub = next.sub /\ back.channel = next.channel
  BY <1>2, <1>4, <1>5 DEF DeliveryId
<1>7. back = d
  BY <1>4, <1>5, <1>6 DEF DeliveryId
<1> QED BY <1>1, <1>3, <1>4, <1>7 DEF next, j, back

LEMMA CompleteRepeats ==
  ASSUME TypeOK, ClaimsKept, NEW w \in Workers, CompleteDelivery(w)
  PROVE  RepeatsOnly
<1> DEFINE d == claim[w].delivery
           old == deliveries[d]
           new == [old EXCEPT !.status = "delivered", !.delivered_at = now, !.lease_until = NULL]
           done == [deliveries EXCEPT ![d] = new]
           next == Successor(d)
           repeated == [x \in DOMAIN deliveries \cup {next} |->
                          IF x = next THEN RepeatRow(w) ELSE done[x]]
<1>1. UNCHANGED <<now, events, incidents>>
  BY DEF CompleteDelivery, NextInBatch
<1>2. d \in DOMAIN deliveries /\ d \in DeliveryId
  BY DEF CompleteDelivery, HoldsLease, TypeOK
<1>3. old \in DeliveryRow
  BY <1>2 DEF TypeOK
<1>4. new = [old EXCEPT !.status = "delivered", !.delivered_at = now, !.lease_until = NULL]
  OBVIOUS
<1>5. \/ deliveries' = done
      \/ deliveries' = repeated /\ next \notin DOMAIN deliveries /\ IsOpening(EventOf(d))
  BY DEF CompleteDelivery, WantsRepeat
<1>6. IsOpening(EventOf(d)) => Current(EventOf(d))
  BY DEF CompleteDelivery, Overtaken
<1>7. /\ next.event = d.event /\ next.index = d.index + 1 /\ d.index \in Nat
      /\ d = [next EXCEPT !.index = @ - 1]
  BY <1>2, SuccessorFollows
<1>8. RepeatRow(w).created_at = now /\ RepeatRow(w).delivered_at = NULL
  BY DEF RepeatRow
<1> HIDE DEF d, old, new, next
<1>9. /\ new.rule = old.rule /\ new.created_at = old.created_at
      /\ new.delivered_at = now /\ new.status = "delivered"
  BY <1>3, <1>4 DEF DeliveryRow
<1>10. /\ \A x \in DOMAIN deliveries : deliveries'[x] = IF x = d THEN new ELSE deliveries[x]
       /\ \A x \in DOMAIN deliveries' : x \notin DOMAIN deliveries =>
            x = next /\ deliveries'[x] = RepeatRow(w) /\ IsOpening(EventOf(d))
  BY <1>2, <1>5
<1>11. \A x \in DOMAIN deliveries : RowTrace(x)
  BY <1>9, <1>10 DEF RowTrace, old
<1>12. \A x \in DOMAIN deliveries' : x \notin DOMAIN deliveries => IsRepeat(x)
  <2>1. EventOf(next) = EventOf(d)
    BY <1>7 DEF EventOf
  <2>2. next.index > 0
    BY <1>7
  <2>3. deliveries'[d].status = "delivered"
    BY <1>2, <1>9, <1>10
  <2> QED BY <1>2, <1>6, <1>7, <1>8, <1>10, <2>1, <2>2, <2>3 DEF IsRepeat
<1> QED BY <1>1, <1>11, <1>12 DEF RepeatsOnly

LEMMA FailRepeats ==
  ASSUME TypeOK, NEW w \in Workers, FailDelivery(w)
  PROVE  RepeatsOnly
<1>1. UNCHANGED <<now, events, incidents>>
  BY DEF FailDelivery, NextInBatch
<1> QED BY <1>1, SettleRepeats, RequeueRepeats DEF FailDelivery

\* The deliveries of an event that is published, and what its publication does
\* to those that exist.
Announced(e, after) ==
  /\ Published(e, after)
  /\ \A d \in DOMAIN deliveries :
       /\ RowTrace(d)
       /\ deliveries'[d].status = "pending" => deliveries[d].status = "pending"
       /\ e.accepted /\ d \in MergedAway(e) => deliveries'[d].status = "superseded"
  /\ \A d \in DOMAIN deliveries' : d \notin DOMAIN deliveries =>
       /\ e.accepted
       /\ d.event = Len(events) + 1 /\ d.index = 0
       /\ d.sub \in Matching(e) /\ d.channel \in subs[d.sub].channels
       /\ deliveries'[d] = NewRow(d.sub, d.channel, e, after)

LEMMA PublishAnnounces ==
  ASSUME TypeOK, Publish
  PROVE  \E e \in Event, after \in IncidentRow : Announced(e, after)
<1>1. PICK e \in Event, after \in IncidentRow : Published(e, after)
  BY PublishStep
<1> DEFINE n == Len(events) + 1
           kept == Superseding(deliveries, MergedAway(e))
<1>2. n \in Nat \ {0} /\ Table(deliveries)
  BY DEF TypeOK, Table
<1>3. /\ DOMAIN kept = DOMAIN deliveries
      /\ \A d \in DOMAIN deliveries :
           /\ d \notin MergedAway(e) => kept[d] = deliveries[d]
           /\ d \in MergedAway(e) => kept[d].status = "superseded"
           /\ kept[d].rule = deliveries[d].rule
           /\ kept[d].created_at = deliveries[d].created_at
           /\ kept[d].delivered_at = deliveries[d].delivered_at
  BY <1>2, SupersedingRows
<1>4. /\ DOMAIN FanOut(e, n, after) = DOMAIN deliveries \cup FannedOut(e, n)
      /\ \A d \in DOMAIN deliveries : FanOut(e, n, after)[d] = kept[d]
      /\ \A d \in FannedOut(e, n) \ DOMAIN deliveries :
           FanOut(e, n, after)[d] = NewRow(d.sub, d.channel, e, after)
  <2> HIDE DEF n
  <2> QED BY <1>2, FanOutRows
<1>5. deliveries' = IF e.accepted THEN FanOut(e, n, after) ELSE deliveries
  BY <1>1 DEF Published
<1>6. \A d \in FannedOut(e, n) :
        /\ d.event = n /\ d.index = 0
        /\ d.sub \in Matching(e) /\ d.channel \in subs[d.sub].channels
  BY DEF FannedOut
<1> HIDE DEF n, kept
<1>7. \A d \in DOMAIN deliveries :
        /\ RowTrace(d)
        /\ deliveries'[d].status = "pending" => deliveries[d].status = "pending"
        /\ e.accepted /\ d \in MergedAway(e) => deliveries'[d].status = "superseded"
  BY <1>3, <1>4, <1>5 DEF RowTrace
<1>8. \A d \in DOMAIN deliveries' : d \notin DOMAIN deliveries =>
        /\ e.accepted
        /\ d.event = n /\ d.index = 0
        /\ d.sub \in Matching(e) /\ d.channel \in subs[d.sub].channels
        /\ deliveries'[d] = NewRow(d.sub, d.channel, e, after)
  BY <1>4, <1>5, <1>6
<1> QED BY <1>1, <1>7, <1>8 DEF Announced, n

LEMMA NextAnnounces ==
  ASSUME TypeOK, ClaimsKept, [Next]_vars
  PROVE  RepeatsOnly \/ \E e \in Event, after \in IncidentRow : Announced(e, after)
<1>1. ASSUME NEW w \in Workers, WorkerStep(w)
      PROVE  RepeatsOnly
  <2>1. CASE StartTick(w)
    BY <2>1, StartTickRepeats
  <2>2. ASSUME NEW d \in DOMAIN deliveries, ClaimDelivery(w, d)
        PROVE  RepeatsOnly
    BY <2>2, ClaimRepeats
  <2>3. CASE EndTick(w) \/ ProviderActs(w)
    BY <2>3, SameRows DEF EndTick, ProviderActs
  <2>4. CASE SupersedeOvertaken(w)
    BY <2>4, SettleRepeats DEF SupersedeOvertaken, NextInBatch
  <2>5. CASE CompleteDelivery(w)
    BY <2>5, CompleteRepeats
  <2>6. CASE CompletionFails(w)
    BY <2>6, SettleRepeats DEF CompletionFails, NextInBatch
  <2>7. CASE FailDelivery(w)
    BY <2>7, FailRepeats
  <2> QED
    BY <1>1, <2>1, <2>2, <2>3, <2>4, <2>5, <2>6, <2>7 DEF WorkerStep
<1>2. Manage \/ Advance \/ Crash \/ UNCHANGED vars => RepeatsOnly
  <2>1. CASE Manage
    BY <2>1, SameRows DEF Manage, SetUserActive, SetMember, SetProjectEnabled,
                          SaveSubscription, DeleteSubscription
  <2>2. CASE Advance \/ Crash \/ UNCHANGED vars
    BY <2>2, SameRows DEF Advance, Crash, vars
  <2> QED BY <2>1, <2>2
<1> QED
  BY <1>1, <1>2, PublishAnnounces DEF Next

-----------------------------------------------------------------------------
(* What every row records.                                                 *)

\* A delivery belongs to an event that was accepted, was created in the past,
\* and delivered no earlier.
RowsInv ==
  \A d \in DOMAIN deliveries :
    /\ EventOf(d).accepted
    /\ deliveries[d].created_at <= now
    /\ deliveries[d].delivered_at # NULL
         => deliveries[d].created_at <= deliveries[d].delivered_at

\* The events of the deliveries there are.
LEMMA EventsStay ==
  ASSUME TypeOK, NEW d \in DOMAIN deliveries,
         events' = events \/ \E e \in Event : events' = Append(events, e)
  PROVE  /\ EventOf(d)' = EventOf(d) /\ EventOf(d) \in Event
         /\ d.event \in DOMAIN events /\ d.event \in Nat /\ d.event < Len(events) + 1
<1>1. events \in Seq(Event) /\ d.event \in DOMAIN events
  BY DEF TypeOK
<1> DEFINE i == d.event
<1> HIDE DEF i
<1>2. i \in DOMAIN events => /\ events'[i] = events[i] /\ events[i] \in Event
                            /\ i \in Nat /\ i < Len(events) + 1
  BY <1>1
<1> QED BY <1>1, <1>2 DEF EventOf, i

LEMMA RowsInvKept ==
  ASSUME TypeOK, ClaimsKept, RowsInv, [Next]_vars, RowsMove
  PROVE  RowsInv'
<1>1. now \in Nat /\ now' \in Nat /\ now' >= now
  BY NextTypes DEF TypeOK, AdminTypes
<1>2. ASSUME NEW d \in DOMAIN deliveries, RowTrace(d), EventOf(d)' = EventOf(d)
      PROVE  /\ EventOf(d)'.accepted
             /\ deliveries'[d].created_at <= now'
             /\ deliveries'[d].delivered_at # NULL
                  => deliveries'[d].created_at <= deliveries'[d].delivered_at
  <2>1. deliveries[d].created_at \in Nat
    BY RowColumns DEF TypeOK
  <2> QED BY <1>1, <1>2, <2>1 DEF RowsInv, RowTrace
<1>3. CASE RepeatsOnly
  <2>1. ASSUME NEW d \in DOMAIN deliveries', d \notin DOMAIN deliveries
        PROVE  /\ EventOf(d)'.accepted
               /\ deliveries'[d].created_at <= now'
               /\ deliveries'[d].delivered_at = NULL
    <3> DEFINE previous == [d EXCEPT !.index = @ - 1]
    <3>1. IsRepeat(d)
      BY <1>3, <2>1 DEF RepeatsOnly
    <3>2. d \in DeliveryId
      BY DEF RowsMove, Table
    <3>3. previous \in DOMAIN deliveries /\ previous.event = d.event
      BY <3>1, <3>2 DEF IsRepeat, DeliveryId
    <3>4. EventOf(d)' = EventOf(previous)
      BY <1>3, <3>3 DEF RepeatsOnly, EventOf
    <3> HIDE DEF previous
    <3> QED BY <1>1, <3>1, <3>3, <3>4 DEF IsRepeat, RowsInv
  <2>2. ASSUME NEW d \in DOMAIN deliveries
        PROVE  RowTrace(d) /\ EventOf(d)' = EventOf(d)
    BY <1>3 DEF RepeatsOnly, EventOf
  <2> QED BY <1>2, <2>1, <2>2 DEF RowsInv
<1>4. ASSUME NEW e \in Event, NEW after \in IncidentRow, Announced(e, after)
      PROVE  RowsInv'
  <2>1. events' = Append(events, e)
    BY <1>4 DEF Announced, Published
  <2>2. ASSUME NEW d \in DOMAIN deliveries
        PROVE  RowTrace(d) /\ EventOf(d)' = EventOf(d)
    BY <1>4, <2>1, EventsStay DEF Announced
  <2>3. ASSUME NEW d \in DOMAIN deliveries', d \notin DOMAIN deliveries
        PROVE  /\ EventOf(d)'.accepted
               /\ deliveries'[d].created_at <= now'
               /\ deliveries'[d].delivered_at = NULL
    <3>1. EventOf(d)' = e /\ e.accepted /\ deliveries'[d] = NewRow(d.sub, d.channel, e, after)
      BY <1>4, <2>1, <2>3 DEF Announced, EventOf, TypeOK
    <3> QED BY <1>1, <3>1 DEF NewRow
  <2> QED BY <1>2, <2>2, <2>3 DEF RowsInv
<1> QED BY <1>3, <1>4, NextAnnounces

-----------------------------------------------------------------------------
(* Reminders.                                                              *)

LEMMA RepeatChainKept ==
  ASSUME TypeOK, ClaimsKept, RepeatChain, [Next]_vars, RowsMove
  PROVE  RepeatChain'
<1> SUFFICES ASSUME NEW d \in DOMAIN deliveries', d.index > 0
             PROVE  LET previous == [d EXCEPT !.index = @ - 1]
                    IN previous \in DOMAIN deliveries' /\ deliveries'[previous].status = "delivered"
  BY DEF RepeatChain
<1> DEFINE previous == [d EXCEPT !.index = @ - 1]
<1>1. CASE d \in DOMAIN deliveries
  <2>1. previous \in DOMAIN deliveries /\ deliveries[previous].status = "delivered"
    BY <1>1 DEF RepeatChain
  <2> HIDE DEF previous
  <2>2. previous \in DOMAIN deliveries' /\ RowMove(previous)
    BY <2>1 DEF RowsMove
  <2>3. deliveries'[previous].status = "delivered"
    BY <2>1, <2>2 DEF RowMove, Queued
  <2> QED BY <2>2, <2>3 DEF previous
<1>2. CASE d \notin DOMAIN deliveries
  <2>1. RepeatsOnly
    BY <1>2, NextAnnounces DEF Announced
  <2>2. previous \in DOMAIN deliveries /\ deliveries'[previous].status = "delivered"
    BY <1>2, <2>1 DEF RepeatsOnly, IsRepeat
  <2> HIDE DEF previous
  <2>3. previous \in DOMAIN deliveries'
    BY <2>2 DEF RowsMove
  <2> QED BY <2>2, <2>3 DEF previous
<1> QED BY <1>1, <1>2

-----------------------------------------------------------------------------
(* Cooldowns.                                                              *)

\* A row that is live was live before.
LEMMA LiveBefore ==
  ASSUME NEW d \in DOMAIN deliveries, RowMove(d), deliveries'[d].status \in Live
  PROVE  deliveries[d].status \in Live
BY DEF RowMove, Live, Queued

\* Of two live first deliveries the earlier one was there before the step.  So
\* was the other, unless the step published its event and found the route not
\* to be cooling down.
LEMMA LivePairs ==
  ASSUME TypeOK, ClaimsKept, [Next]_vars, RowsMove,
         NEW d1 \in DOMAIN deliveries', NEW d2 \in DOMAIN deliveries',
         d1.index = 0, d2.index = 0, d1.event < d2.event,
         deliveries'[d1].status \in Live, deliveries'[d2].status \in Live
  PROVE  /\ d1 \in DOMAIN deliveries /\ deliveries[d1].status \in Live
         /\ RowTrace(d1) /\ EventOf(d1)' = EventOf(d1)
         /\ \/ /\ d2 \in DOMAIN deliveries /\ deliveries[d2].status \in Live
               /\ RowTrace(d2) /\ EventOf(d2)' = EventOf(d2)
            \/ /\ d2 \notin DOMAIN deliveries
               /\ \E e \in Event, after \in IncidentRow :
                    /\ Announced(e, after) /\ EventOf(d2)' = e /\ e.accepted
                    /\ deliveries'[d2] = NewRow(d2.sub, d2.channel, e, after)
                    /\ ~CoolingDown(d2.sub, d2.channel, e, after)
<1>1. events' = events \/ \E e \in Event : events' = Append(events, e)
  BY NextAnnounces DEF RepeatsOnly, Announced, Published
<1>2. \A d \in DOMAIN deliveries : RowTrace(d)
  BY NextAnnounces DEF RepeatsOnly, Announced
<1>3. ASSUME NEW d \in DOMAIN deliveries, deliveries'[d].status \in Live
      PROVE  deliveries[d].status \in Live /\ RowTrace(d) /\ EventOf(d)' = EventOf(d)
  BY <1>1, <1>2, <1>3, EventsStay, LiveBefore DEF RowsMove
<1>4. CASE RepeatsOnly
  <2>1. ~IsRepeat(d1) /\ ~IsRepeat(d2)
    BY DEF IsRepeat
  <2>2. d1 \in DOMAIN deliveries /\ d2 \in DOMAIN deliveries
    BY <1>4, <2>1 DEF RepeatsOnly
  <2> QED BY <1>3, <2>2
<1>5. ASSUME NEW e \in Event, NEW after \in IncidentRow, Announced(e, after)
      PROVE  /\ d1 \in DOMAIN deliveries
             /\ d2 \notin DOMAIN deliveries =>
                  /\ EventOf(d2)' = e /\ e.accepted
                  /\ deliveries'[d2] = NewRow(d2.sub, d2.channel, e, after)
                  /\ ~CoolingDown(d2.sub, d2.channel, e, after)
  <2> DEFINE n == Len(events) + 1
  <2>1. \A d \in DOMAIN deliveries' :
          \/ d \in DOMAIN deliveries /\ d.event \in Nat /\ d.event < n
          \/ d \notin DOMAIN deliveries /\ d.event = n
    BY <1>1, <1>5, EventsStay DEF Announced
  <2>2. n \in Nat
    BY DEF TypeOK
  <2>3. d1 \in DOMAIN deliveries
    <3> HIDE DEF n
    <3> QED BY <2>1, <2>2
  <2>4. ASSUME d2 \notin DOMAIN deliveries
        PROVE  /\ EventOf(d2)' = e /\ e.accepted
               /\ deliveries'[d2] = NewRow(d2.sub, d2.channel, e, after)
    BY <1>5, <2>4 DEF Announced, Published, EventOf, TypeOK
  <2>5. ASSUME d2 \notin DOMAIN deliveries
        PROVE  ~CoolingDown(d2.sub, d2.channel, e, after)
    <3>1. InitialStatus(d2.sub, d2.channel, e, after) \in Live
      BY <2>4, <2>5 DEF NewRow
    <3> QED BY <3>1 DEF InitialStatus, Live
  <2> QED BY <2>3, <2>4, <2>5
<1>6. CASE \E e \in Event, after \in IncidentRow : Announced(e, after)
  BY <1>3, <1>5, <1>6
<1> QED BY <1>4, <1>6, NextAnnounces

LEMMA IntervalSpacingKept ==
  ASSUME TypeOK, ClaimsKept, RowsInv, IntervalSpacing, [Next]_vars, RowsMove
  PROVE  IntervalSpacing'
<1> SUFFICES ASSUME NEW d1 \in DOMAIN deliveries', NEW d2 \in DOMAIN deliveries',
                    d1.index = 0, d2.index = 0, SameRoute(d1, d2)', d1.event < d2.event,
                    EventOf(d2)'.key # NoKey, LifecycleOf[EventOf(d2)'.type] # "recovered",
                    deliveries'[d2].rule.cooldown_mode = "interval",
                    deliveries'[d1].status \in Live, deliveries'[d2].status \in Live
             PROVE  deliveries'[d2].created_at - deliveries'[d1].created_at
                      > deliveries'[d2].rule.cooldown
  BY DEF IntervalSpacing
<1>1. /\ d1 \in DOMAIN deliveries /\ deliveries[d1].status \in Live
      /\ RowTrace(d1) /\ EventOf(d1)' = EventOf(d1)
  BY LivePairs
<1>2. deliveries'[d1].created_at = deliveries[d1].created_at
  BY <1>1 DEF RowTrace
<1>3. CASE /\ d2 \in DOMAIN deliveries /\ deliveries[d2].status \in Live
           /\ RowTrace(d2) /\ EventOf(d2)' = EventOf(d2)
  <2>1. /\ deliveries'[d2].created_at = deliveries[d2].created_at
        /\ deliveries'[d2].rule = deliveries[d2].rule
    BY <1>3 DEF RowTrace
  <2>2. SameRoute(d1, d2)
    BY <1>1, <1>3 DEF SameRoute, KeyOf
  <2>3. deliveries[d2].created_at - deliveries[d1].created_at > deliveries[d2].rule.cooldown
    BY <1>1, <1>3, <2>1, <2>2 DEF IntervalSpacing
  <2> QED BY <1>2, <2>1, <2>3
<1>4. ASSUME NEW e \in Event, NEW after \in IncidentRow, Announced(e, after),
             EventOf(d2)' = e, deliveries'[d2] = NewRow(d2.sub, d2.channel, e, after),
             ~CoolingDown(d2.sub, d2.channel, e, after)
      PROVE  deliveries'[d2].created_at - deliveries'[d1].created_at
               > deliveries'[d2].rule.cooldown
  <2> DEFINE rule == subs[d2.sub]
             old == deliveries[d1]
             base == IF old.delivered_at # NULL THEN old.delivered_at ELSE old.created_at
  <2>1. deliveries'[d2].created_at = now /\ deliveries'[d2].rule = rule
    BY <1>4 DEF NewRow
  <2>2. old.created_at \in Nat /\ old.delivered_at \in Nat /\ now \in Nat
    BY <1>1, RowColumns DEF TypeOK
  <2>3. d2.sub \in Subs /\ rule.cooldown \in Nat
    BY DEF RowsMove, Table, DeliveryId, TypeOK, RuleType
  <2>4. d1.sub = d2.sub /\ d1.channel = d2.channel /\ KeyOf(EventOf(d1)) = KeyOf(e)
    BY <1>1, <1>4 DEF SameRoute, KeyOf
  <2>5. ~CountsAgainst(rule, e, after, d1)
    BY <1>1, <1>4, <2>4 DEF CoolingDown
  <2>6. rule.cooldown_mode = "interval"
    BY <2>1
  <2>7. ~(base >= now - rule.cooldown)
    BY <2>5, <2>6 DEF CountsAgainst
  <2>8. old.created_at <= base /\ base \in Nat
    BY <1>1, <2>2 DEF RowsInv
  <2> HIDE DEF rule, old, base
  <2>9. now - old.created_at > rule.cooldown
    BY <2>2, <2>3, <2>7, <2>8
  <2> QED BY <1>2, <2>1, <2>9 DEF old
<1> QED BY <1>3, <1>4, LivePairs

LEMMA OncePerEpisodeKept ==
  ASSUME TypeOK, ClaimsKept, RowsInv, EpisodeInv, OncePerEpisode, [Next]_vars, RowsMove
  PROVE  OncePerEpisode'
<1> SUFFICES ASSUME NEW d1 \in DOMAIN deliveries', NEW d2 \in DOMAIN deliveries',
                    FirstOpening(d1)', FirstOpening(d2)', SameRoute(d1, d2)',
                    EventOf(d1)'.episode = EventOf(d2)'.episode, d1.event < d2.event,
                    deliveries'[d2].rule.cooldown_mode # "interval",
                    deliveries'[d1].status \in Live, deliveries'[d2].status \in Live
             PROVE  FALSE
  BY DEF OncePerEpisode
<1>1. d1.index = 0 /\ d2.index = 0
  BY DEF FirstOpening
<1>2. /\ d1 \in DOMAIN deliveries /\ deliveries[d1].status \in Live
      /\ RowTrace(d1) /\ EventOf(d1)' = EventOf(d1)
  BY <1>1, LivePairs
<1>3. CASE /\ d2 \in DOMAIN deliveries /\ deliveries[d2].status \in Live
           /\ RowTrace(d2) /\ EventOf(d2)' = EventOf(d2)
  <2>1. deliveries'[d2].rule = deliveries[d2].rule
    BY <1>3 DEF RowTrace
  <2>2. SameRoute(d1, d2) /\ FirstOpening(d1) /\ FirstOpening(d2)
    BY <1>2, <1>3 DEF SameRoute, KeyOf, FirstOpening, IsOpening
  <2> QED BY <1>2, <1>3, <2>1, <2>2 DEF OncePerEpisode
<1>4. ASSUME NEW e \in Event, NEW after \in IncidentRow, Announced(e, after),
             EventOf(d2)' = e, e.accepted, deliveries'[d2] = NewRow(d2.sub, d2.channel, e, after),
             ~CoolingDown(d2.sub, d2.channel, e, after)
      PROVE  FALSE
  <2> DEFINE rule == subs[d2.sub]
             x == EventOf(d1)
  <2>1. IsOpening(e) /\ IsOpening(x)
    BY <1>2, <1>4 DEF FirstOpening, IsOpening
  <2>2. d1.sub = d2.sub /\ d1.channel = d2.channel /\ KeyOf(x) = KeyOf(e)
    BY <1>2, <1>4 DEF SameRoute, KeyOf
  <2>3. rule.cooldown_mode # "interval"
    BY <1>4 DEF NewRow
  <2>4. Published(e, after) /\ HasIncident(e)
    BY <1>4, <2>1 DEF Announced, Published, HasIncident, IsOpening, Lifecycles
  <2>5. after.status = "open" /\ e.episode = after.opened_at
    <3> DEFINE row == incidents[KeyOf(e)]
    <3>1. after = UpdatedIncident(row, "opened", e.at) /\ AcceptsOpening(row, e.at)
      BY <1>4, <2>1, <2>4 DEF Published, IsOpening, Accepts
    <3>2. row \in IncidentRow
      BY <2>4 DEF Published, TypeOK
    <3> HIDE DEF row
    <3>3. after.status = "open"
      BY <3>1, <3>2 DEF UpdatedIncident, OpenedRow, IncidentRow
    <3> QED BY <2>4, <3>3 DEF Published
  <2>6. ~CountsAgainst(rule, e, after, d1)
    BY <1>2, <1>4, <2>1, <2>2, <2>4 DEF CoolingDown, IsOpening, HasIncident
  <2>7. ~(x.at >= after.opened_at)
    BY <2>3, <2>5, <2>6 DEF CountsAgainst
  <2>8. x.episode <= x.at /\ x.episode = e.episode
    <3>1. x.accepted /\ d1.event \in DOMAIN events
      BY <1>2 DEF RowsInv, TypeOK
    <3>2. x.episode <= x.at
      BY <2>1, <3>1 DEF EpisodeInv, Remembered, EventOf
    <3> QED BY <1>2, <1>4, <3>2
  <2>9. x \in Event
    BY <1>2 DEF TypeOK, EventOf
  <2>10. x.at \in Nat /\ x.episode \in Nat
    BY <2>9 DEF Event, OccurrenceTime, NULL
  <2> QED BY <2>5, <2>7, <2>8, <2>10
<1> QED BY <1>1, <1>3, <1>4, LivePairs

-----------------------------------------------------------------------------
(* Recoveries and the queue.                                               *)

LEMMA RecoveryClosesQueueKept ==
  ASSUME TypeOK, ClaimsKept, RowsInv, LedgerInv, RecoveryClosesQueue, [Next]_vars, RowsMove
  PROVE  RecoveryClosesQueue'
<1> SUFFICES ASSUME NEW d \in DOMAIN deliveries', NEW r \in DOMAIN deliveries',
                    IsOpening(EventOf(d)'), IsRecovery(EventOf(r)'),
                    SameRoute(d, r)', d.event < r.event,
                    deliveries'[r].rule.summary = "merged",
                    deliveries'[d].status = "pending"
             PROVE  FALSE
  BY DEF RecoveryClosesQueue, IsRecovery, IsOpening
<1>1. events' = events \/ \E e \in Event : events' = Append(events, e)
  BY NextAnnounces DEF RepeatsOnly, Announced, Published
<1>2. \A x \in DOMAIN deliveries :
        /\ RowTrace(x) /\ EventOf(x)' = EventOf(x) /\ EventOf(x).accepted
        /\ x.event \in DOMAIN events /\ x.event \in Nat /\ x.event < Len(events) + 1
  BY <1>1, EventsStay, NextAnnounces DEF RepeatsOnly, Announced, RowsInv
<1>3. /\ d.sub = r.sub /\ d.channel = r.channel
      /\ KeyOf(EventOf(d)') = KeyOf(EventOf(r)')
  BY DEF SameRoute, KeyOf
<1>4. ~(IsOpening(EventOf(r)') /\ IsRecovery(EventOf(r)'))
  BY DEF IsOpening, IsRecovery
\* The episode of an opening whose route was told of a recovery is over.
<1>5. ASSUME r \in DOMAIN deliveries, d.event \in DOMAIN events, EventOf(d).accepted,
             EventOf(d)' = EventOf(d)
      PROVE  ~Current(EventOf(d))
  <2> DEFINE i == d.event
             j == r.event
  <2>1. /\ j \in DOMAIN events /\ events[j].accepted /\ IsRecovery(events[j])
        /\ events'[j] = events[j]
    BY <1>2, <1>5 DEF EventOf
  <2>2. /\ i \in DOMAIN events /\ events[i].accepted /\ IsOpening(events[i])
        /\ events'[i] = events[i] /\ i < j
    BY <1>5 DEF EventOf
  <2>3. KeyOf(events[i]) = KeyOf(events[j])
    BY <1>3, <2>1, <2>2 DEF EventOf
  <2> HIDE DEF i, j
  <2>4. ~Current(events[i])
    BY <2>1, <2>2, <2>3, OverForGood
  <2> QED BY <2>4 DEF EventOf, i
<1>6. CASE r \in DOMAIN deliveries /\ d \in DOMAIN deliveries
  <2>1. ~Current(EventOf(d))
    BY <1>2, <1>5, <1>6
  <2>2. deliveries[d].status = "pending"
    BY <1>2, <1>6, <2>1 DEF RowTrace
  <2>3. deliveries[r].rule = deliveries'[r].rule /\ SameRoute(d, r)
    BY <1>2, <1>3, <1>6 DEF RowTrace, SameRoute
  <2> QED BY <1>2, <1>6, <2>2, <2>3 DEF RecoveryClosesQueue, IsRecovery
<1>7. CASE RepeatsOnly
  <2>1. ASSUME NEW x \in DOMAIN deliveries', x \notin DOMAIN deliveries
        PROVE  /\ IsOpening(EventOf(x)) /\ Current(EventOf(x)) /\ EventOf(x)' = EventOf(x)
               /\ x.event \in DOMAIN events /\ EventOf(x).accepted
    <3> DEFINE previous == [x EXCEPT !.index = @ - 1]
    <3>1. IsRepeat(x)
      BY <1>7, <2>1 DEF RepeatsOnly
    <3>2. x \in DeliveryId
      BY DEF RowsMove, Table
    <3>3. previous \in DOMAIN deliveries /\ previous.event = x.event
      BY <3>1, <3>2 DEF IsRepeat, DeliveryId
    <3>4. EventOf(x) = EventOf(previous) /\ EventOf(x)' = EventOf(x)
      BY <1>7, <3>3 DEF RepeatsOnly, EventOf
    <3> HIDE DEF previous
    <3> QED BY <1>2, <3>1, <3>3, <3>4 DEF IsRepeat
  <2>2. r \in DOMAIN deliveries
    BY <1>4, <2>1
  <2>3. d \in DOMAIN deliveries
    BY <1>5, <2>1, <2>2
  <2> QED BY <1>6, <2>2, <2>3
<1>8. ASSUME NEW e \in Event, NEW after \in IncidentRow, Announced(e, after)
      PROVE  FALSE
  <2> DEFINE n == Len(events) + 1
  <2>1. \A x \in DOMAIN deliveries' : x \notin DOMAIN deliveries => x.event = n
    BY <1>8 DEF Announced
  <2>2. \A x \in DOMAIN deliveries' : x.event \in Nat /\ x.event <= n
    BY <1>2, <2>1 DEF TypeOK
  <2>3. d \in DOMAIN deliveries
    <3> HIDE DEF n
    <3> QED BY <2>1, <2>2
  <2>4. r \notin DOMAIN deliveries
    BY <1>6, <2>3
  <2>5. /\ e.accepted /\ d \notin MergedAway(e)
        /\ deliveries[d].status = "pending"
    BY <1>8, <2>3, <2>4 DEF Announced
  <2>6. /\ r.sub \in Matching(e) /\ r.channel \in subs[r.sub].channels
        /\ deliveries'[r].rule = subs[r.sub]
    BY <1>8, <2>4 DEF Announced, NewRow
  <2>7. EventOf(r)' = e
    BY <1>8, <2>4 DEF Announced, Published, EventOf, TypeOK
  <2>8. e.key # NoKey /\ LifecycleOf[e.type] = "recovered"
    BY <1>8, <2>7 DEF Announced, Published, IsRecovery, Lifecycles
  <2> QED BY <1>2, <1>3, <2>3, <2>5, <2>6, <2>7, <2>8 DEF MergedAway
<1> QED BY <1>7, <1>8, NextAnnounces

-----------------------------------------------------------------------------
(* The theorems about deliveries.                                          *)

\* What the deliveries of the service depend on, together with IInv.
RoutesInv ==
  /\ EpisodeInv /\ LedgerInv /\ RowsInv
  /\ RepeatChain /\ IntervalSpacing /\ OncePerEpisode /\ RecoveryClosesQueue

LEMMA RoutesInvKept ==
  ASSUME IInv, RoutesInv, [Next]_vars
  PROVE  RoutesInv'
<1>1. TypeOK /\ ClaimsKept /\ RowsMove
  BY NextMoves DEF IInv
<1> QED
  BY <1>1, EpisodeInvKept, LedgerInvKept, RowsInvKept, RepeatChainKept, IntervalSpacingKept,
     OncePerEpisodeKept, RecoveryClosesQueueKept DEF RoutesInv

LEMMA RoutesInvHolds == Spec => [](IInv /\ RoutesInv)
<1>1. Init => RoutesInv
  <2>1. Init => events = <<>> /\ DOMAIN deliveries = {}
    BY DEF Init
  <2>2. Init => EpisodeInv
    BY DEF Init, EpisodeInv, RowSound, NoIncident
  <2> QED
    BY <2>1, <2>2 DEF RoutesInv, LedgerInv, RowsInv, RepeatChain, IntervalSpacing,
                      OncePerEpisode, RecoveryClosesQueue
<1> QED
  BY <1>1, InitHolds, IInvKept, RoutesInvKept, PTL DEF Spec

\* Whatever overlaps, expires or crashes, the completion of a delivery is the
\* only way to its next reminder (scheduleRepeat runs in its transaction), so a
\* route never has two copies of one reminder on the way.
THEOREM NotificationRepeats == Spec => []RepeatChain
<1>1. RoutesInv => RepeatChain
  BY DEF RoutesInv
<1> QED BY <1>1, RoutesInvHolds, PTL

\* Two deliveries an interval subscription is not spared were created more than
\* its cooldown apart, for any cooldown and any edits of the subscription: the
\* test of deliveryInitialStatus, which looks at the time of delivery where
\* there is one, never admits what the time of creation would have excluded.
THEOREM NotificationSpacing == Spec => []IntervalSpacing
<1>1. RoutesInv => IntervalSpacing
  BY DEF RoutesInv
<1> QED BY <1>1, RoutesInvHolds, PTL

\* The test of deliveryInitialStatus by occurrence time since the incident
\* opened admits one opening of an episode to a route, although openings arrive
\* late, early or out of order and may be stamped before the episode they join.
THEOREM NotificationAnnouncesOnce == Spec => []OncePerEpisode
<1>1. RoutesInv => OncePerEpisode
  BY DEF RoutesInv
<1> QED BY <1>1, RoutesInvHolds, PTL

\* supersedePendingIncidentDeliveries empties the queue of the routes a merged
\* recovery goes to, and the tests of failDelivery and processDeliveries keep
\* it empty: a tick that held an opening meanwhile puts nothing back.
THEOREM NotificationRecoveries == Spec => []RecoveryClosesQueue
<1>1. RoutesInv => RecoveryClosesQueue
  BY DEF RoutesInv
<1> QED BY <1>1, RoutesInvHolds, PTL
=============================================================================
