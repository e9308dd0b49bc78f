------------------------- MODULE NotificationService -------------------------
(***************************************************************************)
(* The notification service of OmniDeck: emitNotification turns an event   *)
(* into one delivery per matching subscription and channel, and the ticks  *)
(* of the delivery worker claim deliveries under a lease, await the        *)
(* provider and record the outcome.                                        *)
(*                                                                         *)
(* The server is one Node process over one SQLite file.  Code between two  *)
(* awaits runs without interruption: `turn` is the tick that is in the     *)
(* middle of such a stretch, Free when the event loop may start another.   *)
(* A tick is started every five seconds whether or not the previous one    *)
(* returned, so several run at once, interleaved at their awaits.  A crash *)
(* forgets the ticks and keeps the tables.                                 *)
(***************************************************************************)
EXTENDS IncidentRules, Sequences

CONSTANTS
  Users, Admins,             \* accounts, and those with the admin role
  Projects,                  \* notification_projects
  EventTypes,                \* registered event types
  ProjectOf, LifecycleOf,    \* the project and the lifecycle of each type
  DedupeKeys, NoKey,         \* dedupe keys of events, and the absent one
  IdempotencyKeys, NoIdempotencyKey,
  Priorities, Urgent,        \* priorities; Urgent (5) ignores quiet hours
  Channels, InApp,           \* delivery channels; InApp never repeats or fails
  Subs, OwnerOf,             \* subscriptions and the user each belongs to
  Rules, InitialRule,        \* settings an owner may save, and the first ones
  Unset,                       \* NULL in a column that then matches everything
  Workers, NoClaim, Free,    \* ticks in flight; none claimed; none running
  BatchLimit,                \* deliveries one tick handles (20)
  Lease, RetryDelays,        \* 60 s, and <<1 min, 5 min, 15 min, 1 h, 6 h>>
  QuietStart, QuietEnd,      \* the quiet period of the subscriptions that set one
  Backlog, Skew,             \* how late, and how early, an event may be stamped
  ManagedUsers, ManagedProjects, ManagedSubs, \* what people change in an instance
  MaxTime, MaxEvents         \* bounds: the clock, the events emitted

CooldownModes == {"once", "interval", "repeat_count", "until_recovery"}
SummaryModes == {"merged", "recovery_only", "all"}

\* The columns of notification_subscriptions a decision depends on.
RuleType ==
  [project : Projects \cup {Unset}, type : EventTypes \cup {Unset},
   min_priority : 1..5, delivery_priority : 1..5 \cup {Unset},
   channels : SUBSET Channels, cooldown_mode : CooldownModes,
   cooldown : Nat \ {0}, repeat_count : Nat \ {0}, quiet : BOOLEAN,
   summary : SummaryModes, enabled : BOOLEAN]

ASSUME UsersAssumption ==
  Admins \subseteq Users /\ ManagedUsers \subseteq Users /\ ManagedProjects \subseteq Projects
ASSUME CatalogAssumption ==
  /\ ProjectOf \in [EventTypes -> Projects]
  /\ LifecycleOf \in [EventTypes -> {"event", "opened", "recovered"}]
  /\ NoKey \notin DedupeKeys
ASSUME RulesAssumption ==
  /\ OwnerOf \in [Subs -> Users]
  /\ Rules \subseteq RuleType
  /\ InitialRule \in [Subs -> RuleType]
  /\ Priorities \subseteq 1..5 /\ Urgent \in Nat
ASSUME TimingAssumption ==
  /\ Lease \in Nat
  /\ RetryDelays \in Seq(Nat \ {0})
  /\ QuietStart \in Nat /\ QuietEnd \in Nat
  /\ Backlog \in Nat /\ Skew \in Nat /\ BatchLimit \in Nat
  /\ MaxTime \in Nat /\ MaxEvents \in Nat
ASSUME WorkersAssumption == Free \notin Workers

VARIABLES
  now,             \* the clock
  activeUsers,     \* users neither disabled nor deleted
  members,         \* notification_project_members
  enabledProjects, \* projects with enabled=1
  subs,            \* notification_subscriptions
  events,          \* notification_events, in order of insertion
  incidents,       \* notification_incidents
  deliveries,      \* notification_deliveries
  pc, left, claim, \* per tick: where it is, its remaining batch, its claimed row
  turn,            \* the tick between two awaits
  sent             \* history: deliveries the provider has acted on

adminVars == <<activeUsers, members, enabledProjects, subs>>
workerVars == <<pc, left, claim, turn>>
vars == <<now, adminVars, events, incidents, deliveries, workerVars, sent>>

-----------------------------------------------------------------------------
(* Events, incidents and deliveries.                                       *)

IncidentKeys == Projects \X DedupeKeys

\* `episode` is history: opened_at of the incident after the event.
Event ==
  [type : EventTypes, key : DedupeKeys \cup {NoKey}, at : OccurrenceTime,
   priority : Priorities, target : Users \cup {Unset},
   idempotency : IdempotencyKeys \cup {NoIdempotencyKey},
   accepted : BOOLEAN, episode : Nat]

\* UNIQUE(event_id, subscription_id, channel, repeat_index) names a delivery.
DeliveryId == [event : Nat \ {0}, sub : Subs, channel : Channels, index : Nat]

Statuses == {"pending", "processing", "delivered", "failed", "suppressed", "superseded"}
Live == {"pending", "processing", "delivered", "failed"}

\* `rule` is history: the settings of the subscription when the row was made.
DeliveryRow ==
  [status : Statuses, attempt_count : Nat, next_attempt_at : Nat,
   lease_until : Nat, created_at : Nat, delivered_at : Nat, rule : RuleType]

\* The row claimDelivery returns: a copy, stale as soon as the tick awaits.
Claim == [delivery : DeliveryId, lease_until : Nat, attempt_count : Nat \ {0}, rule : RuleType]

KeyOf(e) == <<ProjectOf[e.type], e.key>>
IsOpening(e) == LifecycleOf[e.type] = "opened"
HasIncident(e) == e.key # NoKey /\ LifecycleOf[e.type] \in Lifecycles
EventOf(d) == events[d.event]
ProjectOfDelivery(d) == ProjectOf[EventOf(d).type]

\* The incident of an opening is open and the opening belongs to it.
Current(e) ==
  /\ incidents[KeyOf(e)].status = "open"
  /\ e.at >= incidents[KeyOf(e)].opened_at

MayAccess(user, project) ==
  user \in Admins \/ <<project, user>> \in members

Authorized(d) ==
  /\ OwnerOf[d.sub] \in activeUsers
  /\ ProjectOfDelivery(d) \in enabledProjects
  /\ subs[d.sub].enabled
  /\ MayAccess(OwnerOf[d.sub], ProjectOfDelivery(d))

\* rows with those in D superseded
Superseding(rows, D) ==
  [d \in DOMAIN rows |->
     IF d \in D THEN [rows[d] EXCEPT !.status = "superseded", !.lease_until = NULL]
     ELSE rows[d]]

DeliveryPriority(rule, e) ==
  IF rule.delivery_priority = Unset THEN e.priority ELSE rule.delivery_priority

IsQuiet(t) == QuietStart <= t /\ t < QuietEnd

\* When a delivery wanted at time t is attempted.
AfterQuietHours(rule, e, t) ==
  IF DeliveryPriority(rule, e) < Urgent /\ rule.quiet /\ IsQuiet(t) THEN QuietEnd ELSE t

-----------------------------------------------------------------------------
(* emitNotification.                                                       *)

Matching(e) ==
  {s \in Subs :
     /\ subs[s].enabled /\ OwnerOf[s] \in activeUsers
     /\ subs[s].project \in {Unset, ProjectOf[e.type]}
     /\ subs[s].type \in {Unset, e.type}
     /\ subs[s].min_priority <= e.priority
     /\ e.target \in {Unset, OwnerOf[s]}
     /\ MayAccess(OwnerOf[s], ProjectOf[e.type])}

\* The latest opening is taken for the beginning of the incident.
FaultyCountsAgainst(rule, e, row, d) ==
  EventOf(d).at >= (IF row.status = "open" THEN row.last_opened_at ELSE now - rule.cooldown)

\* A delivery of the route that counts against the cooldown of another one.
\* Modes scoped to an incident count by occurrence time since the incident
\* opened, the others by the time of delivery or creation.
CountsAgainst(rule, e, row, d) ==
  LET fallback == now - rule.cooldown
      old == deliveries[d]
  IN IF rule.cooldown_mode = "interval"
     THEN (IF old.delivered_at # NULL THEN old.delivered_at ELSE old.created_at) >= fallback
     ELSE EventOf(d).at >= (IF row.status = "open" THEN row.opened_at ELSE fallback)

\* Only deliveries that came to an end count.
FaultyCoolingDown(s, c, e, row) ==
  /\ LifecycleOf[e.type] # "recovered" /\ e.key # NoKey
  /\ \E d \in DOMAIN deliveries :
       /\ d.sub = s /\ d.channel = c
       /\ deliveries[d].status \in {"delivered", "failed"}
       /\ KeyOf(EventOf(d)) = KeyOf(e)
       /\ CountsAgainst(subs[s], e, row, d)

\* deliveryInitialStatus, with `row` the incident after updateIncident.
CoolingDown(s, c, e, row) ==
  /\ LifecycleOf[e.type] # "recovered" /\ e.key # NoKey
  /\ \E d \in DOMAIN deliveries :
       /\ d.sub = s /\ d.channel = c
       /\ deliveries[d].status \in Live
       /\ KeyOf(EventOf(d)) = KeyOf(e)
       /\ CountsAgainst(subs[s], e, row, d)

InitialStatus(s, c, e, row) ==
  IF \/ CoolingDown(s, c, e, row)
     \/ IsOpening(e) /\ subs[s].summary = "recovery_only"
  THEN "suppressed" ELSE "pending"

NewRow(s, c, e, row) ==
  [status |-> InitialStatus(s, c, e, row), attempt_count |-> 0,
   next_attempt_at |-> AfterQuietHours(subs[s], e, now), lease_until |-> NULL,
   created_at |-> now, delivered_at |-> NULL, rule |-> subs[s]]

FannedOut(e, n) ==
  {d \in [event : {n}, sub : Matching(e), channel : Channels, index : {0}] :
     d.channel \in subs[d.sub].channels}

\* supersedePendingIncidentDeliveries, for the routes a recovery goes to.
MergedAway(e) ==
  IF LifecycleOf[e.type] = "recovered" /\ e.key # NoKey
  THEN {d \in DOMAIN deliveries :
          /\ d.sub \in Matching(e) /\ d.channel \in subs[d.sub].channels
          /\ subs[d.sub].summary = "merged"
          /\ deliveries[d].status = "pending"
          /\ IsOpening(EventOf(d)) /\ KeyOf(EventOf(d)) = KeyOf(e)}
  ELSE {}

FanOut(e, n, row) ==
  LET kept == Superseding(deliveries, MergedAway(e))
  IN [d \in DOMAIN deliveries \cup FannedOut(e, n) |->
        IF d \in DOMAIN deliveries THEN kept[d] ELSE NewRow(d.sub, d.channel, e, row)]

IdempotencyFresh(type, key) ==
  key # NoIdempotencyKey =>
    \A i \in DOMAIN events :
      ~(events[i].idempotency = key /\ ProjectOf[events[i].type] = ProjectOf[type])

\* One transaction: the event, its incident and its deliveries.  A call that is
\* refused, or repeats an idempotency key, changes nothing and is no step.
Emit(type, key, at, priority, target, idempotency) ==
  /\ turn = Free /\ Len(events) < MaxEvents
  /\ ProjectOf[type] \in enabledProjects
  /\ LifecycleOf[type] \in Lifecycles => key # NoKey
  /\ at <= now + Skew
  /\ IdempotencyFresh(type, idempotency)
  /\ LET draft == [type |-> type, key |-> key, at |-> at, priority |-> priority,
                   target |-> target, idempotency |-> idempotency,
                   accepted |-> TRUE, episode |-> NULL]
         tracked == HasIncident(draft)
         row == IF key = NoKey THEN NoIncident ELSE incidents[KeyOf(draft)]
         after == IF tracked THEN UpdatedIncident(row, LifecycleOf[type], at) ELSE row
         accepted == tracked => Accepts(row, LifecycleOf[type], at)
         e == [draft EXCEPT !.accepted = accepted, !.episode = after.opened_at]
     IN /\ events' = Append(events, e)
        /\ incidents' = IF tracked THEN [incidents EXCEPT ![KeyOf(e)] = after] ELSE incidents
        /\ deliveries' = IF accepted THEN FanOut(e, Len(events) + 1, after) ELSE deliveries
  /\ UNCHANGED <<now, adminVars, workerVars, sent>>

-----------------------------------------------------------------------------
(* The delivery worker, processDeliveries.                                 *)

\* Whatever is not being sent may be swept.
FaultyUnheld(row) == row.status # "processing" \/ row.lease_until < now

\* Rows no running tick can be trusted with.
Unheld(row) ==
  row.status = "pending" \/ (row.status = "processing" /\ row.lease_until < now)

ResolvedAway ==
  {d \in DOMAIN deliveries :
     /\ Unheld(deliveries[d]) /\ IsOpening(EventOf(d))
     /\ subs[d.sub].summary # "all" /\ ~Current(EventOf(d))}

UnauthorizedAway ==
  {d \in DOMAIN deliveries : Unheld(deliveries[d]) /\ ~Authorized(d)}

\* The sweeps delete instead of marking.
FaultyStartTick(w) ==
  /\ turn = Free /\ pc[w] = "idle"
  /\ deliveries' = [d \in DOMAIN deliveries \ (ResolvedAway \cup UnauthorizedAway) |-> deliveries[d]]
  /\ pc' = [pc EXCEPT ![w] = "loop"]
  /\ left' = [left EXCEPT ![w] = BatchLimit]
  /\ turn' = w
  /\ UNCHANGED <<now, adminVars, events, incidents, claim, sent>>

\* The two sweeps, then the loop.
StartTick(w) ==
  /\ turn = Free /\ pc[w] = "idle"
  /\ deliveries' = Superseding(deliveries, ResolvedAway \cup UnauthorizedAway)
  /\ pc' = [pc EXCEPT ![w] = "loop"]
  /\ left' = [left EXCEPT ![w] = BatchLimit]
  /\ turn' = w
  /\ UNCHANGED <<now, adminVars, events, incidents, claim, sent>>

\* The lease is not looked at.
FaultyClaimable(d) ==
  /\ deliveries[d].status \in {"pending", "processing"}
  /\ deliveries[d].next_attempt_at <= now
  /\ Authorized(d)
  /\ IsOpening(EventOf(d)) => subs[d.sub].summary = "all" \/ Current(EventOf(d))

\* A claim that was interrupted is never taken over.
FaultyStuckClaimable(d) == FaultyClaimable(d) /\ deliveries[d].status = "pending"

Claimable(d) ==
  LET row == deliveries[d]
  IN /\ row.status \in {"pending", "processing"}
     /\ row.next_attempt_at <= now
     /\ Authorized(d)
     /\ IsOpening(EventOf(d)) => subs[d.sub].summary = "all" \/ Current(EventOf(d))
     /\ row.lease_until = NULL \/ row.lease_until < now

\* ORDER BY next_attempt_at, created_at
Before(d1, d2) ==
  LET r1 == deliveries[d1]
      r2 == deliveries[d2]
  IN \/ r1.next_attempt_at < r2.next_attempt_at
     \/ r1.next_attempt_at = r2.next_attempt_at /\ r1.created_at <= r2.created_at

\* claimDelivery finds a row: the lease it writes is the token of this claim.
ClaimDelivery(w, d) ==
  /\ pc[w] = "loop" /\ left[w] > 0
  /\ Claimable(d)
  /\ \A o \in DOMAIN deliveries : Claimable(o) => Before(d, o)
  /\ LET attempts == deliveries[d].attempt_count + 1
     IN /\ deliveries' = [deliveries EXCEPT ![d].status = "processing",
                                            ![d].attempt_count = attempts,
                                            ![d].lease_until = now + Lease]
        /\ claim' = [claim EXCEPT ![w] = [delivery |-> d, lease_until |-> now + Lease,
                                          attempt_count |-> attempts, rule |-> subs[d.sub]]]
  /\ pc' = [pc EXCEPT ![w] = "sending"]
  /\ turn' = Free
  /\ UNCHANGED <<now, adminVars, events, incidents, left, sent>>

\* The batch is used up, or nothing is due: the tick returns.
EndTick(w) ==
  /\ pc[w] = "loop"
  /\ left[w] = 0 \/ ~\E d \in DOMAIN deliveries : Claimable(d)
  /\ pc' = [pc EXCEPT ![w] = "idle"]
  /\ left' = [left EXCEPT ![w] = 0]
  /\ turn' = Free
  /\ UNCHANGED <<now, adminVars, events, incidents, deliveries, claim, sent>>

\* The provider acts on the message; its answer is still on the way.
ProviderActs(w) ==
  /\ turn = Free /\ pc[w] = "sending"
  /\ sent' = sent \cup {claim[w].delivery}
  /\ pc' = [pc EXCEPT ![w] = "acted"]
  /\ UNCHANGED <<now, adminVars, events, incidents, deliveries, left, claim, turn>>

\* WHERE id=?
FaultyHoldsLease(w) == claim[w].delivery \in DOMAIN deliveries

\* WHERE id=? AND status='processing' AND lease_until=?
HoldsLease(w) ==
  /\ claim[w].delivery \in DOMAIN deliveries
  /\ deliveries[claim[w].delivery].status = "processing"
  /\ deliveries[claim[w].delivery].lease_until = claim[w].lease_until

\* An incident that is open again is taken for the one that was announced.
FaultyOvertaken(w) ==
  LET e == EventOf(claim[w].delivery)
  IN IsOpening(e) /\ incidents[KeyOf(e)].status # "open"

\* The incident of the claimed opening is no longer open, or opened again later.
Overtaken(w) ==
  LET e == EventOf(claim[w].delivery) IN IsOpening(e) /\ ~Current(e)

\* The claimed row gets a final status, if the claim still holds it.
Settle(w, status) ==
  deliveries' = IF HoldsLease(w)
                THEN [deliveries EXCEPT ![claim[w].delivery].status = status,
                                        ![claim[w].delivery].lease_until = NULL]
                ELSE deliveries

\* The claimed row goes back to the queue, if the claim still holds it.
Requeue(w, delay) ==
  deliveries' = IF HoldsLease(w)
                THEN [deliveries EXCEPT ![claim[w].delivery].status = "pending",
                                        ![claim[w].delivery].next_attempt_at = now + delay,
                                        ![claim[w].delivery].lease_until = NULL]
                ELSE deliveries

\* The tick goes on with its loop.
NextInBatch(w) ==
  /\ pc' = [pc EXCEPT ![w] = "loop"]
  /\ left' = [left EXCEPT ![w] = @ - 1]
  /\ claim' = [claim EXCEPT ![w] = NoClaim]
  /\ turn' = w
  /\ UNCHANGED <<now, adminVars, events, incidents, sent>>

SupersedeOvertaken(w) ==
  /\ turn = Free /\ pc[w] = "acted" /\ Overtaken(w)
  /\ Settle(w, "superseded")
  /\ NextInBatch(w)

\* scheduleRepeat decides from the copy taken when the row was claimed.
WantsRepeat(w) ==
  LET c == claim[w]
      d == c.delivery
  IN /\ d.channel # InApp /\ IsOpening(EventOf(d))
     /\ \/ c.rule.cooldown_mode = "repeat_count" /\ d.index + 1 < c.rule.repeat_count
        \/ c.rule.cooldown_mode = "until_recovery"
     /\ incidents[KeyOf(EventOf(d))].status = "open"

RepeatRow(w) ==
  LET c == claim[w]
  IN [status |-> "pending", attempt_count |-> 0,
      next_attempt_at |-> AfterQuietHours(c.rule, EventOf(c.delivery), now + c.rule.cooldown),
      lease_until |-> NULL, created_at |-> now, delivered_at |-> NULL, rule |-> c.rule]

Successor(d) == [d EXCEPT !.index = @ + 1]

\* One transaction: the delivery and its repeat (INSERT OR IGNORE).
CompleteDelivery(w) ==
  LET d == claim[w].delivery
      done == [deliveries EXCEPT ![d].status = "delivered", ![d].delivered_at = now,
                                 ![d].lease_until = NULL]
  IN /\ turn = Free /\ pc[w] = "acted" /\ ~Overtaken(w) /\ HoldsLease(w)
     /\ deliveries' =
          IF WantsRepeat(w) /\ Successor(d) \notin DOMAIN deliveries
          THEN [x \in DOMAIN deliveries \cup {Successor(d)} |->
                  IF x = Successor(d) THEN RepeatRow(w) ELSE done[x]]
          ELSE done
     /\ NextInBatch(w)

\* The transaction did not commit: the lease was lost, or the database failed.
CompletionFails(w) ==
  /\ turn = Free /\ pc[w] = "acted" /\ ~Overtaken(w)
  /\ Settle(w, "failed")
  /\ NextInBatch(w)

\* failDelivery: the provider refused, or its answer did not arrive.
FailDelivery(w) ==
  /\ turn = Free /\ pc[w] \in {"sending", "acted"}
  /\ claim[w].delivery.channel # InApp
  /\ LET attempts == claim[w].attempt_count
     IN IF Overtaken(w) THEN Settle(w, "superseded")
        ELSE IF attempts > Len(RetryDelays) THEN Settle(w, "failed")
        ELSE Requeue(w, RetryDelays[attempts])
  /\ NextInBatch(w)

-----------------------------------------------------------------------------
(* Users, administrators, the clock, crashes.                              *)

\* A user is disabled or enabled again (users.ts); a deletion acts as a
\* disabling that nobody undoes.
SetUserActive(u) ==
  /\ turn = Free
  /\ activeUsers' = IF u \in activeUsers THEN activeUsers \ {u} ELSE activeUsers \cup {u}
  /\ UNCHANGED <<now, members, enabledProjects, subs, events, incidents, deliveries, workerVars, sent>>

SetMember(p, u) ==
  /\ turn = Free
  /\ \/ <<p, u>> \in members /\ members' = members \ {<<p, u>>}
     \/ <<p, u>> \notin members /\ u \in activeUsers /\ members' = members \cup {<<p, u>>}
  /\ UNCHANGED <<now, activeUsers, enabledProjects, subs, events, incidents, deliveries, workerVars, sent>>

SetProjectEnabled(p) ==
  /\ turn = Free
  /\ enabledProjects' = IF p \in enabledProjects THEN enabledProjects \ {p} ELSE enabledProjects \cup {p}
  /\ UNCHANGED <<now, activeUsers, members, subs, events, incidents, deliveries, workerVars, sent>>

\* PUT of the subscription by its owner: a rule must stay within reach.
SaveSubscription(s, rule) ==
  /\ turn = Free /\ OwnerOf[s] \in activeUsers
  /\ rule.type = Unset => rule.project = Unset \/ MayAccess(OwnerOf[s], rule.project)
  /\ rule.type # Unset => /\ rule.project \in {Unset, ProjectOf[rule.type]}
                        /\ MayAccess(OwnerOf[s], ProjectOf[rule.type])
  /\ subs' = [subs EXCEPT ![s] = rule]
  /\ UNCHANGED <<now, activeUsers, members, enabledProjects, events, incidents, deliveries, workerVars, sent>>

DeleteSubscription(s) ==
  /\ turn = Free /\ OwnerOf[s] \in activeUsers /\ subs[s].enabled
  /\ subs' = [subs EXCEPT ![s].enabled = FALSE]
  /\ UNCHANGED <<now, activeUsers, members, enabledProjects, events, incidents, deliveries, workerVars, sent>>

Advance ==
  /\ turn = Free /\ now < MaxTime
  /\ now' = now + 1
  /\ UNCHANGED <<adminVars, events, incidents, deliveries, workerVars, sent>>

\* The process dies, at an await or between two statements of a tick.
Crash ==
  /\ \E w \in Workers : pc[w] # "idle"
  /\ pc' = [w \in Workers |-> "idle"]
  /\ left' = [w \in Workers |-> 0]
  /\ claim' = [w \in Workers |-> NoClaim]
  /\ turn' = Free
  /\ UNCHANGED <<now, adminVars, events, incidents, deliveries, sent>>

Init ==
  /\ now = 1
  /\ activeUsers = Users
  /\ members = Projects \X Users
  /\ enabledProjects = Projects
  /\ subs = InitialRule
  /\ events = <<>>
  /\ incidents = [k \in IncidentKeys |-> NoIncident]
  /\ deliveries = [d \in {} |-> NoClaim]
  /\ pc = [w \in Workers |-> "idle"]
  /\ left = [w \in Workers |-> 0]
  /\ claim = [w \in Workers |-> NoClaim]
  /\ turn = Free
  /\ sent = {}

Publish ==
  \E type \in EventTypes, key \in DedupeKeys \cup {NoKey}, priority \in Priorities,
     target \in Users \cup {Unset}, idempotency \in IdempotencyKeys \cup {NoIdempotencyKey},
     at \in {t \in 1..(now + Skew) : t + Backlog >= now} :
    Emit(type, key, at, priority, target, idempotency)

WorkerStep(w) ==
  \/ StartTick(w)
  \/ \E d \in DOMAIN deliveries : ClaimDelivery(w, d)
  \/ EndTick(w)
  \/ ProviderActs(w)
  \/ SupersedeOvertaken(w)
  \/ CompleteDelivery(w)
  \/ CompletionFails(w)
  \/ FailDelivery(w)

Manage ==
  \/ \E u \in ManagedUsers : SetUserActive(u) \/ \E p \in Projects : SetMember(p, u)
  \/ \E p \in ManagedProjects : SetProjectEnabled(p)
  \/ \E s \in ManagedSubs : DeleteSubscription(s) \/ \E rule \in Rules : SaveSubscription(s, rule)

Next ==
  \/ Publish
  \/ \E w \in Workers : WorkerStep(w)
  \/ Manage
  \/ Advance
  \/ Crash

Spec == Init /\ [][Next]_vars
=============================================================================
