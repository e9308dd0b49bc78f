----------------------- MODULE NotificationProperties -----------------------
(***************************************************************************)
(* What the notification service guarantees.                               *)
(***************************************************************************)
EXTENDS NotificationService

TypeOK ==
  /\ now \in Nat \ {0}
  /\ activeUsers \subseteq Users
  /\ members \subseteq Projects \X Users
  /\ enabledProjects \subseteq Projects
  /\ subs \in [Subs -> RuleType]
  /\ events \in Seq(Event)
  /\ incidents \in [IncidentKeys -> IncidentRow]
  /\ DOMAIN deliveries \subseteq DeliveryId
  /\ deliveries \in [DOMAIN deliveries -> DeliveryRow]
  /\ \A d \in DOMAIN deliveries : d.event \in DOMAIN events
  /\ pc \in [Workers -> {"idle", "loop", "sending", "acted"}]
  /\ left \in [Workers -> Nat]
  /\ claim \in [Workers -> Claim \cup {NoClaim}]
  /\ turn \in Workers \cup {Free}
  /\ sent \subseteq DOMAIN deliveries

\* The ticks that are awaiting a provider.
Busy(w) == pc[w] \in {"sending", "acted"}

\* lease_until is the fencing token of a claim: two ticks that hold the same
\* delivery, one of them past its lease, never hold the same token, so the
\* updates that end processDeliveries and failDelivery tell them apart.
TokensDiffer ==
  \A w1, w2 \in Workers :
    /\ w1 # w2 /\ Busy(w1) /\ Busy(w2)
    /\ claim[w1].delivery = claim[w2].delivery
    => claim[w1].lease_until # claim[w2].lease_until

\* An opening belongs to the episode in progress exactly when it occurred no
\* earlier than the episode began: the comparison supersedeResolvedIncident-
\* Deliveries, claimDelivery, processDeliveries and failDelivery all make never
\* mistakes an opening of an earlier episode for one of the current episode.
EpisodeFence ==
  \A i \in DOMAIN events :
    LET e == events[i]
    IN e.accepted /\ IsOpening(e) =>
         (Current(e) <=> /\ incidents[KeyOf(e)].status = "open"
                         /\ incidents[KeyOf(e)].opened_at = e.episode)

\* An opening's delivery on a route: first ones only, repeats have their index.
FirstOpening(d) == d.index = 0 /\ IsOpening(EventOf(d))
SameRoute(d1, d2) ==
  d1.sub = d2.sub /\ d1.channel = d2.channel /\ KeyOf(EventOf(d1)) = KeyOf(EventOf(d2))

\* A subscription with an incident-scoped cooldown announces an episode once
\* on each channel, however often and in whatever order its openings are
\* published while deliveries are pending, retried, superseded or finished.
OncePerEpisode ==
  \A d1, d2 \in DOMAIN deliveries :
    /\ FirstOpening(d1) /\ FirstOpening(d2) /\ SameRoute(d1, d2)
    /\ EventOf(d1).episode = EventOf(d2).episode /\ d1.event < d2.event
    /\ deliveries[d2].rule.cooldown_mode # "interval"
    => ~(deliveries[d1].status \in Live /\ deliveries[d2].status \in Live)

\* An interval subscription is spared events of one dedupe key: two it is sent
\* on a route were published more than the cooldown apart, whether the earlier
\* one is queued, being retried, delivered late or failed.
IntervalSpacing ==
  \A d1, d2 \in DOMAIN deliveries :
    /\ d1.index = 0 /\ d2.index = 0 /\ SameRoute(d1, d2) /\ d1.event < d2.event
    /\ EventOf(d2).key # NoKey /\ LifecycleOf[EventOf(d2).type] # "recovered"
    /\ deliveries[d2].rule.cooldown_mode = "interval"
    /\ deliveries[d1].status \in Live /\ deliveries[d2].status \in Live
    => deliveries[d2].created_at - deliveries[d1].created_at > deliveries[d2].rule.cooldown

\* Repeats form a chain: the next one exists only once the previous one was
\* delivered, so a route never has two copies of one reminder in flight.
RepeatChain ==
  \A d \in DOMAIN deliveries :
    d.index > 0 =>
      LET previous == [d EXCEPT !.index = @ - 1]
      IN previous \in DOMAIN deliveries /\ deliveries[previous].status = "delivered"

\* Once a merged subscription was told of a recovery, no older opening of that
\* incident is queued on the route: none that waited in the queue, and none
\* that a tick held while the recovery was published and that then failed.
RecoveryClosesQueue ==
  \A d, r \in DOMAIN deliveries :
    /\ IsOpening(EventOf(d)) /\ LifecycleOf[EventOf(r).type] = "recovered"
    /\ SameRoute(d, r) /\ d.event < r.event
    /\ deliveries[r].rule.summary = "merged"
    => deliveries[d].status # "pending"

StageOf(status) ==
  CASE status \in {"pending", "processing"} -> "queued"
    [] status = "delivered" -> "done"
    [] OTHER -> "dropped"

\* The delivery table is a durable at-least-once outbox, across overlapping
\* ticks, expired leases, late answers and crashes.
AtLeastOnce ==
  INSTANCE Outbox WITH
    Deliveries <- DeliveryId,
    stage <- [d \in DOMAIN deliveries |-> StageOf(deliveries[d].status)]
ImplementsOutbox == AtLeastOnce!Spec

\* docs/notifications.md: "`all` preserves both": the deliveries of an opening
\* to an `all` subscription end some other way than superseded by a recovery.
AllPreservesBoth ==
  [][\A d \in DOMAIN deliveries :
       /\ IsOpening(EventOf(d)) /\ subs[d.sub].summary = "all" /\ Authorized(d)
       => ~(deliveries[d].status # "superseded" /\ deliveries'[d].status = "superseded")]_vars

\* docs/notifications.md: "Lower priorities wait until the user's quiet period
\* ends": a provider never acts on one inside the quiet period.
QuietHoursKept ==
  [][\A w \in Workers :
       LET d == claim[w].delivery
           rule == claim[w].rule
       IN pc[w] = "sending" /\ pc'[w] = "acted" /\ rule.quiet
            /\ DeliveryPriority(rule, EventOf(d)) < Urgent
          => ~IsQuiet(now)]_vars
=============================================================================
