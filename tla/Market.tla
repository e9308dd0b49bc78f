------------------------------- MODULE Market -------------------------------
(***************************************************************************)
(* The price source, its polls and the procurement rules of the users      *)
(* (market-service.ts, routes/market.ts), one product.                     *)
(*                                                                         *)
(* Servers share the database while one replaces another.  A poll claims   *)
(* the source under a lease, awaits the pointer and the snapshot, and      *)
(* then stores, evaluates and releases without a further await: one step,  *)
(* cut short by a crash at any commit.                                     *)
(*                                                                         *)
(* The publisher's snapshots are numbered as they appear and the pointer   *)
(* never goes back.  The offers of a snapshot are those that are available *)
(* and not expired, so they become fewer as time passes; an offer is       *)
(* identified with its price.  Whatever waits for a time may find it has   *)
(* come.  A snapshot is forgotten when a newer one has been stored.        *)
(* Left out: the limit of ten rules, without which there are more          *)
(* behaviours; disabled users, whose rules are passed over like disabled   *)
(* ones; and what is only shown (observations, runs).                      *)
(***************************************************************************)
EXTENDS Integers, FiniteSets, FiniteSetsExt, Sequences

CONSTANTS Servers, Users, Prices,
          MaxSnapshots, MaxRules, MaxAttempts,   \* bounds: snapshots, rules of a
          MaxFaults                              \* user, attempts; crashes and errors

None == 0
Nobody == "nobody"

ASSUME MarketAssumption ==
  /\ {MaxSnapshots, MaxRules, MaxAttempts, MaxFaults} \subseteq Nat /\ MaxSnapshots > 0
  /\ Prices \subseteq Nat \ {0} /\ Prices # {}
  /\ Nobody \notin Servers

VARIABLES
  feed,        \* the published snapshots
  source,      \* the row of market_sources
  stored,      \* the snapshot whose offers are active in market_offers
  polls,       \* the poll under way in each server (activePoll)
  rules,       \* market_watch_rules, one per user
  events,      \* notification_events of the rules
  faults

vars == <<feed, source, stored, polls, rules, events, faults>>

Snapshots == 1..MaxSnapshots
Latest == Len(feed)

Published == [stale : BOOLEAN, offers : SUBSET Prices]
Forgotten == [stale |-> FALSE, offers |-> {}]

\* `holder` and `expired` are lease_token and lease_until.
Source == [last : 0..MaxSnapshots, status : {"pending", "healthy", "stale", "error"},
           stale : BOOLEAN, holder : Servers \cup {Nobody}, expired : BOOLEAN]

Poll == [step : {"idle", "claimed", "fetched"}, last : 0..MaxSnapshots, stale : BOOLEAN,
         snapshot : 0..MaxSnapshots]
Idle == [step |-> "idle", last |-> None, stale |-> FALSE, snapshot |-> None]

\* `told` and `lost` are history: the notifications since the rule was last
\* reset, and those of them whose sender died before it noted them.
Rule == [id : 0..MaxRules, target : Prices, enabled : BOOLEAN,
         state : {"none", "waiting", "met"}, attempt : 0..MaxAttempts, told : Nat, lost : Nat]

NoRule == [id |-> 0, target |-> Min(Prices), enabled |-> FALSE, state |-> "none", attempt |-> 0,
           told |-> 0, lost |-> 0]

Event == [user : Users, rule : 1..MaxRules, snapshot : Snapshots, attempt : 0..MaxAttempts,
          offer : Prices, of : Snapshots, stale : BOOLEAN, live : BOOLEAN]

-----------------------------------------------------------------------------
(* Evaluation of the rules against the offers of snapshot `at`, in the     *)
(* name of snapshot s.                                                     *)

\* findTargetOffer: the cheapest at or below the target.
FindTargetOffer(rule, at) ==
  LET offers == {o \in feed[at].offers : o <= rule.target}
  IN IF offers = {} THEN None ELSE Min(offers)

\* The events of the idempotency key: none or one.
Keyed(u, rule, s) ==
  {e \in events : e.user = u /\ e.rule = rule.id /\ e.snapshot = s /\ e.attempt = rule.attempt}

\* A rule that is met keeps notifying.
FaultyEmits(u, rule, s, at) ==
  FindTargetOffer(rule, at) # None /\ Keyed(u, rule, s) = {}

Emits(u, rule, s, at) ==
  /\ FindTargetOffer(rule, at) # None
  /\ rule.state = "waiting" /\ Keyed(u, rule, s) = {}

\* A key that was used for another offer counts as sent.
FaultySent(u, rule, s, at) == \A e \in Keyed(u, rule, s) : e.live

Sent(u, rule, s, at) ==
  \A e \in Keyed(u, rule, s) : e.offer = FindTargetOffer(rule, at) /\ e.live

\* A failed delivery does not lead to a new attempt.
FaultyUndelivered(u, rule, s, at) == FALSE

Undelivered(u, rule, s, at) ==
  \E e \in Keyed(u, rule, s) : e.offer = FindTargetOffer(rule, at) /\ ~e.live

Reset(rule) == [rule EXCEPT !.state = "waiting", !.attempt = 0, !.told = 0, !.lost = 0]

Notified(u, rule, s, at) ==
  IF Emits(u, rule, s, at) THEN [rule EXCEPT !.told = @ + 1] ELSE rule

\* What evaluateWatches does with one rule; an exception leaves it as it is.
Evaluated(u, rule, s, at) ==
  CASE FindTargetOffer(rule, at) = None ->
         IF rule.state = "met" \/ rule.attempt # 0 THEN Reset(rule) ELSE rule
    [] FindTargetOffer(rule, at) # None /\ rule.state = "waiting" ->
         IF Sent(u, rule, s, at) THEN [Notified(u, rule, s, at) EXCEPT !.state = "met"]
         ELSE IF Undelivered(u, rule, s, at) THEN [rule EXCEPT !.attempt = @ + 1]
         ELSE rule
    [] OTHER -> Notified(u, rule, s, at)

\* Its sender dies before it is noted.
HalfEvaluated(u, rule, s, at) ==
  IF Emits(u, rule, s, at) THEN [rule EXCEPT !.told = @ + 1, !.lost = @ + 1] ELSE rule

Watching(rows) == {u \in Users : rows[u].state # "none" /\ rows[u].enabled}

\* evaluateWatches, which is through with the rules of the users `done`, and
\* has only notified those of `half`, when it ends.
EvaluateWatches(rows, done, half, s, at) ==
  /\ rules' = [u \in Users |-> CASE u \in done -> Evaluated(u, rows[u], s, at)
                                 [] u \in half -> HalfEvaluated(u, rows[u], s, at)
                                 [] OTHER -> rows[u]]
  /\ events' = events \cup
       {[user |-> u, rule |-> rows[u].id, snapshot |-> s, attempt |-> rows[u].attempt,
         offer |-> FindTargetOffer(rows[u], at), of |-> at, stale |-> feed[at].stale,
         live |-> TRUE] :
           u \in {v \in done \cup half : Emits(v, rows[v], s, at)}}

Fault == faults < MaxFaults /\ faults' = faults + 1

Triggered(rows, u, at) == rows[u].state = "waiting" /\ FindTargetOffer(rows[u], at) # None

\* All the rules of the users U: emitNotification may throw, of a project that is
\* disabled for instance, and leaves the rule as it is.
EvaluateAll(rows, U, s, at) ==
  \E refused \in SUBSET {u \in U : Triggered(rows, u, at)} :
    /\ EvaluateWatches(rows, U \ refused, {}, s, at)
    /\ IF refused = {} THEN UNCHANGED faults ELSE Fault

-----------------------------------------------------------------------------
(* Polls.                                                                  *)

Claimable == source.holder = Nobody \/ source.expired

\* runMarketPoll, forced or because it is time
RunMarketPoll(p) ==
  /\ polls[p] = Idle
  /\ Claimable
  /\ source' = [source EXCEPT !.holder = p, !.expired = FALSE]
  /\ polls' = [polls EXCEPT ![p] = [step |-> "claimed", last |-> source.last,
                                    stale |-> source.stale, snapshot |-> None]]
  /\ UNCHANGED <<feed, stored, rules, events, faults>>

\* fetchSnapshot reads the pointer; the snapshot it names never changes.
FetchPointer(p) ==
  /\ polls[p].step = "claimed"
  /\ polls' = [polls EXCEPT ![p].step = "fetched", ![p].snapshot = Latest]
  /\ UNCHANGED <<feed, source, stored, rules, events, faults>>

Holds(p) == source.holder = p

\* releaseSource by the holder of the lease
Released(status, stale, s) ==
  [source EXCEPT !.status = status, !.stale = stale, !.last = s,
     !.holder = Nobody, !.expired = FALSE]

Over(p) == polls' = [polls EXCEPT ![p] = Idle]

\* The catch of pollClaimedSource: void without the lease.
PollFails(p) ==
  /\ source' = IF Holds(p) THEN Released("error", polls[p].stale, source.last) ELSE source
  /\ Over(p)
  /\ UNCHANGED <<feed, stored, rules, events>>

\* A request fails or times out, or the snapshot is refused.
FetchFails(p) ==
  /\ polls[p].step # "idle"
  /\ PollFails(p)
  /\ Fault

\* The transaction does not look at the lease.
FaultyAssertSourceLease(p) == TRUE

AssertSourceLease(p) == Holds(p)

LeaseLost(p) ==
  /\ polls[p].step = "fetched" /\ ~AssertSourceLease(p)
  /\ PollFails(p)
  /\ UNCHANGED faults

Skipped(p) == polls[p].snapshot = polls[p].last

\* Whether what the poll is about to evaluate is stale.
Stale(p) == IF Skipped(p) THEN polls[p].stale ELSE feed[polls[p].snapshot].stale

\* A stale snapshot is evaluated too.
FaultyEvaluating(p) == Watching(rules)

Evaluating(p) == IF Stale(p) THEN {} ELSE Watching(rules)

\* upsertSnapshot; a skipped poll stores nothing.
UpsertSnapshot(p) ==
  /\ stored' = IF Skipped(p) THEN stored ELSE polls[p].snapshot
  /\ feed' = [s \in DOMAIN feed |-> IF s < stored' THEN Forgotten ELSE feed[s]]

\* The rest of pollClaimedSource after its await.
PollClaimedSource(p) ==
  /\ polls[p].step = "fetched" /\ AssertSourceLease(p)
  /\ UpsertSnapshot(p)
  /\ EvaluateAll(rules, Evaluating(p), polls[p].snapshot, stored')
  /\ source' = IF Holds(p)
               THEN Released(IF Stale(p) THEN "stale" ELSE "healthy", Stale(p), polls[p].snapshot)
               ELSE source
  /\ Over(p)

\* The server dies between two commits of it.
PollDies(p) ==
  /\ polls[p].step = "fetched" /\ AssertSourceLease(p)
  /\ UpsertSnapshot(p)
  /\ \E done \in SUBSET Evaluating(p) : \E half \in SUBSET (Evaluating(p) \ done) :
       /\ Cardinality(half) <= 1
       /\ EvaluateWatches(rules, done, half, polls[p].snapshot, stored')
  /\ Over(p)
  /\ Fault
  /\ UNCHANGED source

\* The server dies while it awaits the network.
Crash(p) ==
  /\ polls[p].step # "idle"
  /\ Over(p)
  /\ Fault
  /\ UNCHANGED <<feed, source, stored, rules, events>>

\* Under a poll only if that takes longer than its requests may.
LeaseExpires ==
  /\ source.holder # Nobody /\ ~source.expired
  /\ source' = [source EXCEPT !.expired = TRUE]
  /\ IF polls[source.holder] = Idle THEN UNCHANGED faults ELSE Fault
  /\ UNCHANGED <<feed, stored, polls, rules, events>>

-----------------------------------------------------------------------------
(* Routes.  A server that dies after the commit of the rule has at most    *)
(* notified its user.                                                      *)

\* evaluateCurrentMarketWatches for one user
EvaluateCurrent(rows, u) ==
  LET current == source.last # None /\ ~source.stale /\ source.status = "healthy"
      due == IF current THEN {u} \cap Watching(rows) ELSE {}
  IN \/ EvaluateAll(rows, due, source.last, stored)
     \/ Fault /\ \E half \in SUBSET due : EvaluateWatches(rows, {}, half, source.last, stored)

\* POST /api/market/watches
PostWatch(u, target, enabled) ==
  LET row == [Reset(rules[u]) EXCEPT !.id = @ + 1, !.target = target, !.enabled = enabled]
  IN /\ rules[u].state = "none" /\ rules[u].id < MaxRules
     /\ stored # None                                 \* the product exists
     /\ EvaluateCurrent([rules EXCEPT ![u] = row], u)
     /\ UNCHANGED <<feed, source, stored, polls>>

\* PATCH /api/market/watches/:id, by its user or an administrator
PatchWatch(u, target, enabled) ==
  LET row == [rules[u] EXCEPT !.target = target, !.enabled = enabled]
  IN /\ rules[u].state # "none"
     /\ EvaluateCurrent([rules EXCEPT ![u] = IF target # rules[u].target THEN Reset(row) ELSE row], u)
     /\ UNCHANGED <<feed, source, stored, polls>>

\* DELETE /api/market/watches/:id; ids are not used again.
DeleteWatch(u) ==
  /\ rules[u].state # "none"
  /\ rules' = [rules EXCEPT ![u] = [NoRule EXCEPT !.id = rules[u].id]]
  /\ UNCHANGED <<feed, source, stored, polls, events, faults>>

-----------------------------------------------------------------------------
(* The publisher, time, and the delivery worker.                           *)

Publish ==
  /\ Latest < MaxSnapshots
  /\ \E snapshot \in Published : feed' = Append(feed, snapshot)
  /\ UNCHANGED <<source, stored, polls, rules, events, faults>>

OfferExpires ==
  /\ \E s \in DOMAIN feed : \E o \in feed[s].offers :
       feed' = [feed EXCEPT ![s].offers = @ \ {o}]
  /\ UNCHANGED <<source, stored, polls, rules, events, faults>>

\* A delivery is suppressed or has used up its retries; not that of the last
\* attempt, which is the bound.
DeliveryFails ==
  /\ \E e \in events :
       /\ e.live /\ e.attempt < MaxAttempts
       /\ events' = (events \ {e}) \cup {[e EXCEPT !.live = FALSE]}
  /\ UNCHANGED <<feed, source, stored, polls, rules, faults>>

-----------------------------------------------------------------------------
Init ==
  /\ feed \in {<<snapshot>> : snapshot \in Published}
  /\ source = [last |-> None, status |-> "pending", stale |-> FALSE, holder |-> Nobody,
               expired |-> FALSE]
  /\ stored = None
  /\ polls = [p \in Servers |-> Idle]
  /\ rules = [u \in Users |-> NoRule]
  /\ events = {} /\ faults = 0

PollStep(p) ==
  FetchPointer(p) \/ FetchFails(p) \/ LeaseLost(p) \/ PollClaimedSource(p)

Route(u) ==
  \/ DeleteWatch(u)
  \/ \E target \in Prices, enabled \in BOOLEAN :
       PostWatch(u, target, enabled) \/ PatchWatch(u, target, enabled)

Next ==
  \/ \E p \in Servers :
       PollStep(p) \/ PollDies(p) \/ Crash(p) \/ RunMarketPoll(p)
  \/ \E u \in Users : Route(u)
  \/ LeaseExpires
  \/ Publish \/ OfferExpires \/ DeliveryFails

Spec == Init /\ [][Next]_vars

\* Timers tick, requests end and time passes.
FairSpec ==
  /\ Spec
  /\ \A p \in Servers : WF_vars(PollStep(p)) /\ WF_vars(RunMarketPoll(p))
  /\ WF_vars(LeaseExpires)

-----------------------------------------------------------------------------
TypeOK ==
  /\ feed \in Seq(Published) /\ Latest <= MaxSnapshots
  /\ source \in Source /\ stored \in 0..Latest /\ polls \in [Servers -> Poll]
  /\ rules \in [Users -> Rule]
  /\ events \subseteq Event /\ faults \in 0..MaxFaults

\* However snapshots, edits and retries follow each other, a rule notifies once
\* until it is reset, and once more for each server that died between sending
\* a notification and noting it.
OncePerTarget == \A u \in Users : rules[u].told <= 1 + rules[u].lost

\* A rule that is shown as met has notified its user of an offer at or below
\* its target: the key of an earlier notification never stands in for it.
MetMeansTold ==
  \A u \in Users : rules[u].state = "met" =>
    \E e \in events : e.user = u /\ e.rule = rules[u].id /\ e.offer <= rules[u].target

\* A source that is healthy and not being polled shows the snapshot it names,
\* and that one is not stale: no poll that lost its lease has put older offers in
\* their place, and what routes evaluate then is current.  All variables have
\* their types.
HealthyIsCurrent ==
  /\ TypeOK
  /\ source.status = "healthy" /\ source.holder = Nobody =>
       stored = source.last /\ ~feed[stored].stale

\* Nobody is notified of the offers of a stale snapshot.  The exception: a server
\* dies between storing it and releasing the source, and an edited rule is
\* evaluated against it in the name of the snapshot before.
FreshOffersOnly == \A e \in events : e.stale => e.of # e.snapshot

Wanted(u) ==
  /\ u \in Watching(rules)
  /\ ~feed[Latest].stale /\ FindTargetOffer(rules[u], Latest) # None

\* The key of the rule at this snapshot has been used for another offer, so
\* that it waits for the next one.
Taken(u) ==
  \E e \in Keyed(u, rules[u], Latest) : e.offer # FindTargetOffer(rules[u], Latest)

\* A rule whose target stays reachable is met in the end, deliveries that fail
\* and servers that die notwithstanding.
WantedIsTold ==
  \A u \in Users : <>[]Wanted(u) => []<>(rules[u].state = "met" \/ Taken(u))
=============================================================================
