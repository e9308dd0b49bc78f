---------------------------- MODULE MarketProofs ----------------------------
(***************************************************************************)
(* Proofs about the price source and the procurement rules, for any number *)
(* of servers, users, prices, snapshots, attempts and faults.              *)
(***************************************************************************)
EXTENDS Market, WellFoundedInduction, TLAPS

-----------------------------------------------------------------------------
(* The inductive invariant: SourceInv /\ RulesInv.                         *)

\* A rule was notified once more than it lost, if it is met, and has told its
\* user of an offer within its target.
RuleSound(u, rule, evs) ==
  /\ rule.state # "none" => rule.id \in 1..MaxRules
  /\ rule.told <= rule.lost + (IF rule.state = "met" THEN 1 ELSE 0)
  /\ rule.state = "met" =>
       \E e \in evs : e.user = u /\ e.rule = rule.id /\ e.offer <= rule.target

RulesSound(rows, evs) ==
  /\ rows \in [Users -> Rule]
  /\ \A u \in Users : RuleSound(u, rows[u], evs)

\* Only a failed delivery leads to another attempt.
EventsSound ==
  /\ events \subseteq Event
  /\ \A e \in events : ~e.live => e.attempt < MaxAttempts
  /\ FreshOffersOnly

\* What the row of the source says of the offers stored.  A snapshot stored and
\* not yet named by the row is newer.
SourceSound ==
  /\ source.last <= stored
  /\ source.last = stored /\ stored # None => source.stale = feed[stored].stale
  /\ source.status = "healthy" => source.last # None /\ ~source.stale
  /\ source.status = "healthy" /\ source.holder = Nobody => source.last = stored

\* The poll that holds the lease still knows the row, and has fetched nothing
\* older than what is stored.
HolderSound ==
  \A p \in Servers :
    source.holder = p /\ polls[p].step # "idle" =>
      /\ polls[p].last = source.last /\ polls[p].stale = source.stale
      /\ polls[p].step = "fetched" =>
           /\ stored <= polls[p].snapshot /\ polls[p].snapshot <= Latest
           /\ polls[p].snapshot # None

SourceTypes ==
  /\ feed \in Seq(Published) /\ 0 < Latest /\ Latest <= MaxSnapshots
  /\ source \in Source /\ stored \in 0..Latest /\ polls \in [Servers -> Poll]
  /\ faults \in 0..MaxFaults

SourceInv == SourceTypes /\ SourceSound /\ HolderSound

RulesInv == RulesSound(rules, events) /\ EventsSound

-----------------------------------------------------------------------------
(* Offers.                                                                 *)

LEMMA MinNat ==
  ASSUME NEW S, S \subseteq Nat, S # {}
  PROVE  Min(S) \in S
<1> DEFINE R == OpToRel(<, Nat)
<1>1. IsWellFoundedOn(R, Nat)
  BY NatLessThanWellFounded
<1>2. \A x \in Nat, y \in Nat : y < x => <<y, x>> \in R
  BY DEF OpToRel
<1> HIDE DEF R
<1>3. PICK x \in S : \A y \in S : <<y, x>> \notin R
  BY <1>1, WFMin
<1>4. ASSUME NEW y \in S
      PROVE  x <= y
  <2>1. x \in Nat /\ y \in Nat /\ ~(y < x)
    BY <1>2, <1>3
  <2> QED BY <2>1
<1> QED BY <1>4 DEF Min

LEMMA TargetOffer ==
  ASSUME feed \in Seq(Published), NEW at \in DOMAIN feed, NEW rule \in Rule,
         FindTargetOffer(rule, at) # None
  PROVE  /\ FindTargetOffer(rule, at) \in Prices
         /\ FindTargetOffer(rule, at) <= rule.target
<1> DEFINE offers == {o \in feed[at].offers : o <= rule.target}
<1>1. offers \subseteq Prices
  <2>1. feed[at] \in Published
    OBVIOUS
  <2> QED BY <2>1 DEF Published
<1>2. offers # {} /\ FindTargetOffer(rule, at) = Min(offers)
  BY DEF FindTargetOffer
<1>3. offers \subseteq Nat
  BY <1>1, MarketAssumption
<1>4. Min(offers) \in offers
  <2> HIDE DEF offers
  <2> QED BY <1>2, <1>3, MinNat
<1> QED BY <1>1, <1>2, <1>4

-----------------------------------------------------------------------------
(* One rule.                                                               *)

\* The columns of a rule, and of one that was edited.
LEMMA RuleColumns ==
  ASSUME NEW rule \in Rule
  PROVE  /\ rule.id \in 0..MaxRules /\ rule.target \in Prices
         /\ rule.attempt \in 0..MaxAttempts /\ rule.told \in Nat /\ rule.lost \in Nat
         /\ rule.attempt \in Nat
BY DEF Rule

LEMMA NoRuleColumns ==
  NoRule \in Rule /\ NoRule.state = "none" /\ NoRule.told = 0 /\ NoRule.lost = 0
<1> DEFINE target == Min(Prices)
<1>1. target \in Prices
  BY MinNat, MarketAssumption
<1>2. NoRule = [id |-> 0, target |-> target, enabled |-> FALSE, state |-> "none", attempt |-> 0,
                told |-> 0, lost |-> 0]
  BY DEF NoRule
<1>3. 0 \in 0..MaxRules /\ 0 \in 0..MaxAttempts
  BY MarketAssumption
<1> HIDE DEF target
<1> QED BY <1>1, <1>2, <1>3 DEF Rule

LEMMA ResetRule ==
  ASSUME NEW rule \in Rule
  PROVE  LET new == Reset(rule)
         IN /\ new \in Rule /\ new.id = rule.id /\ new.target = rule.target
            /\ new.state = "waiting" /\ new.told = 0 /\ new.lost = 0
<1> DEFINE new == Reset(rule)
<1>1. new = [rule EXCEPT !.state = "waiting", !.attempt = 0, !.told = 0, !.lost = 0]
  BY DEF Reset
<1>2. 0 \in 0..MaxAttempts /\ 0 \in Nat
  BY MarketAssumption
<1> HIDE DEF new
<1>3. /\ new \in Rule /\ new.id = rule.id /\ new.target = rule.target
      /\ new.state = "waiting" /\ new.told = 0 /\ new.lost = 0
  BY <1>1, <1>2 DEF Rule
<1> QED BY <1>3 DEF new

LEMMA ToldRule ==
  ASSUME NEW rule \in Rule, NEW s, NEW at, NEW u
  PROVE  LET new == Notified(u, rule, s, at)
         IN /\ new \in Rule /\ new.id = rule.id /\ new.target = rule.target
            /\ new.state = rule.state /\ new.lost = rule.lost
            /\ new.told = rule.told + (IF Emits(u, rule, s, at) THEN 1 ELSE 0)
<1> DEFINE new == Notified(u, rule, s, at)
           told == rule.told + 1
           more == [rule EXCEPT !.told = told]
<1>1. told \in Nat /\ rule.told \in Nat
  BY RuleColumns
<1>2. new = IF Emits(u, rule, s, at) THEN more ELSE rule
  BY DEF Notified
<1>3. more = [rule EXCEPT !.told = told]
  OBVIOUS
<1> HIDE DEF new, more, told
<1>4. /\ more \in Rule /\ more.id = rule.id /\ more.target = rule.target
      /\ more.state = rule.state /\ more.lost = rule.lost /\ more.told = told
  BY <1>1, <1>3 DEF Rule
<1> QED BY <1>1, <1>2, <1>4 DEF new, told

LEMMA MetRule ==
  ASSUME NEW rule \in Rule
  PROVE  LET new == [rule EXCEPT !.state = "met"]
         IN /\ new \in Rule /\ new.id = rule.id /\ new.target = rule.target
            /\ new.state = "met" /\ new.lost = rule.lost /\ new.told = rule.told
BY DEF Rule

LEMMA RetriedRule ==
  ASSUME NEW rule \in Rule, rule.attempt < MaxAttempts
  PROVE  LET new == [rule EXCEPT !.attempt = @ + 1]
         IN /\ new \in Rule /\ new.id = rule.id /\ new.target = rule.target
            /\ new.state = rule.state /\ new.lost = rule.lost /\ new.told = rule.told
<1> DEFINE attempt == rule.attempt + 1
           new == [rule EXCEPT !.attempt = attempt]
<1>1. attempt \in 0..MaxAttempts
  BY RuleColumns, MarketAssumption
<1>2. new = [rule EXCEPT !.attempt = attempt]
  OBVIOUS
<1> HIDE DEF new, attempt
<1>3. /\ new \in Rule /\ new.id = rule.id /\ new.target = rule.target
      /\ new.state = rule.state /\ new.lost = rule.lost /\ new.told = rule.told
  BY <1>1, <1>2 DEF Rule
<1> QED BY <1>3 DEF new, attempt

\* A rule stays sound among more events when nothing its soundness is about changes.
LEMMA StaysSound ==
  ASSUME NEW u, NEW rule \in Rule, NEW new \in Rule, NEW evs, NEW more, evs \subseteq more,
         RuleSound(u, rule, evs), new.id = rule.id, new.target = rule.target,
         new.state = rule.state, new.told = rule.told, new.lost = rule.lost
  PROVE  RuleSound(u, new, more)
BY DEF RuleSound

\* `told`: the rule has told its user now, if it says so.
LEMMA EvaluatedSound ==
  ASSUME feed \in Seq(Published), NEW at \in DOMAIN feed, NEW s, NEW u,
         EventsSound, NEW rule \in Rule, RuleSound(u, rule, events), rule.state # "none",
         NEW evs, events \subseteq evs,
         Emits(u, rule, s, at) =>
           \E e \in evs : e.user = u /\ e.rule = rule.id /\ e.offer = FindTargetOffer(rule, at)
  PROVE  Evaluated(u, rule, s, at) \in Rule /\ RuleSound(u, Evaluated(u, rule, s, at), evs)
<1> DEFINE new == Evaluated(u, rule, s, at)
           offer == FindTargetOffer(rule, at)
<1>1. rule.told \in Nat /\ rule.lost \in Nat /\ rule.id \in 1..MaxRules
  BY RuleColumns DEF RuleSound
<1>2. CASE offer = None
  <2>1. new = Reset(rule) \/ new = rule
    BY <1>2 DEF Evaluated
  <2>2. Reset(rule) \in Rule /\ RuleSound(u, Reset(rule), evs)
    BY <1>1, ResetRule DEF RuleSound
  <2>3. RuleSound(u, rule, evs)
    BY StaysSound
  <2> QED BY <2>1, <2>2, <2>3
<1>3. CASE offer # None /\ rule.state = "waiting" /\ Sent(u, rule, s, at)
  <2> DEFINE told == Notified(u, rule, s, at)
  <2>1. new = [told EXCEPT !.state = "met"]
    BY <1>3 DEF Evaluated
  <2>2. /\ told \in Rule /\ told.id = rule.id /\ told.target = rule.target
        /\ told.lost = rule.lost
        /\ told.told = rule.told + (IF Emits(u, rule, s, at) THEN 1 ELSE 0)
    BY ToldRule
  <2> HIDE DEF told, new
  <2>3. /\ new \in Rule /\ new.id = rule.id /\ new.target = rule.target
        /\ new.state = "met" /\ new.lost = rule.lost /\ new.told = told.told
    BY <2>1, <2>2, MetRule
  <2>4. new.told <= new.lost + 1
    BY <1>1, <1>3, <2>2, <2>3 DEF RuleSound
  <2>5. \E e \in evs : e.user = u /\ e.rule = rule.id /\ e.offer = offer
    <3>1. CASE Keyed(u, rule, s) = {}
      BY <1>3, <3>1 DEF Emits
    <3>2. CASE Keyed(u, rule, s) # {}
      BY <1>3, <3>2 DEF Keyed, Sent
    <3> QED BY <3>1, <3>2
  <2>6. offer <= rule.target
    BY <1>3, TargetOffer
  <2> HIDE DEF offer
  <2> QED BY <1>1, <2>3, <2>4, <2>5, <2>6 DEF RuleSound, new
<1>4. CASE /\ offer # None /\ rule.state = "waiting" /\ ~Sent(u, rule, s, at)
           /\ Undelivered(u, rule, s, at)
  <2>1. new = [rule EXCEPT !.attempt = @ + 1]
    BY <1>4 DEF Evaluated
  <2>2. rule.attempt < MaxAttempts
    BY <1>4 DEF Undelivered, Keyed, EventsSound
  <2> HIDE DEF new
  <2> QED BY <2>1, <2>2, RetriedRule, StaysSound DEF new
<1>5. CASE /\ offer # None /\ rule.state = "waiting" /\ ~Sent(u, rule, s, at)
           /\ ~Undelivered(u, rule, s, at)
  <2>1. new = rule
    BY <1>5 DEF Evaluated
  <2> QED BY <2>1, StaysSound
<1>6. CASE offer # None /\ rule.state # "waiting"
  <2>1. new = Notified(u, rule, s, at) /\ ~Emits(u, rule, s, at)
    BY <1>6 DEF Evaluated, Emits
  <2>2. new = rule
    BY <2>1 DEF Notified
  <2> QED BY <2>2, StaysSound
<1> QED BY <1>2, <1>3, <1>4, <1>5, <1>6

\* A notification nobody noted is counted as lost.
LEMMA HalfEvaluatedSound ==
  ASSUME NEW at, NEW s, NEW u, NEW rule \in Rule, RuleSound(u, rule, events),
         NEW evs, events \subseteq evs
  PROVE  HalfEvaluated(u, rule, s, at) \in Rule /\ RuleSound(u, HalfEvaluated(u, rule, s, at), evs)
<1> DEFINE new == HalfEvaluated(u, rule, s, at)
           told == rule.told + 1
           lost == rule.lost + 1
           more == [rule EXCEPT !.told = told, !.lost = lost]
<1>1. rule.told \in Nat /\ rule.lost \in Nat /\ told \in Nat /\ lost \in Nat
  BY RuleColumns
<1>2. new = IF Emits(u, rule, s, at) THEN more ELSE rule
  BY DEF HalfEvaluated
<1>3. more = [rule EXCEPT !.told = told, !.lost = lost] /\ told = rule.told + 1 /\ lost = rule.lost + 1
  OBVIOUS
<1> HIDE DEF new, told, lost, more
<1>4. /\ more \in Rule /\ more.id = rule.id /\ more.target = rule.target
      /\ more.state = rule.state /\ more.told = told /\ more.lost = lost
  BY <1>1, <1>3 DEF Rule
<1>5. RuleSound(u, more, evs)
  BY <1>1, <1>3, <1>4 DEF RuleSound
<1>6. RuleSound(u, rule, evs)
  BY StaysSound
<1> QED BY <1>2, <1>4, <1>5, <1>6 DEF new

-----------------------------------------------------------------------------
(* All the rules.                                                          *)

\* Snapshot `at` may be evaluated in the name of s.
Evaluable(s, at) ==
  /\ s \in Snapshots /\ at \in Snapshots /\ at \in DOMAIN feed
  /\ feed[at].stale => at # s

Notification(u, rule, s, at) ==
  [user |-> u, rule |-> rule.id, snapshot |-> s, attempt |-> rule.attempt,
   offer |-> FindTargetOffer(rule, at), of |-> at, stale |-> feed[at].stale, live |-> TRUE]

LEMMA NotificationTyped ==
  ASSUME feed \in Seq(Published), NEW u \in Users, NEW rule \in Rule, NEW s, NEW at,
         Evaluable(s, at), RuleSound(u, rule, events), Emits(u, rule, s, at)
  PROVE  Notification(u, rule, s, at) \in Event
<1>1. feed[at].stale \in BOOLEAN
  <2>1. feed[at] \in Published
    BY DEF Evaluable
  <2> QED BY <2>1 DEF Published
<1>2. rule.id \in 1..MaxRules /\ rule.attempt \in 0..MaxAttempts
  BY RuleColumns DEF RuleSound, Emits
<1>3. FindTargetOffer(rule, at) \in Prices
  BY TargetOffer DEF Evaluable, Emits
<1> QED BY <1>1, <1>2, <1>3 DEF Notification, Event, Evaluable

LEMMA EvaluateWatchesKeeps ==
  ASSUME feed \in Seq(Published), EventsSound, NEW rows, RulesSound(rows, events),
         NEW done, NEW half, done \cap half = {}, done \cup half \subseteq Watching(rows),
         NEW s, NEW at, done \cup half # {} => Evaluable(s, at),
         EvaluateWatches(rows, done, half, s, at)
  PROVE  RulesSound(rules', events') /\ EventsSound'
<1> DEFINE sending == {v \in done \cup half : Emits(v, rows[v], s, at)}
           new == {Notification(u, rows[u], s, at) : u \in sending}
<1>1. /\ rules' = [u \in Users |-> CASE u \in done -> Evaluated(u, rows[u], s, at)
                                     [] u \in half -> HalfEvaluated(u, rows[u], s, at)
                                     [] OTHER -> rows[u]]
      /\ events' = events \cup new
  BY DEF EvaluateWatches, Notification
<1>2. \A u \in done \cup half : u \in Users /\ rows[u].state # "none" /\ Evaluable(s, at)
  BY DEF Watching
<1>3. \A u \in Users : rows[u] \in Rule /\ RuleSound(u, rows[u], events)
  BY DEF RulesSound
<1>4. \A u \in sending : /\ Notification(u, rows[u], s, at) \in new
                         /\ Notification(u, rows[u], s, at) \in Event
  BY <1>2, <1>3, NotificationTyped
<1>5. \A e \in new : \E u \in sending : e = Notification(u, rows[u], s, at)
  OBVIOUS
<1>6. \A u \in done \cup half : Emits(u, rows[u], s, at) => u \in sending
  OBVIOUS
<1>7. sending \subseteq done \cup half
  OBVIOUS
<1> HIDE DEF new, sending
<1>8. ASSUME NEW u \in done \cup half, Emits(u, rows[u], s, at)
      PROVE  \E e \in events' : /\ e.user = u /\ e.rule = rows[u].id
                                /\ e.offer = FindTargetOffer(rows[u], at)
  <2>1. Notification(u, rows[u], s, at) \in events'
    BY <1>1, <1>4, <1>6, <1>8
  <2> QED BY <2>1 DEF Notification
<1>9. ASSUME NEW u \in Users
      PROVE  rules'[u] \in Rule /\ RuleSound(u, rules'[u], events')
  <2>1. rows[u] \in Rule /\ RuleSound(u, rows[u], events) /\ events \subseteq events'
    BY <1>1, <1>3
  <2>2. CASE u \in done
    <3>1. rules'[u] = Evaluated(u, rows[u], s, at)
      BY <1>1, <2>2
    <3>2. at \in DOMAIN feed /\ rows[u].state # "none"
      BY <1>2, <2>2 DEF Evaluable
    <3>3. Emits(u, rows[u], s, at) =>
            \E e \in events' : /\ e.user = u /\ e.rule = rows[u].id
                               /\ e.offer = FindTargetOffer(rows[u], at)
      BY <1>8, <2>2
    <3> QED BY <2>1, <3>1, <3>2, <3>3, EvaluatedSound
  <2>3. CASE u \notin done /\ u \in half
    BY <1>1, <2>1, <2>3, HalfEvaluatedSound
  <2>4. CASE u \notin done /\ u \notin half
    BY <1>1, <2>1, <2>4, StaysSound
  <2> QED BY <2>2, <2>3, <2>4
<1>10. RulesSound(rules', events')
  <2>1. rules' = [u \in Users |-> rules'[u]]
    BY <1>1
  <2> QED BY <1>9, <2>1 DEF RulesSound
<1>11. \A e \in new : e \in Event /\ e.live /\ (e.stale => e.of # e.snapshot)
  <2>1. ASSUME NEW u \in sending
        PROVE  LET e == Notification(u, rows[u], s, at)
               IN e \in Event /\ e.live /\ (e.stale => e.of # e.snapshot)
    BY <1>2, <1>4, <1>7 DEF Notification, Evaluable
  <2> QED BY <1>5, <2>1
<1>12. EventsSound'
  BY <1>1, <1>11 DEF EventsSound, FreshOffersOnly
<1> QED BY <1>10, <1>12

LEMMA EvaluateAllKeeps ==
  ASSUME feed \in Seq(Published), EventsSound, NEW rows, RulesSound(rows, events),
         NEW U, U \subseteq Watching(rows), NEW s, NEW at, U # {} => Evaluable(s, at),
         faults \in 0..MaxFaults, EvaluateAll(rows, U, s, at)
  PROVE  RulesSound(rules', events') /\ EventsSound' /\ faults' \in 0..MaxFaults
<1>1. PICK refused \in SUBSET {u \in U : Triggered(rows, u, at)} :
        /\ EvaluateWatches(rows, U \ refused, {}, s, at)
        /\ IF refused = {} THEN UNCHANGED faults ELSE Fault
  BY DEF EvaluateAll
<1> DEFINE done == U \ refused
<1>2. /\ done \cap {} = {} /\ done \cup {} \subseteq Watching(rows)
      /\ done \cup {} # {} => Evaluable(s, at)
  OBVIOUS
<1>3. EvaluateWatches(rows, done, {}, s, at)
  BY <1>1
<1> HIDE DEF done
<1>4. RulesSound(rules', events') /\ EventsSound'
  BY <1>2, <1>3, EvaluateWatchesKeeps
<1>5. faults' \in 0..MaxFaults
  BY <1>1, MarketAssumption DEF Fault
<1> QED BY <1>4, <1>5

-----------------------------------------------------------------------------
(* The rules under the steps of the polls.                                 *)

LEMMA Fetched ==
  ASSUME SourceInv, NEW p \in Servers, polls[p].step = "fetched", Holds(p)
  PROVE  /\ polls[p].last = source.last /\ polls[p].stale = source.stale
         /\ polls[p].snapshot \in 1..Latest /\ polls[p].snapshot \in Snapshots
         /\ stored <= polls[p].snapshot /\ source.last <= stored
         /\ source.last \in 0..MaxSnapshots /\ stored \in 0..Latest /\ Latest \in Nat
<1>1. polls[p] \in Poll /\ source \in Source
  BY DEF SourceInv, SourceTypes
<1>2. polls[p].snapshot \in 0..MaxSnapshots /\ source.last \in 0..MaxSnapshots
  BY <1>1 DEF Poll, Source
<1>3. /\ polls[p].last = source.last /\ polls[p].stale = source.stale
      /\ stored <= polls[p].snapshot /\ polls[p].snapshot <= Latest
      /\ polls[p].snapshot # 0 /\ source.last <= stored
  BY DEF SourceInv, HolderSound, SourceSound, Holds, None
<1>4. Latest \in Nat /\ Latest <= MaxSnapshots /\ stored \in 0..Latest
  BY DEF SourceInv, SourceTypes, Latest
<1> QED BY <1>2, <1>3, <1>4, MarketAssumption DEF Snapshots

\* A poll that holds the lease leaves stored what it fetched, skipped or not.
LEMMA StoredNow ==
  ASSUME SourceInv, NEW p \in Servers, polls[p].step = "fetched", Holds(p), UpsertSnapshot(p)
  PROVE  /\ stored' = polls[p].snapshot
         /\ feed' \in Seq(Published) /\ Len(feed') = Len(feed)
         /\ feed'[stored'] = feed[stored']
         /\ source.last = stored' => stored = stored'
<1>1. stored' = polls[p].snapshot
  BY Fetched DEF UpsertSnapshot, Skipped
<1>2. stored' \in DOMAIN feed /\ feed \in Seq(Published) /\ stored' \in Nat
  BY <1>1, Fetched DEF SourceInv, SourceTypes, Latest
<1>3. feed' = [s \in DOMAIN feed |-> IF s < stored' THEN Forgotten ELSE feed[s]]
  BY DEF UpsertSnapshot
<1>4. Forgotten \in Published
  BY DEF Forgotten, Published
<1>5. feed' \in Seq(Published) /\ Len(feed') = Len(feed) /\ DOMAIN feed = 1..Len(feed)
  BY <1>2, <1>3, <1>4
<1>6. feed'[stored'] = feed[stored']
  BY <1>2, <1>3
<1>7. source.last = stored' => stored = stored'
  BY <1>1, Fetched
<1> QED BY <1>1, <1>5, <1>6, <1>7

\* Nothing is evaluated when what is stored is stale.
LEMMA FreshIsEvaluable ==
  ASSUME SourceInv, NEW p \in Servers, polls[p].step = "fetched", Holds(p)
  PROVE  Evaluating(p) # {} => Evaluable(polls[p].snapshot, polls[p].snapshot)
<1> SUFFICES ASSUME Evaluating(p) # {}
             PROVE  Evaluable(polls[p].snapshot, polls[p].snapshot)
  OBVIOUS
<1>1. ~Stale(p)
  BY DEF Evaluating
<1>2. ~feed[polls[p].snapshot].stale
  <2>1. CASE Skipped(p)
    <3>1. stored = polls[p].snapshot /\ source.last = stored /\ stored # None
      BY <2>1, Fetched DEF Skipped, None
    <3>2. ~source.stale
      BY <1>1, <2>1, Fetched DEF Stale
    <3> QED BY <3>1, <3>2 DEF SourceInv, SourceSound
  <2>2. CASE ~Skipped(p)
    BY <1>1, <2>2 DEF Stale
  <2> QED BY <2>1, <2>2
<1>3. polls[p].snapshot \in DOMAIN feed
  BY Fetched DEF SourceInv, SourceTypes, Latest
<1> QED BY <1>2, <1>3, Fetched DEF Evaluable

LEMMA PollKeepsRules ==
  ASSUME SourceInv, RulesInv, NEW p \in Servers, PollClaimedSource(p) \/ PollDies(p)
  PROVE  RulesInv' /\ faults' \in 0..MaxFaults
<1> DEFINE s == polls[p].snapshot
<1>1. /\ polls[p].step = "fetched" /\ Holds(p) /\ UpsertSnapshot(p)
      /\ feed \in Seq(Published) /\ faults \in 0..MaxFaults
      /\ RulesSound(rules, events) /\ EventsSound
  BY DEF PollClaimedSource, PollDies, AssertSourceLease, SourceInv, SourceTypes, RulesInv
<1>2. stored' = s
  BY <1>1, StoredNow
<1>3. Evaluating(p) # {} => Evaluable(s, s)
  BY <1>1, FreshIsEvaluable
<1>4. Evaluating(p) \subseteq Watching(rules)
  BY DEF Evaluating
<1>5. CASE PollClaimedSource(p)
  <2>1. EvaluateAll(rules, Evaluating(p), s, s)
    BY <1>2, <1>5 DEF PollClaimedSource
  <2>2. RulesSound(rules', events') /\ EventsSound' /\ faults' \in 0..MaxFaults
    BY <1>1, <1>3, <1>4, <2>1, EvaluateAllKeeps
  <2> QED BY <2>2 DEF RulesInv
<1>6. CASE PollDies(p)
  <2>1. PICK done \in SUBSET Evaluating(p) : \E half \in SUBSET (Evaluating(p) \ done) :
          EvaluateWatches(rules, done, half, s, s)
    BY <1>2, <1>6 DEF PollDies
  <2>2. PICK half \in SUBSET (Evaluating(p) \ done) : EvaluateWatches(rules, done, half, s, s)
    BY <2>1
  <2>3. /\ done \cap half = {} /\ done \cup half \subseteq Watching(rules)
        /\ done \cup half # {} => Evaluable(s, s)
    BY <1>3, <1>4
  <2>4. RulesSound(rules', events') /\ EventsSound'
    BY <1>1, <2>2, <2>3, EvaluateWatchesKeeps
  <2>5. faults' \in 0..MaxFaults
    BY <1>1, <1>6, MarketAssumption DEF PollDies, Fault
  <2> QED BY <2>4, <2>5 DEF RulesInv
<1> QED BY <1>5, <1>6

-----------------------------------------------------------------------------
(* The rules under the routes and the delivery worker.                     *)

LEMMA CurrentIsEvaluable ==
  ASSUME SourceInv, source.last # None, ~source.stale
  PROVE  Evaluable(source.last, stored)
<1>1. source \in Source
  BY DEF SourceInv, SourceTypes
<1>2. source.last \in 1..MaxSnapshots
  BY <1>1, MarketAssumption DEF Source, None
<1>3. source.last <= stored /\ stored \in 0..Latest /\ Latest <= MaxSnapshots /\ Latest \in Nat
  BY DEF SourceInv, SourceSound, SourceTypes, Latest
<1>4. stored \in 1..Latest /\ stored \in Snapshots
  BY <1>2, <1>3, MarketAssumption DEF Snapshots
<1>5. feed[stored].stale => stored # source.last
  BY <1>2, <1>4 DEF SourceInv, SourceSound, None
<1>6. stored \in DOMAIN feed
  BY <1>4 DEF SourceInv, SourceTypes, Latest
<1> QED BY <1>2, <1>4, <1>5, <1>6 DEF Evaluable, Snapshots

LEMMA EvaluateCurrentKeeps ==
  ASSUME SourceInv, EventsSound, NEW rows, RulesSound(rows, events), NEW u \in Users,
         EvaluateCurrent(rows, u)
  PROVE  RulesInv' /\ faults' \in 0..MaxFaults
<1> DEFINE current == source.last # None /\ ~source.stale /\ source.status = "healthy"
           due == IF current THEN {u} \cap Watching(rows) ELSE {}
<1>1. \/ EvaluateAll(rows, due, source.last, stored)
      \/ Fault /\ \E half \in SUBSET due : EvaluateWatches(rows, {}, half, source.last, stored)
  BY DEF EvaluateCurrent
<1>2. due \subseteq Watching(rows) /\ (due # {} => Evaluable(source.last, stored))
  BY CurrentIsEvaluable
<1> HIDE DEF due
<1>3. feed \in Seq(Published) /\ faults \in 0..MaxFaults
  BY DEF SourceInv, SourceTypes
<1>4. CASE EvaluateAll(rows, due, source.last, stored)
  <2>1. RulesSound(rules', events') /\ EventsSound' /\ faults' \in 0..MaxFaults
    BY <1>2, <1>3, <1>4, EvaluateAllKeeps
  <2> QED BY <2>1 DEF RulesInv
<1>5. CASE Fault /\ \E half \in SUBSET due : EvaluateWatches(rows, {}, half, source.last, stored)
  <2>1. PICK half \in SUBSET due : EvaluateWatches(rows, {}, half, source.last, stored)
    BY <1>5
  <2>2. /\ {} \cap half = {} /\ {} \cup half \subseteq Watching(rows)
        /\ {} \cup half # {} => Evaluable(source.last, stored)
    BY <1>2
  <2>3. RulesSound(rules', events') /\ EventsSound'
    BY <1>3, <2>1, <2>2, EvaluateWatchesKeeps
  <2>4. faults' \in 0..MaxFaults
    BY <1>3, <1>5, MarketAssumption DEF Fault
  <2> QED BY <2>3, <2>4 DEF RulesInv
<1> QED BY <1>1, <1>4, <1>5

\* A row that is replaced by a sound one.
LEMMA RowReplaced ==
  ASSUME RulesSound(rules, events), NEW u \in Users, NEW row \in Rule, RuleSound(u, row, events)
  PROVE  RulesSound([rules EXCEPT ![u] = row], events)
BY DEF RulesSound

LEMMA PostWatchKeeps ==
  ASSUME SourceInv, RulesInv, NEW u \in Users, NEW target \in Prices, NEW enabled \in BOOLEAN,
         PostWatch(u, target, enabled)
  PROVE  RulesInv' /\ faults' \in 0..MaxFaults
<1> DEFINE reset == Reset(rules[u])
           id == reset.id + 1
           row == [reset EXCEPT !.id = @ + 1, !.target = target, !.enabled = enabled]
<1>1. rules[u] \in Rule /\ rules[u].id < MaxRules
  BY DEF RulesInv, RulesSound, PostWatch
<1>2. /\ reset \in Rule /\ reset.id = rules[u].id /\ reset.state = "waiting"
      /\ reset.told = 0 /\ reset.lost = 0
  BY <1>1, ResetRule
<1>3. EvaluateCurrent([rules EXCEPT ![u] = row], u)
  BY DEF PostWatch
<1>4. row = [reset EXCEPT !.id = id, !.target = target, !.enabled = enabled]
  OBVIOUS
<1> HIDE DEF reset
<1>5. id \in 1..MaxRules /\ id \in 0..MaxRules
  BY <1>1, <1>2, RuleColumns, MarketAssumption
<1> HIDE DEF row, id
<1>6. /\ row \in Rule /\ row.id = id /\ row.state = "waiting" /\ row.told = 0 /\ row.lost = 0
  BY <1>2, <1>4, <1>5 DEF Rule
<1>7. RuleSound(u, row, events)
  BY <1>5, <1>6 DEF RuleSound
<1>8. RulesSound([rules EXCEPT ![u] = row], events)
  BY <1>6, <1>7, RowReplaced DEF RulesInv
<1> QED BY <1>3, <1>8, EvaluateCurrentKeeps DEF RulesInv

LEMMA PatchWatchKeeps ==
  ASSUME SourceInv, RulesInv, NEW u \in Users, NEW target \in Prices, NEW enabled \in BOOLEAN,
         PatchWatch(u, target, enabled)
  PROVE  RulesInv' /\ faults' \in 0..MaxFaults
<1> DEFINE row == [rules[u] EXCEPT !.target = target, !.enabled = enabled]
           new == IF target # rules[u].target THEN Reset(row) ELSE row
<1>1. /\ rules[u] \in Rule /\ rules[u].state # "none" /\ RuleSound(u, rules[u], events)
      /\ rules[u].id \in 1..MaxRules
  BY DEF RulesInv, RulesSound, PatchWatch, RuleSound
<1>2. EvaluateCurrent([rules EXCEPT ![u] = new], u)
  BY DEF PatchWatch
<1>3. row = [rules[u] EXCEPT !.target = target, !.enabled = enabled]
  OBVIOUS
<1> HIDE DEF row
<1>4. /\ row \in Rule /\ row.id = rules[u].id /\ row.target = target
      /\ row.state = rules[u].state /\ row.told = rules[u].told /\ row.lost = rules[u].lost
  BY <1>1, <1>3 DEF Rule
<1>5. CASE target # rules[u].target
  <2>1. /\ Reset(row) \in Rule /\ Reset(row).id = row.id /\ Reset(row).state = "waiting"
        /\ Reset(row).told = 0 /\ Reset(row).lost = 0
    BY <1>4, ResetRule
  <2>2. new = Reset(row) /\ Reset(row).id \in 1..MaxRules
    BY <1>1, <1>4, <1>5, <2>1
  <2> HIDE DEF new
  <2>3. RuleSound(u, Reset(row), events)
    BY <2>1, <2>2 DEF RuleSound
  <2>4. RulesSound([rules EXCEPT ![u] = Reset(row)], events)
    BY <2>1, <2>3, RowReplaced DEF RulesInv
  <2> QED BY <1>2, <2>2, <2>4, EvaluateCurrentKeeps DEF RulesInv
<1>6. CASE target = rules[u].target
  <2>1. new = row /\ RuleSound(u, row, events)
    BY <1>1, <1>4, <1>6, StaysSound
  <2>2. RulesSound([rules EXCEPT ![u] = row], events)
    BY <1>4, <2>1, RowReplaced DEF RulesInv
  <2> QED BY <1>2, <2>1, <2>2, EvaluateCurrentKeeps DEF RulesInv
<1> QED BY <1>5, <1>6

LEMMA DeleteWatchKeeps ==
  ASSUME RulesInv, NEW u \in Users, DeleteWatch(u)
  PROVE  RulesInv'
<1> DEFINE id == rules[u].id
           row == [NoRule EXCEPT !.id = id]
<1>1. rules[u] \in Rule
  BY DEF RulesInv, RulesSound
<1>2. id \in 0..MaxRules
  BY <1>1, RuleColumns
<1>3. NoRule \in Rule /\ NoRule.state = "none" /\ NoRule.told = 0 /\ NoRule.lost = 0
  BY NoRuleColumns
<1>4. row = [NoRule EXCEPT !.id = id]
  OBVIOUS
<1>5. rules' = [rules EXCEPT ![u] = row] /\ UNCHANGED events
  BY DEF DeleteWatch
<1> HIDE DEF row, id
<1>6. row \in Rule /\ row.state = "none" /\ row.told = 0 /\ row.lost = 0
  BY <1>2, <1>3, <1>4 DEF Rule
<1>7. RuleSound(u, row, events)
  BY <1>6 DEF RuleSound
<1>8. RulesSound([rules EXCEPT ![u] = row], events)
  BY <1>6, <1>7, RowReplaced DEF RulesInv
<1> QED BY <1>5, <1>8 DEF RulesInv, EventsSound, FreshOffersOnly

\* A delivery that failed for good has been sent all the same.
LEMMA DeliveryFailsKeeps ==
  ASSUME RulesInv, DeliveryFails
  PROVE  RulesInv'
<1>1. PICK e \in events : /\ e.live /\ e.attempt < MaxAttempts
                          /\ events' = (events \ {e}) \cup {[e EXCEPT !.live = FALSE]}
  BY DEF DeliveryFails
<1> DEFINE failed == [e EXCEPT !.live = FALSE]
<1>2. e \in Event /\ failed = [e EXCEPT !.live = FALSE]
  BY DEF RulesInv, EventsSound
<1>3. events' = (events \ {e}) \cup {failed} /\ rules' = rules
  BY <1>1 DEF DeliveryFails
<1> HIDE DEF failed
<1>4. /\ failed \in Event /\ failed.user = e.user /\ failed.rule = e.rule
      /\ failed.offer = e.offer /\ failed.attempt = e.attempt /\ failed.stale = e.stale
      /\ failed.of = e.of /\ failed.snapshot = e.snapshot
  BY <1>2 DEF Event
<1>5. EventsSound'
  BY <1>1, <1>3, <1>4 DEF RulesInv, EventsSound, FreshOffersOnly
<1>6. \A u \in Users : RuleSound(u, rules[u], events')
  BY <1>3, <1>4 DEF RulesInv, RulesSound, RuleSound
<1> QED BY <1>3, <1>5, <1>6 DEF RulesInv, RulesSound

-----------------------------------------------------------------------------
(* The source.                                                             *)

\* The lease: whoever takes it learns what the row says.
LEMMA RunMarketPollKeeps ==
  ASSUME SourceInv, NEW p \in Servers, RunMarketPoll(p)
  PROVE  SourceInv'
<1> DEFINE claimed == [step |-> "claimed", last |-> source.last, stale |-> source.stale,
                       snapshot |-> None]
<1>1. source \in Source /\ polls \in [Servers -> Poll] /\ p # Nobody
  BY MarketAssumption DEF SourceInv, SourceTypes
<1>2. /\ source' = [source EXCEPT !.holder = p, !.expired = FALSE]
      /\ polls' = [polls EXCEPT ![p] = claimed]
      /\ UNCHANGED <<feed, stored, faults>>
  BY DEF RunMarketPoll
<1>3. /\ source' \in Source /\ source'.last = source.last /\ source'.stale = source.stale
      /\ source'.status = source.status /\ source'.holder = p
  BY <1>1, <1>2 DEF Source
<1>4. claimed \in Poll
  BY <1>1, MarketAssumption DEF Source, Poll, None
<1>5. SourceTypes'
  BY <1>1, <1>2, <1>3, <1>4 DEF SourceInv, SourceTypes, Latest
<1>6. SourceSound'
  BY <1>1, <1>2, <1>3 DEF SourceInv, SourceSound
<1>7. HolderSound'
  BY <1>1, <1>2, <1>3 DEF HolderSound
<1> QED BY <1>5, <1>6, <1>7 DEF SourceInv

LEMMA FetchPointerKeeps ==
  ASSUME SourceInv, NEW p \in Servers, FetchPointer(p)
  PROVE  SourceInv'
<1> DEFINE poll == [polls[p] EXCEPT !.step = "fetched", !.snapshot = Latest]
<1>1. /\ polls \in [Servers -> Poll] /\ polls[p] \in Poll /\ polls[p].step = "claimed"
      /\ Latest \in Nat /\ 0 < Latest /\ Latest <= MaxSnapshots /\ stored <= Latest
  BY DEF SourceInv, SourceTypes, FetchPointer, Latest
<1>2. polls' = [polls EXCEPT ![p] = poll] /\ UNCHANGED <<feed, source, stored, faults>>
  BY DEF FetchPointer
<1>3. poll = [polls[p] EXCEPT !.step = "fetched", !.snapshot = Latest]
  OBVIOUS
<1>4. Latest \in 0..MaxSnapshots /\ Latest # 0
  BY <1>1, MarketAssumption
<1> HIDE DEF poll
<1>5. /\ poll \in Poll /\ poll.step = "fetched" /\ poll.snapshot = Latest
      /\ poll.last = polls[p].last /\ poll.stale = polls[p].stale
  BY <1>1, <1>3, <1>4 DEF Poll
<1>6. SourceTypes'
  BY <1>1, <1>2, <1>5 DEF SourceInv, SourceTypes, Latest
<1>7. SourceSound'
  BY <1>2 DEF SourceInv, SourceSound
<1>8. HolderSound'
  <2> SUFFICES ASSUME NEW q \in Servers, source.holder = q, polls'[q].step # "idle"
               PROVE  /\ polls'[q].last = source.last /\ polls'[q].stale = source.stale
                      /\ polls'[q].step = "fetched" =>
                           /\ stored <= polls'[q].snapshot /\ polls'[q].snapshot <= Latest
                           /\ polls'[q].snapshot # None
    BY <1>2 DEF HolderSound, Latest
  <2>1. CASE q = p
    <3>1. polls'[q] = poll
      BY <1>1, <1>2, <2>1
    <3>2. polls[p].last = source.last /\ polls[p].stale = source.stale
      BY <1>1, <2>1 DEF SourceInv, HolderSound
    <3> QED BY <1>1, <1>4, <1>5, <3>1, <3>2 DEF None
  <2>2. CASE q # p
    <3>1. polls'[q] = polls[q]
      BY <1>1, <1>2, <2>2
    <3> QED BY <3>1 DEF SourceInv, HolderSound
  <2> QED BY <2>1, <2>2
<1> QED BY <1>6, <1>7, <1>8 DEF SourceInv

\* A poll that is over, whatever became of it, holds nothing.
LEMMA OverKeeps ==
  ASSUME SourceInv, NEW p \in Servers, Over(p)
  PROVE  /\ polls' \in [Servers -> Poll]
         /\ \A q \in Servers : polls'[q].step # "idle" => q # p /\ polls'[q] = polls[q]
<1>1. polls \in [Servers -> Poll] /\ polls' = [polls EXCEPT ![p] = Idle]
  BY DEF SourceInv, SourceTypes, Over
<1>2. Idle \in Poll /\ Idle.step = "idle"
  BY MarketAssumption DEF Idle, Poll, None
<1> QED BY <1>1, <1>2

\* The holder gives the lease back.
LEMMA ReleasedRow ==
  ASSUME SourceInv, NEW status \in {"healthy", "stale", "error"}, NEW stale \in BOOLEAN,
         NEW s \in 0..MaxSnapshots
  PROVE  LET new == Released(status, stale, s)
         IN /\ new \in Source /\ new.status = status /\ new.stale = stale /\ new.last = s
            /\ new.holder = Nobody
<1> DEFINE new == Released(status, stale, s)
<1>1. source \in Source
  BY DEF SourceInv, SourceTypes
<1>2. new = [source EXCEPT !.status = status, !.stale = stale, !.last = s,
               !.holder = Nobody, !.expired = FALSE]
  BY DEF Released
<1> HIDE DEF new
<1>3. /\ new \in Source /\ new.status = status /\ new.stale = stale /\ new.last = s
      /\ new.holder = Nobody
  BY <1>1, <1>2 DEF Source
<1> QED BY <1>3 DEF new

LEMMA PollFailsKeeps ==
  ASSUME SourceInv, NEW p \in Servers, polls[p].step # "idle", PollFails(p),
         faults' \in 0..MaxFaults
  PROVE  SourceInv'
<1>1. UNCHANGED <<feed, stored>> /\ Over(p)
  BY DEF PollFails
<1>2. CASE Holds(p)
  <2>1. polls[p].stale = source.stale
    BY <1>2 DEF SourceInv, HolderSound, Holds
  <2>2. source.last \in 0..MaxSnapshots /\ source.stale \in BOOLEAN /\ source \in Source
    BY DEF SourceInv, SourceTypes, Source
  <2>3. source' = Released("error", source.stale, source.last)
    BY <1>2, <2>1 DEF PollFails
  <2>4. /\ source' \in Source /\ source'.status = "error" /\ source'.stale = source.stale
        /\ source'.last = source.last /\ source'.holder = Nobody
    BY <2>2, <2>3, ReleasedRow
  <2>5. SourceTypes'
    BY <1>1, <2>4, OverKeeps DEF SourceInv, SourceTypes, Latest
  <2>6. SourceSound'
    BY <1>1, <2>4 DEF SourceInv, SourceSound
  <2>7. HolderSound'
    BY <2>4, MarketAssumption DEF HolderSound
  <2> QED BY <2>5, <2>6, <2>7 DEF SourceInv
<1>3. CASE ~Holds(p)
  <2>1. source' = source
    BY <1>3 DEF PollFails
  <2>2. SourceTypes'
    BY <1>1, <2>1, OverKeeps DEF SourceInv, SourceTypes, Latest
  <2>3. SourceSound'
    BY <1>1, <2>1 DEF SourceInv, SourceSound
  <2>4. HolderSound'
    BY <1>1, <2>1, OverKeeps DEF SourceInv, HolderSound, Latest
  <2> QED BY <2>2, <2>3, <2>4 DEF SourceInv
<1> QED BY <1>2, <1>3

\* The poll stores what it fetched and says so in the row.
LEMMA PollClaimedSourceKeeps ==
  ASSUME SourceInv, RulesInv, NEW p \in Servers, PollClaimedSource(p)
  PROVE  SourceInv'
<1> DEFINE s == polls[p].snapshot
           status == IF Stale(p) THEN "stale" ELSE "healthy"
<1>1. polls[p].step = "fetched" /\ Holds(p) /\ UpsertSnapshot(p) /\ Over(p)
  BY DEF PollClaimedSource, AssertSourceLease
<1>2. /\ stored' = s /\ feed' \in Seq(Published) /\ Len(feed') = Len(feed)
      /\ feed'[s] = feed[s]
  BY <1>1, StoredNow
<1>3. /\ polls[p].last = source.last /\ polls[p].stale = source.stale
      /\ s \in 1..Latest /\ s \in 0..MaxSnapshots /\ source.last <= stored /\ stored <= s
      /\ source.last \in Nat /\ stored \in Nat
  BY <1>1, Fetched DEF Snapshots
<1>4. Stale(p) = feed[s].stale
  <2>1. CASE Skipped(p)
    <3>1. source.last = stored /\ stored = s /\ stored # None
      BY <1>3, <2>1 DEF Skipped, None
    <3>2. source.stale = feed[s].stale
      BY <3>1 DEF SourceInv, SourceSound
    <3> QED BY <1>3, <2>1, <3>2 DEF Stale
  <2>2. CASE ~Skipped(p)
    BY <2>2 DEF Stale
  <2> QED BY <2>1, <2>2
<1>5. Stale(p) \in BOOLEAN
  <2>1. feed[s] \in Published
    BY <1>3 DEF SourceInv, SourceTypes, Latest
  <2> QED BY <1>4, <2>1 DEF Published
<1>6. source' = Released(status, Stale(p), s)
  BY <1>1 DEF PollClaimedSource
<1>7. /\ source' \in Source /\ source'.status = status /\ source'.stale = Stale(p)
      /\ source'.last = s /\ source'.holder = Nobody
  BY <1>3, <1>5, <1>6, ReleasedRow
<1>8. SourceTypes'
  <2>1. faults' \in 0..MaxFaults
    BY PollKeepsRules
  <2>2. polls' \in [Servers -> Poll]
    BY <1>1, OverKeeps
  <2> QED BY <1>2, <1>3, <1>7, <2>1, <2>2 DEF SourceInv, SourceTypes, Latest
<1>9. SourceSound'
  <2>1. source'.stale = feed'[stored'].stale
    BY <1>2, <1>4, <1>7
  <2> QED BY <1>2, <1>3, <1>7, <2>1 DEF SourceSound, None
<1>10. HolderSound'
  BY <1>7, MarketAssumption DEF HolderSound
<1> QED BY <1>8, <1>9, <1>10 DEF SourceInv

\* What is stored is then newer than the row says, and the lease is still taken.
LEMMA PollDiesKeeps ==
  ASSUME SourceInv, RulesInv, NEW p \in Servers, PollDies(p)
  PROVE  SourceInv'
<1> DEFINE s == polls[p].snapshot
<1>1. /\ polls[p].step = "fetched" /\ source.holder = p /\ Holds(p) /\ UpsertSnapshot(p) /\ Over(p)
      /\ source' = source /\ p # Nobody
  BY MarketAssumption DEF PollDies, AssertSourceLease, Holds
<1>2. /\ stored' = s /\ feed' \in Seq(Published) /\ Len(feed') = Len(feed)
      /\ feed'[stored'] = feed[stored'] /\ (source.last = stored' => stored = stored')
  BY <1>1, StoredNow
<1>3. /\ s \in 1..Latest /\ source.last <= stored /\ stored <= s
      /\ source.last \in Nat /\ stored \in Nat
  BY <1>1, Fetched DEF Snapshots
<1>4. SourceTypes'
  <2>1. faults' \in 0..MaxFaults
    BY PollKeepsRules
  <2>2. polls' \in [Servers -> Poll]
    BY <1>1, OverKeeps
  <2> QED BY <1>1, <1>2, <1>3, <2>1, <2>2 DEF SourceInv, SourceTypes, Latest
<1>5. SourceSound'
  <2>1. source.last = stored' /\ stored' # None => source.stale = feed'[stored'].stale
    BY <1>2 DEF SourceInv, SourceSound
  <2>2. source.last <= stored'
    BY <1>2, <1>3
  <2> QED BY <1>1, <2>1, <2>2 DEF SourceInv, SourceSound
<1>6. HolderSound'
  BY <1>1, OverKeeps DEF HolderSound
<1> QED BY <1>4, <1>5, <1>6 DEF SourceInv

LEMMA CrashKeeps ==
  ASSUME SourceInv, NEW p \in Servers, Crash(p)
  PROVE  SourceInv'
<1>1. Over(p) /\ UNCHANGED <<feed, source, stored>> /\ faults' \in 0..MaxFaults
  BY MarketAssumption DEF Crash, Fault, SourceInv, SourceTypes
<1>2. SourceTypes'
  BY <1>1, OverKeeps DEF SourceInv, SourceTypes, Latest
<1>3. SourceSound'
  BY <1>1 DEF SourceInv, SourceSound
<1>4. HolderSound'
  BY <1>1, OverKeeps DEF SourceInv, HolderSound, Latest
<1> QED BY <1>2, <1>3, <1>4 DEF SourceInv

LEMMA LeaseExpiresKeeps ==
  ASSUME SourceInv, LeaseExpires
  PROVE  SourceInv'
<1>1. source \in Source /\ source' = [source EXCEPT !.expired = TRUE]
  BY DEF SourceInv, SourceTypes, LeaseExpires
<1>2. /\ source' \in Source /\ source'.last = source.last /\ source'.stale = source.stale
      /\ source'.status = source.status /\ source'.holder = source.holder
  BY <1>1 DEF Source
<1>3. UNCHANGED <<feed, stored, polls>> /\ faults' \in 0..MaxFaults
  BY MarketAssumption DEF LeaseExpires, Fault, SourceInv, SourceTypes
<1>4. SourceTypes'
  BY <1>2, <1>3 DEF SourceInv, SourceTypes, Latest
<1>5. SourceSound'
  BY <1>2, <1>3 DEF SourceInv, SourceSound
<1>6. HolderSound'
  BY <1>2, <1>3 DEF SourceInv, HolderSound, Latest
<1> QED BY <1>4, <1>5, <1>6 DEF SourceInv

LEMMA PublishKeeps ==
  ASSUME SourceInv, Publish
  PROVE  SourceInv'
<1>1. PICK snapshot \in Published : feed' = Append(feed, snapshot)
  BY DEF Publish
<1>2. feed \in Seq(Published) /\ Len(feed) < MaxSnapshots /\ stored \in 0..Len(feed)
  BY DEF SourceInv, SourceTypes, Publish, Latest
<1>3. /\ feed' \in Seq(Published) /\ Len(feed') = Len(feed) + 1
      /\ \A i \in 1..Len(feed) : feed'[i] = feed[i]
  BY <1>1, <1>2
<1>4. UNCHANGED <<source, stored, polls, faults>>
  BY DEF Publish
<1>5. SourceTypes'
  BY <1>2, <1>3, <1>4, MarketAssumption DEF SourceInv, SourceTypes, Latest
<1>6. SourceSound'
  BY <1>2, <1>3, <1>4 DEF SourceInv, SourceSound, None
<1>7. HolderSound'
  <2> SUFFICES ASSUME NEW p \in Servers, source.holder = p, polls[p].step # "idle"
               PROVE  /\ polls[p].last = source.last /\ polls[p].stale = source.stale
                      /\ polls[p].step = "fetched" =>
                           /\ stored <= polls[p].snapshot /\ polls[p].snapshot <= Len(feed')
                           /\ polls[p].snapshot # None
    BY <1>4 DEF HolderSound, Latest
  <2>1. polls[p].snapshot \in 0..MaxSnapshots
    <3>1. polls[p] \in Poll
      BY DEF SourceInv, SourceTypes
    <3> QED BY <3>1 DEF Poll
  <2> QED BY <1>2, <1>3, <2>1, MarketAssumption DEF SourceInv, HolderSound, Latest
<1> QED BY <1>5, <1>6, <1>7 DEF SourceInv

\* An offer that expires leaves the snapshot as stale as it is.
LEMMA OfferExpiresKeeps ==
  ASSUME SourceInv, OfferExpires
  PROVE  SourceInv'
<1>1. PICK s \in DOMAIN feed : \E o \in feed[s].offers :
        feed' = [feed EXCEPT ![s].offers = @ \ {o}]
  BY DEF OfferExpires
<1>2. PICK o \in feed[s].offers : feed' = [feed EXCEPT ![s].offers = @ \ {o}]
  BY <1>1
<1> DEFINE fewer == [feed[s] EXCEPT !.offers = @ \ {o}]
<1>3. feed \in Seq(Published) /\ feed[s] \in Published
  BY DEF SourceInv, SourceTypes
<1>4. fewer \in Published /\ fewer.stale = feed[s].stale
  BY <1>3 DEF Published
<1>5. feed' = [feed EXCEPT ![s] = fewer]
  BY <1>2
<1> HIDE DEF fewer
<1>6. /\ feed' \in Seq(Published) /\ Len(feed') = Len(feed)
      /\ \A i \in 1..Len(feed) : feed'[i].stale = feed[i].stale
  BY <1>3, <1>4, <1>5
<1>7. UNCHANGED <<source, stored, polls, faults>> /\ stored \in 0..Len(feed)
  BY DEF OfferExpires, SourceInv, SourceTypes, Latest
<1>8. SourceTypes'
  BY <1>6, <1>7 DEF SourceInv, SourceTypes, Latest
<1>9. SourceSound'
  BY <1>3, <1>6, <1>7 DEF SourceInv, SourceSound, None
<1>10. HolderSound'
  BY <1>6, <1>7 DEF SourceInv, HolderSound, Latest
<1> QED BY <1>8, <1>9, <1>10 DEF SourceInv

-----------------------------------------------------------------------------
(* The specification.                                                      *)

LEMMA RulesUnchanged ==
  ASSUME RulesInv, UNCHANGED <<rules, events>>
  PROVE  RulesInv'
BY DEF RulesInv, EventsSound, FreshOffersOnly

LEMMA InitSound ==
  ASSUME Init
  PROVE  SourceInv /\ RulesInv
<1>1. PICK snapshot \in Published : feed = <<snapshot>>
  BY DEF Init
<1>2. feed \in Seq(Published) /\ Len(feed) = 1
  BY <1>1
<1>3. stored = 0 /\ polls = [p \in Servers |-> Idle] /\ faults = 0
  BY DEF Init, None
<1>4. Idle \in Poll /\ Idle.step = "idle"
  BY MarketAssumption DEF Idle, Poll, None
<1>5. source \in Source /\ source.last = 0 /\ source.status = "pending"
  <2>1. source = [last |-> 0, status |-> "pending", stale |-> FALSE, holder |-> Nobody,
                  expired |-> FALSE]
    BY DEF Init, None
  <2>2. 0 \in 0..MaxSnapshots
    BY MarketAssumption
  <2> QED BY <2>1, <2>2 DEF Source
<1>6. SourceTypes
  BY <1>2, <1>3, <1>4, <1>5, MarketAssumption DEF SourceTypes, Latest
<1>7. SourceSound
  BY <1>3, <1>5 DEF SourceSound, None
<1>8. HolderSound
  BY <1>3, <1>4 DEF HolderSound
<1>9. rules = [u \in Users |-> NoRule] /\ events = {}
  BY DEF Init
<1>10. RulesInv
  BY <1>9, NoRuleColumns DEF RulesInv, RulesSound, RuleSound, EventsSound, FreshOffersOnly
<1> QED BY <1>6, <1>7, <1>8, <1>10 DEF SourceInv

LEMMA NextSound ==
  ASSUME SourceInv, RulesInv, Next
  PROVE  SourceInv' /\ RulesInv'
<1>1. ASSUME NEW p \in Servers, PollStep(p) \/ PollDies(p) \/ Crash(p) \/ RunMarketPoll(p)
      PROVE  SourceInv' /\ RulesInv'
  <2>1. CASE FetchPointer(p)
    BY <2>1, FetchPointerKeeps, RulesUnchanged DEF FetchPointer
  <2>2. CASE FetchFails(p) \/ LeaseLost(p)
    <3>1. polls[p].step # "idle" /\ PollFails(p)
      BY <2>2 DEF FetchFails, LeaseLost
    <3>2. faults' \in 0..MaxFaults
      BY <2>2, MarketAssumption DEF FetchFails, LeaseLost, Fault, SourceInv, SourceTypes
    <3>3. UNCHANGED <<rules, events>>
      BY <3>1 DEF PollFails
    <3> QED BY <3>1, <3>2, <3>3, PollFailsKeeps, RulesUnchanged
  <2>3. CASE PollClaimedSource(p)
    BY <2>3, PollClaimedSourceKeeps, PollKeepsRules
  <2>4. CASE PollDies(p)
    BY <2>4, PollDiesKeeps, PollKeepsRules
  <2>5. CASE Crash(p)
    BY <2>5, CrashKeeps, RulesUnchanged DEF Crash
  <2>6. CASE RunMarketPoll(p)
    BY <2>6, RunMarketPollKeeps, RulesUnchanged DEF RunMarketPoll
  <2> QED BY <1>1, <2>1, <2>2, <2>3, <2>4, <2>5, <2>6 DEF PollStep
<1>2. ASSUME UNCHANGED <<feed, source, stored, polls>>, faults' \in 0..MaxFaults
      PROVE  SourceInv'
  BY <1>2 DEF SourceInv, SourceTypes, SourceSound, HolderSound, Latest
<1>3. ASSUME NEW u \in Users, Route(u)
      PROVE  SourceInv' /\ RulesInv'
  <2>1. CASE DeleteWatch(u)
    <3>1. RulesInv'
      BY <2>1, DeleteWatchKeeps
    <3>2. UNCHANGED <<feed, source, stored, polls>> /\ faults' \in 0..MaxFaults
      BY <2>1 DEF DeleteWatch, SourceInv, SourceTypes
    <3> QED BY <1>2, <3>1, <3>2
  <2>2. ASSUME NEW target \in Prices, NEW enabled \in BOOLEAN, PostWatch(u, target, enabled)
        PROVE  SourceInv' /\ RulesInv'
    <3>1. RulesInv' /\ faults' \in 0..MaxFaults
      BY <2>2, PostWatchKeeps
    <3>2. UNCHANGED <<feed, source, stored, polls>>
      BY <2>2 DEF PostWatch
    <3> QED BY <1>2, <3>1, <3>2
  <2>3. ASSUME NEW target \in Prices, NEW enabled \in BOOLEAN, PatchWatch(u, target, enabled)
        PROVE  SourceInv' /\ RulesInv'
    <3>1. RulesInv' /\ faults' \in 0..MaxFaults
      BY <2>3, PatchWatchKeeps
    <3>2. UNCHANGED <<feed, source, stored, polls>>
      BY <2>3 DEF PatchWatch
    <3> QED BY <1>2, <3>1, <3>2
  <2> QED BY <1>3, <2>1, <2>2, <2>3 DEF Route
<1>4. CASE LeaseExpires
  BY <1>4, LeaseExpiresKeeps, RulesUnchanged DEF LeaseExpires
<1>5. CASE Publish
  BY <1>5, PublishKeeps, RulesUnchanged DEF Publish
<1>6. CASE OfferExpires
  BY <1>6, OfferExpiresKeeps, RulesUnchanged DEF OfferExpires
<1>7. CASE DeliveryFails
  <2>1. UNCHANGED <<feed, source, stored, polls, faults>> /\ faults \in 0..MaxFaults
    BY <1>7 DEF DeliveryFails, SourceInv, SourceTypes
  <2> QED BY <1>2, <1>7, <2>1, DeliveryFailsKeeps
<1> QED BY <1>1, <1>3, <1>4, <1>5, <1>6, <1>7 DEF Next

LEMMA Invariance == Spec => [](SourceInv /\ RulesInv)
<1>1. Init => SourceInv /\ RulesInv
  BY InitSound
<1>2. SourceInv /\ RulesInv /\ [Next]_vars => (SourceInv /\ RulesInv)'
  <2>1. ASSUME SourceInv, RulesInv, UNCHANGED vars
        PROVE  SourceInv' /\ RulesInv'
    BY <2>1, RulesUnchanged DEF vars, SourceInv, SourceTypes, SourceSound, HolderSound, Latest
  <2> QED BY <2>1, NextSound
<1> QED BY <1>1, <1>2, PTL DEF Spec

\* A rule notifies its user once until it is reset, and once more for each server
\* that died between sending a notification and noting it.
THEOREM MarketNotifiesOnce == Spec => []OncePerTarget
<1>1. RulesInv => OncePerTarget
  <2> SUFFICES ASSUME RulesInv, NEW u \in Users
               PROVE  rules[u].told <= 1 + rules[u].lost
    BY DEF OncePerTarget
  <2>1. rules[u] \in Rule /\ RuleSound(u, rules[u], events)
    BY DEF RulesInv, RulesSound
  <2> QED BY <2>1, RuleColumns DEF RuleSound
<1> QED BY <1>1, Invariance, PTL

\* A rule that is shown as met has notified its user of an offer within its target,
\* whatever was published, edited, retried or cut short.
THEOREM MarketMetIsTold == Spec => []MetMeansTold
<1>1. RulesInv => MetMeansTold
  BY DEF RulesInv, RulesSound, RuleSound, MetMeansTold
<1> QED BY <1>1, Invariance, PTL

\* A source that is healthy and not being polled shows the snapshot it names, which
\* is not stale, and every variable has its type: no poll that lost its lease
\* stores anything.
THEOREM MarketHealthyIsCurrent == Spec => []HealthyIsCurrent
<1>1. SourceInv /\ RulesInv => TypeOK
  BY DEF SourceInv, SourceTypes, RulesInv, RulesSound, EventsSound, TypeOK
<1>2. SourceInv => (source.status = "healthy" /\ source.holder = Nobody =>
                      stored = source.last /\ ~feed[stored].stale)
  BY DEF SourceInv, SourceSound
<1>3. SourceInv /\ RulesInv => HealthyIsCurrent
  BY <1>1, <1>2 DEF HealthyIsCurrent
<1> QED BY <1>3, Invariance, PTL

\* Nobody is notified of the offers of a stale snapshot in its own name.
THEOREM MarketOffersAreFresh == Spec => []FreshOffersOnly
<1>1. RulesInv => FreshOffersOnly
  BY DEF RulesInv, EventsSound
<1> QED BY <1>1, Invariance, PTL
=============================================================================
