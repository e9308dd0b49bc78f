# OmniDeck in TLA+

OmniDeck is a self-hosted operations dashboard: one Node.js server over one
SQLite file, agents on the monitored machines, an ntfy provisioner, and a web
interface. This directory holds TLA+ models of its control logic, TLC
configurations that check them on small instances, and proofs, checked by
TLAPS, of what holds on every instance. Paths below are relative to the
repository.

## The system

| Component | Code | State | Operations | Hard behaviours |
|---|---|---|---|---|
| Incident tracking | `apps/server/src/notification-service.ts` `updateIncident` | `notification_incidents` | one row moved by each lifecycle event | events out of order, repeated, with equal times |
| Emission and fan-out | `emitNotification` | `notification_events`, `notification_deliveries` | match subscriptions, cool down, quiet hours, supersede on recovery; one transaction | repeated openings against queued, retried and finished deliveries |
| Delivery worker | `processDeliveries`, `claimDelivery`, `failDelivery`, `scheduleRepeat` | delivery rows, leases | two sweeps, claim, provider call, completion or retry, repeat | overlapping ticks, expired leases, late answers, crashes, stale copies |
| Providers | `notification-providers.ts` | none | SMTP, ntfy, in-app | failures, lost answers |
| Subscriptions, projects, members | `routes/notifications.ts` | their tables | CRUD, tokens, inbox | changes while deliveries are queued or publishers retry |
| Built-ins | `initializeNotificationCenter`, `syncSmtpRecipientSubscription` | built-in projects, members, one subscription | brought up to date at every start and user change | upgrades, deaths between commits, owners demoted |
| Users, authentication | `routes/users.ts`, `routes/auth.ts`, `http.ts` | `users`, `sessions` | create, edit, reset, delete; log in and out, change password | the last administrator, sessions of a former password |
| Alerts | `alerts.ts` | `alerts` | open, resolve, publish, mark | crash between commits, emissions that fail |
| Quiet hours | `notification-logic.ts` | none | pure functions of a clock | midnight, seconds, empty period |
| Retention | `db.ts` `cleanupExpiredData` | all tables | delete what is 90 days old | deletes rows other rules rely on |
| Probes, monitors | `probes.ts`, `routes/monitors.ts` | monitors, check tables, `activeChecks` | probe, judge two results, update alert; edit, delete | overlapping ticks, a monitor deleted in mid-probe |
| Nodes, agent | `routes/nodes.ts`, `src/agent/main.go` | `nodes`, samples | enroll, rotate, report, fetch tasks, return results | late results, lost requests, a node deleted |
| Market service | `market-service.ts`, `routes/market.ts` | source, offers, watch rules | poll under a lease, store a snapshot, judge rules, emit | lease lost while polling, crash between commits, edited rules |
| ntfy provisioning, provisioner | `notification-provisioning.ts`, `src/provisioner/main.go` | jobs, accounts, device tokens; ntfy's users | claim, call, record, compensate | lost answers, late requests, superseded jobs |
| Event API and SDK | `routes/notifications.ts`, `packages/sdk` | project tokens, events | publish under an idempotency key | retries after lost answers, edited event types |
| Settings, dashboard, metrics, web, deployment | the rest | key-value rows; none | read and write | none of their own |

Components meet in the database and in a few calls. Probes, nodes and agents
call `updateAlertState`; alerts, the market service and the event API call
`emitNotification`; user administration queues clean-ups of ntfy accounts and
has the built-ins follow. The worker reads what emission, administrators and
owners wrote. All of it runs in one event loop with a synchronous SQLite driver:
between two `await`s nothing interferes, a `BEGIN IMMEDIATE ... COMMIT` is
atomic even against a crash, and a crash between two statements outside a
transaction leaves the first one's effect.

What makes each component correct, in short: an incident's status must depend on
the events and not on their order; a delivery must neither be lost nor be
reported done when the provider never saw it, and must reach an end; an episode
of an incident is announced once per route; a recovery leaves no older opening
queued; an alert and its incident agree, and what is healthy again clears;
nothing is left of what was deleted; a quiet period is the interval its owner
meant; a reached target is told once, of an offer that stands; a device that is
shown works, and no user is forgotten at ntfy; sessions are those of the present
password; retention forgets nothing that still decides; a publisher may retry.

## Modules

| Module | Models | Checked by |
|---|---|---|
| `IncidentRules` | the rules of one incident row, as operators | through the modules that use them |
| `LatestWins` | abstract: the latest event decides | refinement target |
| `Incident` | the incident table under any sequence of events | `MCSmall`, `IncidentProofs` |
| `Outbox` | abstract: durable at-least-once delivery | refinement target |
| `NotificationService` | emission, fan-out, worker, administrators, clock, crashes | through `NotificationProperties` |
| `NotificationProperties` | what the service guarantees | `MCNotification`, `MCEpisodes`, `MCFanout`, `MCNotificationLive`, `NotificationProofs`, `EpisodeProofs` |
| `Alerts` | `updateAlertState`, composed with the incident rules | `MCAlerts.cfg`, `AlertProofs` |
| `QuietHours` | `isQuietTime` and `nextQuietEnd` | `MCSmall`, `SmallProofs` |
| `Monitoring` | scheduler, probes, judgement, monitor and node routes, agents | `MCMonitoring`, `MonitoringProofs` |
| `ProbeExchange` | one response, read by the server and by an agent | `MCSmall`, `SmallProofs` |
| `Market` | the price source, its polls, the watch rules | `MCMarket.cfg`, `MarketProofs` |
| `Provisioning` | ntfy accounts and devices, jobs, the provisioner | `MCProvisioning`, `ProvisioningProofs` |
| `Accounts` | users, roles, sessions | `MCSmall`, `SmallProofs` |
| `BuiltIns` | extends `Accounts` by the built-in members and the recipients' subscription | `MCSmall`, `SmallProofs` |
| `Retention` | events and incidents as they are deleted, on the incident rules | `MCSmall`, `SmallProofs` |
| `EventApi` | the SDK, its project token, the route | `MCSmall`, `SmallProofs` |

`IncidentRules` is where the modules meet: `Incident`, `NotificationService`,
`Alerts` and `Retention` move the rows of incidents with its operators.

### How the notification service maps to the code

`events`, `incidents`, `deliveries`, `subs`, `members`, `enabledProjects` and
`activeUsers` are tables. A delivery is named by its unique key (event,
subscription, channel, repeat index). `pc`, `left` and `claim` are the local
variables of a running `processDeliveries`: several run at once, because
`setInterval` starts one every five seconds. `turn` is the one that is between
two awaits. A tick is `StartTick` (both sweeps), then for each delivery
`ClaimDelivery`, an await during which `ProviderActs` may happen, and one of
`SupersedeOvertaken`, `CompleteDelivery`, `CompletionFails` and `FailDelivery`.
The last stands for an error of the provider before or after it acted. `Emit` is the
whole transaction of `emitNotification`; calls that are refused, or repeat an
idempotency key, change nothing and are no step. The record `claim` is the copy
`claimDelivery` returns: the repeat is decided from it, whatever the owner saved
meanwhile. `rule`, `accepted`, `episode`, `seen`, `sent`, `announced` are
history variables: nothing in a guard reads them.

Abstracted: texts, schemas, addresses; a quiet period is one absolute interval
(its computation is `QuietHours`); creating and deleting projects, types and
users is reduced to switching them; roles and owners are fixed. Time is a
counter. Where the code compares millisecond time stamps, the model allows any
number of steps at one instant, so ties are explored.

### Monitoring

`monitor`, `node`, `assigned` and `checks` are tables; of the results the newest
two of each location are kept, because the judgement reads no more. `alerts` is
the set of sources whose alert is open; what opening and resolving one publishes
is module `Alerts`. `active` is `activeChecks`: a probe takes its place in it
when the scheduler starts it, awaits the network, and records and judges in one
go, unless the process dies between the two commits. An agent goes through
report, task list, probes and results; each request may be lost, or its
answer. Which tasks are due is a free choice of the agent (`isDue`): its
`lastRuns` is a map of its own clock. `by` and `late` are history.

### Provisioning

`attempts` are the calls of `processJob` that await the provisioner, started by
a route or by the worker's tick; `network` holds their requests. A request that
was given up after its 30 seconds stays there and may be executed at any later
time, or overtaken by one sent after it. The lease of a job names the attempt
that holds it. Random user names and request ids are numbers that are never
used twice.

### Market

A poll claims the source, awaits its adapter, and then stores, evaluates and
releases; a lease may expire and a crash may come at any await or commit. The
snapshots of the publisher are numbered, offers are identified with their
price, and those of one snapshot become fewer as they expire. An event is known
by its key (rule, snapshot, attempt). `told` and `lost` count notifications since
the last reset, and deaths between sending one and noting it: history.

### Accounts, built-ins, retention, event API

Users are numbered in the order they were created, which is what
`ORDER BY created_at` decides by. A session belongs to a user or to nobody; a
password change and the deletion of sessions are two commits, with a death
possible between them. `BuiltIns` starts from a new database or from one an
earlier version has written, and `Sync(done)` is the synchronisation cut short
after `done` commits.

`Retention` counts days. Events arrive with a time stamp in the past; rows are
deleted with the event that opened them. `EventApi` has one project and one event
type. A publisher gives its own key or has the SDK draw one, gives texts and
priority or leaves them to the type (`version`), and publishes again when it was
not told of success. Whether a token is valid, its project enabled and the type
acceptable is one flag, `admitted`, that administrators switch: the code refuses
in each case.

## Runs

| Run | Instance | Shows |
|---|---|---|
| `small` | seven scenes, none touching another's state (see `MCSmall`) | incidents: rows summarise the events, implement `LatestWins`, and episodes move forward; quiet hours: what waits is attempted as the period ends; probes: server and agent judge alike, whatever the balance says; accounts: no session of a former password, the last administrator stays; built-ins: memberships exact, the recipients' subscription served; retention: no outage and no recovery forgotten; event API: recorded once, told truly, retries recognised |
| `episodes` | 3 lifecycle events stamped up to 2 late or 1 early, one mail route, a retry, crashes; or 2 while user, member, project and rule change | the occurrence-time fence is exact; one announcement per episode; a recovery closes the queue |
| `leases` | 2 ticks, batch of 2, a lease shorter than a provider call, repeats until recovery | claims of one delivery have different tokens; repeats form a chain; the table implements `Outbox` |
| `fanout` | 2 owners, 2 channels, plain events and openings, targets, interval cooldown, quiet period | events sent under an interval are more than the cooldown apart |
| `live` | prompt ticks, one crash, a retry, a repeat, a project switched off | every delivery reaches an end |
| `alerts` | 2 sources, 2 alerts, calls cut short after any commit | announcements at most once and in order; alert and incident agree; a source that stays healthy ends with no incident open |
| `monitoring` | an endpoint, an AI target and a node; a clock of two intervals, a rotation, a crash | nothing left of the deleted, probes spaced, disabled monitors drained, alerts opened on a location's own failures, rotated tokens out |
| `monitoring_live` | an endpoint and a node, two crashes | the alert of what is reachable again clears, at the server and at the node |
| `provisioning` | two calls of `processJob`, three jobs, two user names, one retry, one fault | devices of the present account only, and they work; nobody forgotten at ntfy |
| `market` | two servers, two prices, two snapshots, one edit, one retry, one fault | told once per target and of an offer that stands; a healthy source is current; who waits is told |
| `all_mode` (violation) | an `all` subscription, one opening and its recovery | see Findings |
| `quiet` (violation) | a failure just before the quiet period | see Findings |

Why the bounds are enough. Every property is about one route of one incident, or
two deliveries, ticks, attempts, polls or results of it, or three events; the
instances have that many, and where it is affordable one more event or instant
than the shortest scenario that could break the property (each is shown to break
under a `Faulty...` variant of a definition it depends on, within these bounds).
Three events make an episode, its recovery and the next one. Two ticks are what
a lease distinguishes, and two polls or attempts likewise. Two names are an
account and the one that replaces it. `monitoring` runs two worlds in one
instance: without nodes, where the clock matters to the spacing of probes, and
with a node while the clock stands at its end, where every interval is over.
`Retention` keeps events for one day of four: what is stamped before, kept
through and deleted after the period all occurs. Deadlock is not checked where
the clock, the number of events or of calls is bounded: such an instance really
ends. `market` does check it.

Each run checks the types of its variables: in a property of their own
(`TypeOK`, `TypesOK`) or as the first conjunct of `IncidentTracksAlert`,
`NothingOfTheDeleted`, `DevicesOfCurrentAccount` and `HealthyIsCurrent`.
`AlertsClear` and `NothingThatMattersForgotten` are conjunctions of two named
halves each.

Exceptions the properties state. `NobodyForgotten` has three (a superseded job
that has used up its retries; an account removed while a job of an earlier name
runs; an enabling that comes back from its clean-up to an account enabled
meanwhile), and `overtaken` excuses requests executed out of order; they are what
the code does, are listed as hazards, and contradict no document.
`MembersExact` counts a membership that a death prevented as left out: no start
makes up for it. `NothingThatMattersForgotten` excepts a key whose row went with an opening
older than the retention although its recovery was younger. `FreshOffersOnly`
excepts a rule edited after a server died between storing a stale snapshot and
releasing the source. `OncePerTarget` allows one more notification for every
server that died before noting the one it sent. `RetriesRecognised` holds for a
publisher who leaves nothing to the event type.

Fairness. `live` assumes weak fairness of each tick (the interval timer recurs,
and a provider call returns or times out) and strong fairness of the clock,
which counts minutes and moves only when nothing is due, because ticks are
seconds and leases, retries and cooldowns are minutes. `alerts` assumes that a
healthy source is checked again and again and that an emission tried for ever
succeeds at some time: the scheduler repeats checks, and `emitNotification`
throws only while the project is disabled or the database fails.
`monitoring_live` assumes that the scheduler's timer recurs, that a probe ends by
its timeout, that an agent is restarted by its service manager and goes on, that
a task is due again and again, and that a request tried for ever is not lost
every time. `market` assumes that a server's poll goes on (fetches time out),
that each server tries to poll again, and that a lease expires. Crashes and
faults are finitely many in each.

## Findings

1. `docs/notifications.md` says "`all` preserves both". `claimDelivery` and the
   sweep exempt `all` subscriptions from superseding, but `processDeliveries`
   and `failDelivery` do not: an opening whose provider call is in flight while
   its incident is recovered ends `superseded` although it was sent, and is not
   retried if it failed (run `all_mode`).
2. `docs/notifications.md` says lower priorities "wait until the user's quiet
   period ends". Quiet hours are applied when a delivery is created or repeated;
   a retry, or an attempt after a backlog, is made whenever it falls due (run
   `quiet`).

## Proofs

`IncidentProofs` proves for all keys and times: type correctness, `RowsOrdered`,
`RowsSummarise`, `EpisodesMoveForward`, and that `Incident` implements
`LatestWins`. The inductive invariant is the conjunction of types, row order and
the summary: the order of columns is not inductive alone in what it lets the
refinement conclude, the summary is what ties the row to the set of events. One
lemma (`UpdateKeepsRow`) does the case analysis of `updateIncident`; the
theorems follow from it.

`NotificationProofs` proves `TypeOK`, `TokensDiffer` and `ImplementsOutbox` of
`NotificationService` for all values of its constants. One lemma per action
shows what the action may do to a delivery row (`RowMove`: it stays, ends, is
done because its provider acted, is queued for later, or is leased until
`now + Lease`); `NextMoves` collects them and everything else follows from it.
The inductive invariant `IInv` adds two parts to the types and `TokensDiffer`.
`ClaimsKept`: what a tick holds across an await still names a row, and that row
is among those sent once the provider acted; the refinement needs it for `done`.
`TokensFence`: no token of a claim is later than the lease in its row, and a row
that went back to the queue is not due before every earlier token is past. Without
it a second claim could write the lease a late tick still holds: `TokensDiffer` is not
inductive alone, because a retry clears the lease the late tick would be compared with.
The argument rests on `TimingAssumption`: every retry delay is positive, and the
clock does not go back.

`EpisodeProofs` proves `EpisodeFence`, `OncePerEpisode`, `RecoveryClosesQueue`,
`RepeatChain` and `IntervalSpacing`. The invariant has four layers.
`EpisodeInv` says of every accepted opening that its row remembers it: the
opening is no later than the watermark of the row, and earlier than the episode
in progress unless it belongs to it; `EpisodeFence` follows. `LedgerInv` says
the same of accepted recoveries, and that a recovery is no earlier than any
opening of its key accepted before it: without it a second recovery could leave the
queue of an opening it did not reach. `RowsInv` says of every delivery that its
event was accepted and when it was created and delivered. `RoutesInv` are the
four properties themselves, which need one another: a reminder exists only after
the delivery before it, and that one was the announcement of the episode. Two
step lemmas serve them: a step of the worker adds reminders only
(`RepeatsOnly`), a publication adds announcements only (`Announced`).

`AlertProofs` proves `AnnouncedOnce` and `IncidentTracksAlert`. What subscribers
heard and what the incident says are functions of the set of events stored
(`StoresTell`), and the row of an alert knows which those are (`TableKnows`):
its marks claim an event only if it is stored, an open alert's recovery is never
stored, and an open incident carries the time of its alert. `IncidentTracksAlert`
is not inductive alone, because it does not tell a call that was cut before its
mark from one that was never made.

`MarketProofs` proves all four invariants of `Market`, from two arguments.
`SourceInv`: the poll that holds the lease still knows the row of the source and
has fetched nothing older than what is stored (`HolderSound`), so that its last
commit may call the source healthy; a poll that lost its lease commits nothing.
`RulesInv`: a rule was notified once more than it lost if it is met, and its
event is stored; the proof is about one evaluation of a rule, whole or cut short.

`MonitoringProofs` proves the three invariants of `Monitoring` and both action
properties, `OpensUponOwnFailures` and `RotatedOut`. Its invariant has five
parts, each about what an await leaves behind: `NothingLeft` (alerts, results
and assignments name what exists), `ResultsSound` (results are in order and
their location's own, or inherited from a deleted node), `ProbesSound` (at most
one probe of a monitor runs, and it started an interval after every result of
the server: `ProbesSpaced` says nothing of the probe that is still running),
`AgentsSound` (no task is twice in an agent's hands) and `DrainsSound` (a
location that yielded its late result has no probe left to yield another).

`ProvisioningProofs` proves `DevicesOfCurrentAccount` and `DevicesWork`. The
invariant of the first adds three parts to the types. `Shape`: what an attempt or
a device names is a job, and the requests for credentials are labelled with theirs. `Awaited`: an attempt waits for
one request at most, which carries its job or undoes it; without it a second
answer could move an attempt that is over. `Owned` is the property. One lemma per
action shows how it moves the account (`AccountMoves`: a name is followed by the
next, one name by later generations) and the jobs (`Keeps`: what a job was asked
for never changes); the property needs no more.

`DevicesWork` relates ntfy's tokens to the account, the jobs, the attempts and the
requests, and takes two layers more. `Sound` is about the server: no job is ahead of
the account (`Named`), a name has one job that makes it (`OneProvision`), a job of the
present generation is never superseded by itself (`Ready`), an account on its way has
no job that removes it (`AccountSound`), and every request carries a job or undoes one
that is `Outdated`, which is for good (`Labels`). `Working` holds as long as nothing was
overtaken: a name that was made has neither a request nor a job left that replaces
it (`Settling`), an attempt that makes a name was the last to ask for it (`Order`),
and an answer that still counts is true at ntfy (`Answers`). `NextStep` describes
what any step of the server does to rows, account, devices and network at once
(`Step`), so that each part is proved about `Step` and once more about the
provisioner's steps.

`NobodyForgotten` says that a job is left for a user name that is not the account's. A
job is no help once its removal was answered, or was asked for before a late request
that makes the user again; so the invariant (`Covered`) is about time: whoever exists
now, and whoever a request on its way is to make, is the account's or has a job whose
removal comes after that (`Removes`). A user who exists was asked for by a job
(`Wanted`), and a request that undoes a job is about the job's user (`Aimed`). Of the
server it needs that a name is left to somebody when the account moves on or its job
fails (`CareStep`, part of `Step`): to the account, to a new job that removes it, or to
one of the three exceptions (`dropped`).

`SmallProofs` proves, over `MCSpec`, what the runs check of the accounts, the
built-ins, retention, the event API, quiet hours and probes, each
part moving in its own scene. `SessionsAreCurrent` is inductive with the types, and gives `LastStepsDown`: whoever takes an administrator away is
one himself. `RecordedOnce`, `ToldTruly` and `RetriesRecognised` follow from
`KeysSound`: keys are unique, and a publisher with a key of his own has recorded
under no other. Retention's property needs what a row must still know of the events
that have arrived, deleted or not (`Covers`, `Bounds`): `NoMissedAlarm` is not
inductive alone, because it does not tell a late opening that the open row includes
from one that was recovered from, nor a resolved row from one that names no recovery.
`MembersExact` says nothing of a server that is down; `MembersSound` says which
projects will get their members at the next start and that nobody was taken out of
them. `RecipientsServed` holds because a synchronisation that is not cut short ends
with it (`OwnSync`) and every change of users is followed by one, or by a restart.
`AttemptedAsItEnds` is proved for days of any number of minutes: the code asks each
coming minute in turn whether it is quiet, and `PeriodsAreQuiet` says that a loud one
follows at the end of the period and not before. `VerdictsAgree` is proved for
responses of any length, cut anywhere: who still reads has a prefix of the body that is
short enough (`Watches`), and whoever is done found what `ServerVerdict` and
`AgentVerdict` say of the response alone. That a response has a body, and that its
length is the sum of its reads, takes an induction over its reads: as the prover cannot
instantiate the library's induction theorems, the proofs take the least counterexample
of a set instead (`Least`). `TypesOK` collects the parts' types; two conjuncts need an
argument of their own. That an open or resolved row names an event that is there
(`KeptLinked`) is the cascade of the foreign key. That event ids stay within the
bound is a count: each event took a request that nobody can execute again (`Spent`).

Proved from the assumptions of the modules and nothing else. Those on constants
say that bounds are natural numbers and that names of different kinds differ: no
node is called like the server or like the pair of a monitor and its location,
nobody is neither a server nor an attempt, a price is positive and there is one, a
snapshot may be published and a token issued, the market is a built-in project, and
there are finitely many publishers. Two say more about the code:
`TimingAssumption` (see above), and `BoundsAssumption` that the server's limit on a
stream is no larger than the agent's (256,000 in `probes.ts:155`, 256 * 1024 in
`main.go:422`). The clock is unbounded in the proofs only in that
`MaxTime` and the other bounds are arbitrary.

Only model-checked: liveness (`EveryDeliverySettles`, `AlertsClear` and the others
under fairness, which the prover does not handle). Every invariant and every action
property of the passing runs is a theorem.

## Plan

1. An abstract account life cycle that `Provisioning` implements up to the
   exceptions of `NobodyForgotten`.
2. Retention composed with the delivery worker (the reminders of an incident
   whose first opening is deleted).

Not modelled. The web interface, dashboards, metrics, settings and deployment
have no protocol of their own; adapters, templates and message texts are text
processing; the start-up migrations run before anything else. Of modelled
components: rate limits, hashing and signatures, the provisioner's nonces,
validation of bodies, host metrics, the inbox (a read flag), and the
subscription that is made for a market watcher.
