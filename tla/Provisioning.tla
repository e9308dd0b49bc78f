---------------------------- MODULE Provisioning ----------------------------
(***************************************************************************)
(* ntfy accounts and devices of a user: the routes that ask for them, the  *)
(* jobs that carry them out (notification-provisioning.ts), and the        *)
(* provisioner next to ntfy (provisioner/main.go).                         *)
(*                                                                         *)
(* A job is claimed under a lease, its request awaited for at most 30      *)
(* seconds, and its outcome recorded if the lease still holds.  Requests   *)
(* travel on connections of their own: one that the server gave up may be  *)
(* executed later, and one sent later may be executed first (`overtaken`). *)
(* The provisioner executes one request at a time.  Server and provisioner *)
(* may die; the database and ntfy's user list stay.                        *)
(*                                                                         *)
(* Time is abstract: whatever waits for a time may find it has come.  A    *)
(* lease_until is known by the attempt that set it: a job is claimed again *)
(* only after its lease has passed or was cleared.                         *)
(***************************************************************************)
EXTENDS Integers, FiniteSets, Sequences, SequencesExt

CONSTANTS Attempts,              \* calls of processJob under way
          Retries,               \* delays before a job is given up (5)
          MaxNames, MaxJobs,     \* bounds: user names, jobs,
          MaxFaults              \* crashes, and requests given up but on their way


VARIABLES
  enabled,    \* the user is neither disabled nor deleted
  account,    \* the user's row of ntfy_accounts
  devices,    \* ntfy_device_tokens that are not revoked
  jobs,       \* ntfy_provision_jobs, in order of creation
  attempts,   \* calls of processJob, and where they wait
  network,    \* requests on their way, in the order they were sent
  users,      \* ntfy: the user names that exist
  tokens,     \* ntfy: the user name of each token, and the job it was made for
  overtaken,  \* history: a request was executed before an earlier one of its name
  dropped,    \* history: names the code loses sight of (see NobodyForgotten)
  crashes

vars == <<enabled, account, devices, jobs, attempts, network, users, tokens, overtaken,
          dropped, crashes>>
database == <<enabled, account, devices, jobs>>
remote == <<users, tokens, overtaken>>
world == <<remote, dropped, crashes>>

Names == 1..MaxNames       \* random, so never used twice
JobIds == 1..MaxJobs       \* also request ids, hence the labels of tokens
None == 0
Nobody == "nobody"

ASSUME ProvisioningAssumption ==
  {Retries, MaxNames, MaxJobs, MaxFaults} \subseteq Nat /\ Nobody \notin Attempts

Credentialed == {"provision", "add-device"}
Operations == Credentialed \cup {"revoke-device", "disable-account"}

Account == [status : {"none", "pending", "active", "disabled", "error"},
            name : 0..MaxNames, generation : Nat]

\* `owned`: user_id is not NULL; `holder` and `expired` are the lease.  Whether
\* the credentials are still to be fetched decides something for devices only.
Job == [op : Operations, owned : BOOLEAN, name : Names, generation : Nat,
        token : 0..MaxJobs, status : {"pending", "processing", "completed", "failed"},
        attempt_count : 0..Retries + 1, holder : Attempts \cup {Nobody}, expired : BOOLEAN,
        result : BOOLEAN]

Attempt == [job : 0..MaxJobs, step : {"idle", "waiting", "answered", "compensating", "compensated"},
            then : {"nothing", "enable"}]
Idle == [job |-> None, step |-> "idle", then |-> "nothing"]

Request == [to : Attempts \cup {Nobody}, op : Operations, name : Names, label : 0..MaxJobs,
            token : 0..MaxJobs]

InUse == account.status \in {"active", "pending", "error"}
Unfinished(j) == jobs[j].status \in {"pending", "processing"}
Holds(a) == LET j == jobs[attempts[a].job] IN j.status = "processing" /\ j.holder = a

-----------------------------------------------------------------------------
(* Jobs and attempts.                                                      *)

NewJob(op, owned, name, generation, token) ==
  [op |-> op, owned |-> owned, name |-> name, generation |-> generation, token |-> token,
   status |-> "pending", attempt_count |-> 0, holder |-> Nobody, expired |-> FALSE,
   result |-> FALSE]

\* queueProvisionJob
Queued(rows, op, owned, name, generation, token) ==
  Append(rows, NewJob(op, owned, name, generation, token))

Claimable(job) == job.status = "pending" \/ (job.status = "processing" /\ job.expired)

Claimed(job, a) ==
  [job EXCEPT !.status = "processing", !.holder = a, !.expired = FALSE,
     !.attempt_count = IF @ > Retries THEN @ ELSE @ + 1]

RequestOf(a, j, job) ==
  [to |-> a, op |-> job.op, name |-> job.name, label |-> j, token |-> job.token]

\* processJob up to its first await, on job j of the rows.
Process(a, rows, j, then) ==
  /\ jobs' = [rows EXCEPT ![j] = Claimed(@, a)]
  /\ attempts' = [attempts EXCEPT ![a] = [job |-> j, step |-> "waiting", then |-> then]]
  /\ network' = Append(network, RequestOf(a, j, rows[j]))

\* createProvisionJob
CreateProvisionJob(a, op, name, generation, token, then) ==
  LET rows == Queued(jobs, op, TRUE, name, generation, token)
  IN Len(rows) <= MaxJobs /\ Process(a, rows, Len(rows), then)

\* provisionWorkerTick: three in a row are three ticks.
ProvisionWorkerTick(a, j) ==
  /\ attempts[a] = Idle
  /\ Claimable(jobs[j])
  /\ Process(a, jobs, j, "nothing")
  /\ UNCHANGED <<enabled, account, devices, world>>

LeaseExpires(j) ==
  /\ jobs[j].status = "processing" /\ ~jobs[j].expired
  /\ jobs' = [jobs EXCEPT ![j].expired = TRUE]
  /\ UNCHANGED <<enabled, account, devices, attempts, network, world>>

-----------------------------------------------------------------------------
(* The outcome of an attempt.                                              *)

\* Only the name is compared.
FaultyMatches(job) == account.name = job.name

Current(job) == account.name = job.name /\ account.generation = job.generation

Matches(job) ==
  /\ Current(job)
  /\ account.status = IF job.op = "provision" THEN "pending" ELSE "active"

Stale(job) == job.op \in Credentialed /\ job.owned /\ ~Matches(job)

\* The device of a revoked token stays on the list.
FaultyFinalizeProvisioning(j) ==
  LET job == jobs[j]
  IN CASE ~job.owned \/ job.op = "revoke-device" -> UNCHANGED <<account, devices>>
       [] job.owned /\ job.op \in Credentialed ->
            /\ devices' = devices \cup {j}
            /\ account' = IF job.op = "provision" THEN [account EXCEPT !.status = "active"]
                          ELSE account
       [] job.owned /\ job.op = "disable-account" ->
            IF Current(job)
            THEN account' = [account EXCEPT !.status = "disabled"] /\ devices' = {}
            ELSE UNCHANGED <<account, devices>>

FinalizeProvisioning(j) ==
  LET job == jobs[j]
  IN CASE ~job.owned -> UNCHANGED <<account, devices>>
       [] job.owned /\ job.op \in Credentialed ->
            /\ devices' = devices \cup {j}
            /\ account' = IF job.op = "provision" THEN [account EXCEPT !.status = "active"]
                          ELSE account
       [] job.owned /\ job.op = "revoke-device" ->
            devices' = devices \ {job.token} /\ UNCHANGED account
       [] job.owned /\ job.op = "disable-account" ->
            IF Current(job)
            THEN account' = [account EXCEPT !.status = "disabled"] /\ devices' = {}
            ELSE UNCHANGED <<account, devices>>

\* A job that is over for good: its attempts no longer count.
Closed(job, status) ==
  [job EXCEPT !.status = status, !.holder = Nobody, !.expired = FALSE, !.attempt_count = 0]

Completed(j) ==
  LET closed == Closed(jobs[j], "completed")
  IN [jobs EXCEPT ![j] = [closed EXCEPT !.result = closed.result \/ jobs[j].op = "add-device"]]

\* The rest of POST enable after its clean-up: whatever the account is by now,
\* it gets a new name and generation, and a job.
Upsert(row) ==
  [status |-> "pending", name |-> row.name + 1,
   generation |-> IF row.status = "none" THEN 0 ELSE row.generation + 1]

ThenEnable(a, row, rows) ==
  LET more == Queued(rows, "provision", TRUE, row.name + 1, Upsert(row).generation, None)
  IN /\ account' = Upsert(row)
     /\ Process(a, more, Len(more), "nothing")

CanEnable(rows) == account.name < MaxNames /\ Len(rows) < MaxJobs

Complete(a) ==
  LET j == attempts[a].job
  IN /\ attempts[a].step = "answered" /\ Holds(a) /\ ~Stale(jobs[j])
     /\ IF attempts[a].then = "enable" /\ CanEnable(jobs)
        THEN /\ ThenEnable(a, account, Completed(j))
             /\ devices' = IF Current(jobs[j]) THEN {} ELSE devices
             /\ dropped' = IF Current(jobs[j]) \/ ~InUse THEN dropped
                             ELSE dropped \cup {account.name}
        ELSE /\ FinalizeProvisioning(j)
             /\ jobs' = Completed(j)
             /\ attempts' = [attempts EXCEPT ![a] = Idle]
             /\ UNCHANGED <<network, dropped>>
     /\ UNCHANGED <<enabled, remote, crashes>>

\* A newer account operation has superseded the job: what the provisioner did
\* for it is undone, before the failure is recorded.
Supersede(a) ==
  LET j == attempts[a].job
      undo == IF jobs[j].op = "provision" THEN "disable-account" ELSE "revoke-device"
  IN /\ attempts[a].step = "answered" /\ Holds(a) /\ Stale(jobs[j])
     /\ attempts' = [attempts EXCEPT ![a].step = "compensating"]
     /\ network' = Append(network, [to |-> a, op |-> undo, name |-> jobs[j].name,
                                    label |-> None,
                                    token |-> IF undo = "revoke-device" THEN j ELSE None])
     /\ UNCHANGED <<database, world>>

GivenUp(job) == job.op \in Credentialed /\ job.attempt_count > Retries

\* The catch of processJob, whose updates a lost lease makes void.
Fail(a, rows, stale) ==
  LET j == attempts[a].job
      failed == stale \/ GivenUp(rows[j])
  IN /\ jobs' = IF Holds(a)
                THEN [rows EXCEPT ![j].status = IF failed THEN "failed" ELSE "pending",
                                  ![j].holder = Nobody, ![j].expired = FALSE]
                ELSE rows
     /\ account' = IF /\ Holds(a) /\ failed /\ ~stale /\ rows[j].op = "provision"
                      /\ Matches(rows[j])
                   THEN [account EXCEPT !.status = "error"] ELSE account
     /\ dropped' = IF Holds(a) /\ GivenUp(rows[j]) /\ ~stale /\ Stale(rows[j])
                      /\ rows[j].op = "provision"
                   THEN dropped \cup {rows[j].name} ELSE dropped
     /\ attempts' = [attempts EXCEPT ![a] = Idle]
     /\ UNCHANGED <<enabled, devices, remote, crashes>>

\* An answer that comes after its lease was lost is thrown away.
LoseLease(a) ==
  /\ attempts[a].step = "answered" /\ ~Holds(a)
  /\ Fail(a, jobs, FALSE)
  /\ UNCHANGED network

Late(requests) == Cardinality({i \in DOMAIN requests : requests[i].to = Nobody})

\* Nobody waits any longer for the requests of the attempts A.
Abandoned(A) ==
  [i \in DOMAIN network |->
     IF network[i].to \in A THEN [network[i] EXCEPT !.to = Nobody] ELSE network[i]]

Faults == crashes' + Late(network') <= MaxFaults

Abandon(a) == network' = Abandoned({a}) /\ Faults

\* The server dies; its requests stay on their way.
Die ==
  /\ crashes' = crashes + 1
  /\ attempts' = [a \in Attempts |-> Idle]
  /\ network' = Abandoned(Attempts) /\ Faults

\* The request fails or is not answered in time.
GiveUp(a) ==
  /\ attempts[a].step = "waiting"
  /\ Fail(a, jobs, FALSE)
  /\ Abandon(a)

\* The failure to undo is forgotten.
FaultyUndoLater(j) == jobs

\* queueProvisionJob(null, ...)
UndoLater(j) ==
  LET undo == IF jobs[j].op = "provision" THEN "disable-account" ELSE "revoke-device"
  IN Queued(jobs, undo, FALSE, jobs[j].name, None, IF undo = "revoke-device" THEN j ELSE None)

GiveUpUndo(a) ==
  LET rows == UndoLater(attempts[a].job)
  IN /\ attempts[a].step = "compensating" /\ Len(rows) <= MaxJobs
     /\ Fail(a, rows, TRUE)
     /\ Abandon(a)

Undone(a) ==
  /\ attempts[a].step = "compensated"
  /\ Fail(a, jobs, TRUE)
  /\ UNCHANGED network

-----------------------------------------------------------------------------
(* Routes.                                                                 *)

LatestJob(op) ==
  {j \in DOMAIN jobs :
     /\ jobs[j].op = op /\ jobs[j].owned /\ Current(jobs[j])
     /\ \A k \in (j + 1)..Len(jobs) : jobs[k].op = op => ~Current(jobs[k])}

Resumable == {j \in DOMAIN jobs : jobs[j].status \in {"pending", "failed"}}

\* resumeProvisionJob: nothing happens to a job of an account that has changed.
ResumeProvisionJob(a, j) ==
  /\ j \in Resumable
  /\ jobs[j].op = "provision" =>
       /\ Current(jobs[j])
       /\ account.status \in {"pending", "error"}
  /\ account' = IF jobs[j].op = "provision" THEN [account EXCEPT !.status = "pending"] ELSE account
  /\ Process(a, [jobs EXCEPT ![j].status = "pending", ![j].attempt_count = 0], j, "nothing")
  /\ UNCHANGED devices

Underway(j) == jobs[j].status = "processing" \/ (jobs[j].status = "completed" /\ jobs[j].result)

\* POST /api/notifications/ntfy/enable
PostEnable(a) ==
  LET latest == LatestJob("provision")
      troubled == account.status \in {"pending", "error"}
  IN /\ enabled /\ attempts[a] = Idle
     /\ \/ \E j \in latest : troubled /\ ResumeProvisionJob(a, j)
        \/ /\ troubled /\ \A j \in latest : j \notin Resumable /\ ~Underway(j)
           /\ CreateProvisionJob(a, "disable-account", account.name, account.generation, None, "enable")
           /\ UNCHANGED <<account, devices>>
        \/ /\ account.status \in {"none", "disabled"} /\ CanEnable(jobs)
           /\ ThenEnable(a, account, jobs)
           /\ UNCHANGED devices
     /\ UNCHANGED <<enabled, world>>

\* The server dies between the account and its job.
EnableDies ==
  /\ enabled /\ account.status \in {"none", "disabled"} /\ CanEnable(jobs)
  /\ account' = Upsert(account)
  /\ Die
  /\ UNCHANGED <<enabled, devices, jobs, remote, dropped>>

\* POST /api/notifications/ntfy/devices
PostDevice(a) ==
  LET latest == LatestJob("add-device")
  IN /\ enabled /\ attempts[a] = Idle /\ account.status = "active"
     /\ \/ \E j \in latest : ResumeProvisionJob(a, j)
        \/ /\ \A j \in latest : j \notin Resumable /\ ~Underway(j)
           /\ CreateProvisionJob(a, "add-device", account.name, account.generation, None, "nothing")
           /\ UNCHANGED <<account, devices>>
     /\ UNCHANGED <<enabled, world>>

\* DELETE /api/notifications/ntfy/devices/:id
DeleteDevice(a) ==
  /\ enabled /\ attempts[a] = Idle
  /\ \E device \in devices :
       CreateProvisionJob(a, "revoke-device", account.name, None, device, "nothing")
  /\ UNCHANGED <<enabled, account, devices, world>>

\* The account is disabled, its devices are revoked, and a job removes it.
DisabledAccount == [account EXCEPT !.status = "disabled", !.generation = @ + 1]
WithRemoval(rows) ==
  Queued(rows, "disable-account", TRUE, account.name, account.generation + 1, None)

\* DELETE /api/notifications/ntfy
DeleteNtfy ==
  LET superseded ==
        [j \in DOMAIN jobs |->
           IF jobs[j].op \in Credentialed /\ Unfinished(j)
           THEN Closed(jobs[j], "failed")
           ELSE jobs[j]]
      closed == {j \in DOMAIN jobs : jobs[j].op = "provision" /\ Unfinished(j)}
  IN /\ enabled /\ InUse /\ Len(jobs) < MaxJobs
     /\ account' = DisabledAccount /\ devices' = {}
     /\ jobs' = WithRemoval(superseded)
     /\ dropped' = dropped \cup ({jobs[j].name : j \in closed} \ {account.name})
     /\ UNCHANGED <<enabled, attempts, network, remote, crashes>>

\* PATCH of a user: disabling takes the account along, enabling does not.
PatchUser(disabled) ==
  /\ enabled' = ~disabled
  /\ IF disabled /\ enabled /\ InUse
     THEN /\ Len(jobs) < MaxJobs
          /\ account' = DisabledAccount /\ devices' = {} /\ jobs' = WithRemoval(jobs)
     ELSE UNCHANGED <<account, devices, jobs>>
  /\ UNCHANGED <<attempts, network, world>>

\* POST .../jobs/:id/ack, or the retention of credentials.
AcknowledgeProvisionResult(j) ==
  /\ jobs[j].status = "completed" /\ jobs[j].result
  /\ jobs' = [jobs EXCEPT ![j].result = FALSE]
  /\ UNCHANGED <<enabled, account, devices, attempts, network, world>>

Crash ==
  /\ \E a \in Attempts : attempts[a] # Idle
  /\ Die
  /\ UNCHANGED <<database, remote, dropped>>

-----------------------------------------------------------------------------
(* The provisioner.                                                        *)

TokensOf(n) == tokens \cap ({n} \X JobIds)

\* The token of the request is found by its label.
Found(r) == r.name \in users /\ <<r.name, r.label>> \in tokens

\* Request r is executed to its end.  A token is made once for a label.
Executed(r) ==
  CASE r.op = "provision" ->
         /\ users' = users \cup {r.name}
         /\ tokens' = IF Found(r) THEN tokens
                      ELSE (tokens \ TokensOf(r.name)) \cup {<<r.name, r.label>>}
    [] r.op = "add-device" -> tokens' = tokens \cup {<<r.name, r.label>>} /\ UNCHANGED users
    [] r.op = "revoke-device" -> tokens' = tokens \ {<<r.name, r.token>>} /\ UNCHANGED users
    [] r.op = "disable-account" ->
         users' = users \ {r.name} /\ tokens' = tokens \ TokensOf(r.name)

\* token list fails for a user that does not exist.
Executable(r) == r.op \in {"add-device", "revoke-device"} => r.name \in users

\* A command fails or the provisioner dies: nothing has happened, or a user
\* who was to be replaced is gone, or new and without the token.
PartlyExecuted(r) ==
  \/ UNCHANGED <<users, tokens>>
  \/ /\ r.op = "provision" /\ ~Found(r)
     /\ users' \in {users \ {r.name}, users \cup {r.name}}
     /\ tokens' = tokens \ TokensOf(r.name)

Overtakes(i) == \E k \in 1..(i - 1) : network[k].name = network[i].name

Answered(a) ==
  IF a = Nobody THEN attempts
  ELSE [attempts EXCEPT ![a].step = IF @ = "waiting" THEN "answered" ELSE "compensated"]

Execute(i) ==
  /\ Executable(network[i])
  /\ Executed(network[i])
  /\ attempts' = Answered(network[i].to)
  /\ network' = RemoveAt(network, i)
  /\ overtaken' = (overtaken \/ Overtakes(i))
  /\ UNCHANGED <<database, dropped, crashes>>

\* It fails, or is lost before it arrives; the server gives it up.
ExecutionFails(i) ==
  /\ PartlyExecuted(network[i])
  /\ network' = RemoveAt(network, i)
  /\ overtaken' = (overtaken \/ Overtakes(i))
  /\ UNCHANGED <<database, attempts, dropped, crashes>>

-----------------------------------------------------------------------------
Init ==
  /\ enabled = TRUE
  /\ account = [status |-> "none", name |-> 0, generation |-> 0]
  /\ devices = {} /\ jobs = <<>> /\ network = <<>>
  /\ attempts = [a \in Attempts |-> Idle]
  /\ users = {} /\ tokens = {} /\ dropped = {}
  /\ overtaken = FALSE /\ crashes = 0

Route(a) == PostEnable(a) \/ PostDevice(a) \/ DeleteDevice(a)

Outcome(a) ==
  Complete(a) \/ Supersede(a) \/ LoseLease(a) \/ GiveUp(a) \/ GiveUpUndo(a) \/ Undone(a)

Next ==
  \/ \E a \in Attempts :
       Route(a) \/ Outcome(a) \/ \E j \in DOMAIN jobs : ProvisionWorkerTick(a, j)
  \/ DeleteNtfy \/ EnableDies \/ Crash
  \/ \E disabled \in BOOLEAN : PatchUser(disabled)
  \/ \E j \in DOMAIN jobs : LeaseExpires(j) \/ AcknowledgeProvisionResult(j)
  \/ \E i \in DOMAIN network : Execute(i) \/ ExecutionFails(i)

Spec == Init /\ [][Next]_vars

-----------------------------------------------------------------------------
TypeOK ==
  /\ enabled \in BOOLEAN /\ account \in Account /\ devices \subseteq JobIds
  /\ jobs \in Seq(Job) /\ Len(jobs) <= MaxJobs
  /\ attempts \in [Attempts -> Attempt]
  /\ network \in Seq(Request)
  /\ users \subseteq Names /\ tokens \subseteq users \X JobIds /\ dropped \subseteq Names
  /\ overtaken \in BOOLEAN /\ crashes \in 0..MaxFaults

\* Late answers, lost leases and retries of jobs that a newer operation has
\* superseded never bring a device back: every device that counts belongs to
\* the account as it is now, and a disabled account has none.  All variables have
\* their types.
DevicesOfCurrentAccount ==
  /\ TypeOK
  /\ \A j \in devices : jobs[j].name \notin dropped =>
       /\ account.status = "active"
       /\ jobs[j].name = account.name /\ jobs[j].generation = account.generation

\* What the settings show works: ntfy knows the token of each device of an
\* active account, except while the device is being revoked.
DevicesWork ==
  ~overtaken =>
    \A j \in devices :
      \/ <<jobs[j].name, j>> \in tokens
      \/ \E k \in DOMAIN jobs : Unfinished(k) /\ jobs[k].op = "revoke-device" /\ jobs[k].token = j

\* Nobody is forgotten at ntfy: a user name that exists there is the account's,
\* or a job is left that makes or removes it.  There are three exceptions:
\* provisioning uses up its retries after it was superseded; an owner disables
\* the account while a job of an earlier name is being carried out; and a
\* request to enable comes back from its clean-up to an account that another
\* request has enabled.
NobodyForgotten ==
  ~overtaken =>
    \A n \in users \ dropped :
      \/ n = account.name /\ InUse
      \/ \E j \in DOMAIN jobs :
           /\ jobs[j].name = n /\ jobs[j].op \in {"provision", "disable-account"}
           /\ Unfinished(j)
=============================================================================
