------------------------- MODULE ProvisioningProofs -------------------------
(***************************************************************************)
(* Proofs about ntfy accounts and devices, for any number of overlapping   *)
(* calls of processJob, of jobs, user names, retries and faults.           *)
(***************************************************************************)
EXTENDS Provisioning, FiniteSetTheorems, SequenceTheorems, TLAPS

-----------------------------------------------------------------------------
(* Types.                                                                  *)

\* The token of a request for credentials is labelled with its job.
Labelled == {r \in Request : r.op \in Credentialed => r.label \in JobIds}

\* What the variables are besides their types: a job that is named exists, a
\* token is labelled, and an account that was ever asked for has a name.
Shape ==
  /\ network \in Seq(Labelled)
  /\ devices \subseteq DOMAIN jobs
  /\ devices # {} => account.status # "none"
  /\ account.status # "none" => account.name \in Names
  /\ \A a \in Attempts : attempts[a].step # "idle" => attempts[a].job \in DOMAIN jobs

Typed == TypeOK /\ Shape

LEMMA RemoveAtTyped ==
  ASSUME NEW S, NEW s \in Seq(S), NEW i \in DOMAIN s
  PROVE  RemoveAt(s, i) \in Seq(S)
BY DEF RemoveAt

LEMMA AppendTyped ==
  ASSUME NEW S, NEW s \in Seq(S), NEW x \in S
  PROVE  /\ Append(s, x) \in Seq(S)
         /\ Len(Append(s, x)) = Len(s) + 1
         /\ DOMAIN Append(s, x) = 1..(Len(s) + 1)
         /\ Append(s, x)[Len(s) + 1] = x
         /\ \A i \in DOMAIN s : Append(s, x)[i] = s[i]
OBVIOUS

LEMMA ExceptTyped ==
  ASSUME NEW S, NEW s \in Seq(S), NEW x \in S, NEW i \in DOMAIN s
  PROVE  /\ [s EXCEPT ![i] = x] \in Seq(S)
         /\ Len([s EXCEPT ![i] = x]) = Len(s)
OBVIOUS

\* An abandoned request is the same request, to nobody.
LEMMA AbandonedTyped ==
  ASSUME network \in Seq(Labelled), NEW A
  PROVE  Abandoned(A) \in Seq(Labelled)
<1> DEFINE f(i) == IF network[i].to \in A THEN [network[i] EXCEPT !.to = Nobody] ELSE network[i]
<1>1. ASSUME NEW i \in DOMAIN network
      PROVE  f(i) \in Labelled
  <2>1. network[i] \in Labelled
    OBVIOUS
  <2> QED BY <2>1 DEF Labelled, Request
<1>2. Abandoned(A) = [i \in 1..Len(network) |-> f(i)]
  BY DEF Abandoned
<1> HIDE DEF f
<1> QED BY <1>1, <1>2

\* The bound on faults is a number.
LEMMA LateTyped ==
  ASSUME NEW requests \in Seq(Labelled)
  PROVE  Late(requests) \in Nat
<1> DEFINE late == {i \in DOMAIN requests : requests[i].to = Nobody}
<1>1. IsFiniteSet(1..Len(requests))
  BY FS_Interval
<1>2. late \in SUBSET (1..Len(requests))
  OBVIOUS
<1>3. IsFiniteSet(late)
  BY <1>1, <1>2, FS_Subset
<1> QED BY <1>3, FS_CardinalityType DEF Late

\* What a job was asked for never changes.
Fixed(old, new) ==
  /\ new.op = old.op /\ new.owned = old.owned /\ new.name = old.name
  /\ new.generation = old.generation /\ new.token = old.token

Keeps(rows, more) ==
  /\ Len(rows) <= Len(more)
  /\ \A j \in DOMAIN rows : Fixed(rows[j], more[j])

LEMMA NewJobTyped ==
  ASSUME NEW op \in Operations, NEW owned \in BOOLEAN, NEW name \in Names,
         NEW generation \in Nat, NEW token \in 0..MaxJobs
  PROVE  NewJob(op, owned, name, generation, token) \in Job
BY ProvisioningAssumption DEF NewJob, Job, ProvisioningAssumption

LEMMA ClaimedTyped ==
  ASSUME NEW job \in Job, NEW a \in Attempts
  PROVE  /\ Claimed(job, a) \in Job
         /\ Fixed(job, Claimed(job, a))
         /\ Claimed(job, a).status = "processing"
         /\ Claimed(job, a).holder = a
<1> DEFINE new == Claimed(job, a)
<1>1. Retries \in Nat /\ job.attempt_count \in 0..Retries + 1
  BY ProvisioningAssumption DEF ProvisioningAssumption, Job
<1>2. (IF job.attempt_count > Retries THEN job.attempt_count ELSE job.attempt_count + 1) \in 0..Retries + 1
  BY <1>1
<1>3. new = [job EXCEPT !.status = "processing", !.holder = a, !.expired = FALSE,
               !.attempt_count = IF job.attempt_count > Retries THEN job.attempt_count
                                 ELSE job.attempt_count + 1]
  BY DEF Claimed
<1> HIDE DEF new
<1>4. new \in Job
  BY <1>2, <1>3 DEF Job
<1>5. Fixed(job, new) /\ new.status = "processing" /\ new.holder = a
  BY <1>3 DEF Fixed, Job
<1> QED BY <1>4, <1>5 DEF new

LEMMA ClosedTyped ==
  ASSUME NEW job \in Job, NEW status \in {"completed", "failed"}
  PROVE  /\ Closed(job, status) \in Job
         /\ Fixed(job, Closed(job, status))
         /\ Closed(job, status).status = status
<1> DEFINE new == Closed(job, status)
<1>1. 0 \in 0..Retries + 1
  BY ProvisioningAssumption DEF ProvisioningAssumption
<1>2. new = [job EXCEPT !.status = status, !.holder = Nobody, !.expired = FALSE, !.attempt_count = 0]
  BY DEF Closed
<1> HIDE DEF new
<1>3. new \in Job
  BY <1>1, <1>2 DEF Job
<1>4. Fixed(job, new) /\ new.status = status
  BY <1>2 DEF Fixed, Job
<1> QED BY <1>3, <1>4 DEF new

LEMMA RequestTyped ==
  ASSUME NEW a \in Attempts, NEW job \in Job, NEW j \in JobIds
  PROVE  RequestOf(a, j, job) \in Labelled
BY DEF RequestOf, Labelled, Request, Job, JobIds

\* What processJob does before its first await.
Thens == {"nothing", "enable"}

Sent(a, rows, j, then) ==
  /\ jobs' \in Seq(Job) /\ Len(jobs') = Len(rows)
  /\ \A i \in DOMAIN rows : jobs'[i] = IF i = j THEN Claimed(rows[i], a) ELSE rows[i]
  /\ Keeps(rows, jobs')
  /\ attempts' \in [Attempts -> Attempt]
  /\ attempts'[a] = [job |-> j, step |-> "waiting", then |-> then]
  /\ \A b \in Attempts : b # a => attempts'[b] = attempts[b]
  /\ network' \in Seq(Labelled)
  /\ network' = Append(network, RequestOf(a, j, rows[j]))

LEMMA ProcessTyped ==
  ASSUME TypeOK, Shape, NEW a \in Attempts, NEW rows \in Seq(Job), Len(rows) <= MaxJobs,
         NEW j \in DOMAIN rows, NEW then \in Thens, Process(a, rows, j, then)
  PROVE  Sent(a, rows, j, then)
<1>1. rows[j] \in Job /\ j \in JobIds
  BY ProvisioningAssumption DEF JobIds, ProvisioningAssumption
<1>2. jobs' = [rows EXCEPT ![j] = Claimed(rows[j], a)]
  BY DEF Process
<1>3. Claimed(rows[j], a) \in Job /\ Fixed(rows[j], Claimed(rows[j], a))
  BY <1>1, ClaimedTyped
<1>4. /\ jobs' \in Seq(Job) /\ Len(jobs') = Len(rows)
      /\ \A i \in DOMAIN rows : jobs'[i] = IF i = j THEN Claimed(rows[i], a) ELSE rows[i]
  BY <1>2, <1>3
<1>5. Keeps(rows, jobs')
  BY <1>3, <1>4 DEF Keeps, Fixed
<1>6. [job |-> j, step |-> "waiting", then |-> then] \in Attempt
  BY <1>1 DEF Attempt, JobIds, Thens
<1>7. attempts \in [Attempts -> Attempt]
      /\ attempts' = [attempts EXCEPT ![a] = [job |-> j, step |-> "waiting", then |-> then]]
  BY DEF TypeOK, Process
<1>8. /\ attempts' \in [Attempts -> Attempt]
      /\ attempts'[a] = [job |-> j, step |-> "waiting", then |-> then]
      /\ \A b \in Attempts : b # a => attempts'[b] = attempts[b]
  BY <1>6, <1>7
<1>9. network' = Append(network, RequestOf(a, j, rows[j])) /\ network \in Seq(Labelled)
  BY DEF Process, Shape
<1>10. network' \in Seq(Labelled)
  BY <1>1, <1>9, RequestTyped, AppendTyped
<1> QED BY <1>4, <1>5, <1>8, <1>9, <1>10 DEF Sent

LEMMA KeepsSelf ==
  ASSUME NEW rows \in Seq(Job)
  PROVE  Keeps(rows, rows)
BY DEF Keeps, Fixed

LEMMA KeepsTransitive ==
  ASSUME NEW rows \in Seq(Job), NEW more \in Seq(Job), NEW most \in Seq(Job),
         Keeps(rows, more), Keeps(more, most)
  PROVE  Keeps(rows, most)
BY DEF Keeps, Fixed

\* The rows `more` after job was added to rows.
Added(rows, job, more) ==
  /\ more \in Seq(Job) /\ Len(more) = Len(rows) + 1
  /\ DOMAIN more = 1..(Len(rows) + 1)
  /\ more[Len(rows) + 1] = job
  /\ \A i \in DOMAIN rows : more[i] = rows[i]
  /\ Keeps(rows, more)

LEMMA QueuedTyped ==
  ASSUME NEW rows \in Seq(Job), NEW op \in Operations, NEW owned \in BOOLEAN, NEW name \in Names,
         NEW generation \in Nat, NEW token \in 0..MaxJobs
  PROVE  Added(rows, NewJob(op, owned, name, generation, token),
               Queued(rows, op, owned, name, generation, token))
<1> DEFINE job == NewJob(op, owned, name, generation, token)
           more == Append(rows, job)
<1>1. job \in Job
  BY NewJobTyped
<1> HIDE DEF job
<1>2. /\ more \in Seq(Job) /\ Len(more) = Len(rows) + 1
      /\ DOMAIN more = 1..(Len(rows) + 1) /\ more[Len(rows) + 1] = job
      /\ \A i \in DOMAIN rows : more[i] = rows[i]
  BY <1>1, AppendTyped
<1>3. Queued(rows, op, owned, name, generation, token) = more
  BY DEF Queued, job
<1> HIDE DEF more
<1>4. Keeps(rows, more)
  BY <1>2 DEF Keeps, Fixed
<1> QED BY <1>2, <1>3, <1>4 DEF job, Added

\* The columns of a job in their types.
LEMMA JobColumns ==
  ASSUME TypeOK, NEW j \in DOMAIN jobs
  PROVE  /\ jobs[j] \in Job /\ j \in JobIds /\ j \in Nat
         /\ jobs[j].op \in Operations /\ jobs[j].owned \in BOOLEAN
         /\ jobs[j].name \in Names /\ jobs[j].generation \in Nat /\ jobs[j].token \in 0..MaxJobs
         /\ jobs[j].attempt_count \in 0..Retries + 1
<1>1. jobs \in Seq(Job) /\ Len(jobs) <= MaxJobs /\ MaxJobs \in Nat
  BY ProvisioningAssumption DEF TypeOK, ProvisioningAssumption
<1>2. jobs[j] \in Job /\ j \in JobIds /\ j \in Nat
  BY <1>1 DEF JobIds
<1> QED BY <1>2 DEF Job

LEMMA AccountColumns ==
  ASSUME TypeOK
  PROVE  /\ account.status \in {"none", "pending", "active", "disabled", "error"}
         /\ account.name \in 0..MaxNames /\ account.name \in Nat /\ account.generation \in Nat
         /\ MaxNames \in Nat /\ MaxJobs \in Nat /\ MaxFaults \in Nat
         /\ Len(jobs) \in Nat
<1>1. account \in Account /\ jobs \in Seq(Job)
  BY DEF TypeOK
<1>2. MaxNames \in Nat /\ MaxJobs \in Nat /\ MaxFaults \in Nat
  BY ProvisioningAssumption DEF ProvisioningAssumption
<1>3. account.name \in 0..MaxNames
  BY <1>1 DEF Account
<1> QED BY <1>1, <1>2, <1>3 DEF Account

LEMMA Bounds == MaxNames \in Nat /\ MaxJobs \in Nat /\ MaxFaults \in Nat /\ Retries \in Nat
BY ProvisioningAssumption DEF ProvisioningAssumption

\* The catch of processJob.
FailedAs(a, rows, stale) ==
  LET j == attempts[a].job
      failed == stale \/ GivenUp(rows[j])
  IN /\ j \in DOMAIN rows
     /\ jobs' \in Seq(Job) /\ Len(jobs') = Len(rows) /\ Keeps(rows, jobs')
     /\ Keeps(jobs, jobs')
     /\ \A i \in DOMAIN rows : i # j => jobs'[i] = rows[i]
     /\ ~Holds(a) => jobs' = rows
     /\ Holds(a) => jobs'[j].status = IF failed THEN "failed" ELSE "pending"
     /\ account' \in Account
     /\ account'.name = account.name /\ account'.generation = account.generation
     /\ account' # account =>
          /\ Holds(a) /\ failed /\ ~stale /\ rows[j].op = "provision" /\ Matches(rows[j])
          /\ account'.status = "error"
     /\ attempts' \in [Attempts -> Attempt] /\ attempts'[a] = Idle
     /\ \A b \in Attempts : b # a => attempts'[b] = attempts[b]
     /\ dropped' \subseteq Names
     /\ UNCHANGED <<enabled, devices, remote, crashes>>

LEMMA FailTyped ==
  ASSUME Typed, NEW a \in Attempts, attempts[a].step # "idle",
         NEW rows \in Seq(Job), Len(rows) <= MaxJobs, Keeps(jobs, rows),
         NEW stale \in BOOLEAN, Fail(a, rows, stale)
  PROVE  FailedAs(a, rows, stale)
<1> DEFINE j == attempts[a].job
           failed == stale \/ GivenUp(rows[j])
           new == [rows[j] EXCEPT !.status = IF failed THEN "failed" ELSE "pending",
                                  !.holder = Nobody, !.expired = FALSE]
<1>1. j \in DOMAIN jobs /\ j \in DOMAIN rows
  BY DEF Typed, Shape, Keeps, TypeOK
<1>2. rows[j] \in Job
  BY <1>1
<1>3. new \in Job /\ Fixed(rows[j], new) /\ new.status = IF failed THEN "failed" ELSE "pending"
  BY <1>2 DEF Job, Fixed
<1>4. Holds(a) => jobs' = [rows EXCEPT ![j] = new]
  BY <1>1, <1>2 DEF Fail
<1>5. ~Holds(a) => jobs' = rows
  BY DEF Fail
<1> HIDE DEF new
<1>6. /\ jobs' \in Seq(Job) /\ Len(jobs') = Len(rows)
      /\ \A i \in DOMAIN rows : i # j => jobs'[i] = rows[i]
      /\ Holds(a) => jobs'[j] = new
  BY <1>1, <1>3, <1>4, <1>5
<1>7. Keeps(rows, jobs')
  <2>1. CASE Holds(a)
    BY <1>1, <1>3, <1>6, <2>1 DEF Keeps, Fixed
  <2>2. CASE ~Holds(a)
    BY <1>5, <2>2, KeepsSelf
  <2> QED BY <2>1, <2>2
<1>8. Keeps(jobs, jobs')
  BY <1>6, <1>7, KeepsTransitive DEF Typed, TypeOK
<1>9. /\ account' \in Account
      /\ account'.name = account.name /\ account'.generation = account.generation
      /\ account' # account =>
           /\ Holds(a) /\ failed /\ ~stale /\ rows[j].op = "provision" /\ Matches(rows[j])
           /\ account'.status = "error"
  <2>1. account \in Account
    BY DEF Typed, TypeOK
  <2>2. account' = account \/ account' = [account EXCEPT !.status = "error"]
    BY DEF Fail
  <2>3. account' # account => Holds(a) /\ failed /\ ~stale /\ rows[j].op = "provision" /\ Matches(rows[j])
    BY DEF Fail
  <2> HIDE DEF j, failed
  <2> QED BY <2>1, <2>2, <2>3 DEF Account
<1>10. /\ attempts' \in [Attempts -> Attempt] /\ attempts'[a] = Idle
       /\ \A b \in Attempts : b # a => attempts'[b] = attempts[b]
  <2>1. Idle \in Attempt
    BY Bounds DEF Idle, Attempt, None
  <2> QED BY <2>1 DEF Fail, Typed, TypeOK
<1>11. dropped' \subseteq Names
  <2>1. rows[j].name \in Names
    BY <1>2 DEF Job
  <2> QED BY <2>1 DEF Fail, Typed, TypeOK
<1> QED BY <1>1, <1>3, <1>5, <1>6, <1>7, <1>8, <1>9, <1>10, <1>11 DEF Fail, FailedAs

\* finalizeProvisioning of a job that is not stale.
LEMMA FinalizeTyped ==
  ASSUME Typed, NEW j \in DOMAIN jobs, ~Stale(jobs[j]), FinalizeProvisioning(j)
  PROVE  /\ account' \in Account
         /\ account'.name = account.name /\ account'.generation = account.generation
         /\ account.status # "none" => account'.status # "none"
         /\ devices' \subseteq DOMAIN jobs
         /\ devices' # {} => account'.status # "none"
         /\ devices' \subseteq devices \cup {j}
         /\ \/ UNCHANGED <<account, devices>>
            \/ /\ jobs[j].owned /\ jobs[j].op \in Credentialed /\ Matches(jobs[j])
               /\ account'.status = "active" /\ devices' = devices \cup {j}
               /\ account' # account => jobs[j].op = "provision"
            \/ jobs[j].owned /\ jobs[j].op = "revoke-device" /\ UNCHANGED account
               /\ devices' = devices \ {jobs[j].token}
            \/ /\ jobs[j].owned /\ jobs[j].op = "disable-account" /\ Current(jobs[j])
               /\ account'.status = "disabled" /\ devices' = {}
<1>1. account \in Account /\ devices \subseteq DOMAIN jobs /\ (devices # {} => account.status # "none")
  BY DEF Typed, TypeOK, Shape
<1>2. jobs[j].op \in Operations /\ jobs[j].owned \in BOOLEAN
  BY JobColumns DEF Typed
<1>3. CASE ~jobs[j].owned
  <2>1. UNCHANGED <<account, devices>>
    BY <1>3 DEF FinalizeProvisioning
  <2> QED BY <1>1, <2>1
<1>4. CASE jobs[j].owned /\ jobs[j].op \in Credentialed
  <2>1. /\ devices' = devices \cup {j}
        /\ account' = IF jobs[j].op = "provision" THEN [account EXCEPT !.status = "active"]
                      ELSE account
    BY <1>4 DEF FinalizeProvisioning, Credentialed
  <2>2. Matches(jobs[j]) /\ account.status \in {"pending", "active"}
    BY <1>4 DEF Stale, Matches, Credentialed
  <2>3. jobs[j].op # "provision" => account.status = "active"
    BY <2>2 DEF Matches
  <2>4. /\ account' \in Account /\ account'.status = "active"
        /\ account'.name = account.name /\ account'.generation = account.generation
        /\ account' # account => jobs[j].op = "provision"
    BY <1>1, <2>1, <2>3 DEF Account
  <2> QED BY <1>1, <1>4, <2>1, <2>2, <2>4
<1>5. CASE jobs[j].owned /\ jobs[j].op = "revoke-device"
  <2>1. devices' = devices \ {jobs[j].token} /\ UNCHANGED account
    BY <1>5 DEF FinalizeProvisioning, Credentialed
  <2> QED BY <1>1, <1>5, <2>1
<1>6. CASE jobs[j].owned /\ jobs[j].op = "disable-account"
  <2>1. IF Current(jobs[j])
        THEN account' = [account EXCEPT !.status = "disabled"] /\ devices' = {}
        ELSE UNCHANGED <<account, devices>>
    BY <1>6 DEF FinalizeProvisioning, Credentialed
  <2>2. CASE Current(jobs[j])
    <3>1. account' = [account EXCEPT !.status = "disabled"] /\ devices' = {}
      BY <2>1, <2>2
    <3>2. /\ account' \in Account /\ account'.status = "disabled"
          /\ account'.name = account.name /\ account'.generation = account.generation
      BY <1>1, <3>1 DEF Account
    <3> QED BY <1>6, <2>2, <3>1, <3>2
  <2>3. CASE ~Current(jobs[j])
    BY <1>1, <2>1, <2>3
  <2> QED BY <2>2, <2>3
<1> QED BY <1>2, <1>3, <1>4, <1>5, <1>6 DEF Operations

LEMMA UpsertTyped ==
  ASSUME TypeOK, account.name < MaxNames
  PROVE  /\ Upsert(account) \in Account /\ Upsert(account).status = "pending"
         /\ Upsert(account).name = account.name + 1 /\ account.name + 1 \in Names
         /\ Upsert(account).generation \in Nat
BY AccountColumns DEF Upsert, Account, Names

LEMMA DisabledTyped ==
  ASSUME TypeOK
  PROVE  /\ DisabledAccount \in Account /\ DisabledAccount.status = "disabled"
         /\ DisabledAccount.name = account.name
         /\ DisabledAccount.generation = account.generation + 1
<1>1. account \in Account
  BY DEF TypeOK
<1>2. DisabledAccount = [account EXCEPT !.status = "disabled", !.generation = account.generation + 1]
  BY DEF DisabledAccount
<1>3. account.generation + 1 \in Nat
  BY AccountColumns
<1> HIDE DEF DisabledAccount
<1>4. DisabledAccount \in Account
  BY <1>1, <1>2, <1>3 DEF Account
<1> QED BY <1>1, <1>2, <1>4 DEF Account

\* The rows after a job was completed.
LEMMA CompletedTyped ==
  ASSUME TypeOK, NEW j \in DOMAIN jobs
  PROVE  /\ Completed(j) \in Seq(Job) /\ Len(Completed(j)) = Len(jobs)
         /\ DOMAIN Completed(j) = DOMAIN jobs
         /\ \A i \in DOMAIN jobs : i # j => Completed(j)[i] = jobs[i]
         /\ Completed(j)[j].status = "completed" /\ Fixed(jobs[j], Completed(j)[j])
         /\ Keeps(jobs, Completed(j))
<1> DEFINE closed == Closed(jobs[j], "completed")
           new == [closed EXCEPT !.result = closed.result \/ jobs[j].op = "add-device"]
<1>1. closed \in Job /\ Fixed(jobs[j], closed) /\ closed.status = "completed"
  BY JobColumns, ClosedTyped
<1>2. Completed(j) = [jobs EXCEPT ![j] = new]
  BY DEF Completed
<1> HIDE DEF closed
<1>3. new \in Job /\ Fixed(jobs[j], new) /\ new.status = "completed"
  BY <1>1 DEF Job, Fixed
<1> HIDE DEF new
<1>4. jobs \in Seq(Job)
  BY DEF TypeOK
<1>5. /\ Completed(j) \in Seq(Job) /\ Len(Completed(j)) = Len(jobs)
      /\ DOMAIN Completed(j) = DOMAIN jobs
      /\ \A i \in DOMAIN jobs : i # j => Completed(j)[i] = jobs[i]
      /\ Completed(j)[j] = new
  BY <1>2, <1>3, <1>4
<1>6. Keeps(jobs, Completed(j))
  BY <1>3, <1>4, <1>5 DEF Keeps, Fixed
<1> QED BY <1>3, <1>5, <1>6

-----------------------------------------------------------------------------
(* Every step keeps the types.                                             *)

\* How the account may move: it never forgets that it was asked for, a name is
\* followed by the next one, and one name by later generations.
AccountMoves ==
  /\ account' \in Account
  /\ account.status # "none" => account'.status # "none"
  /\ account'.status # "none" => account'.name \in Names
  /\ \/ account'.name = account.name /\ account'.generation >= account.generation
     \/ account'.name = account.name + 1

JobsMove == jobs' \in Seq(Job) /\ Len(jobs') <= MaxJobs /\ Keeps(jobs, jobs')

AttemptsMove ==
  /\ attempts' \in [Attempts -> Attempt]
  /\ \A a \in Attempts : attempts'[a].step # "idle" => attempts'[a].job \in DOMAIN jobs'

DevicesMove ==
  /\ devices' \subseteq DOMAIN jobs
  /\ devices' # {} => account'.status # "none"

Moves == AccountMoves /\ JobsMove

LEMMA TypedFrom ==
  ASSUME Typed, Moves, AttemptsMove, DevicesMove, enabled' \in BOOLEAN,
         network' \in Seq(Labelled), users' \subseteq Names, tokens' \subseteq users' \X JobIds,
         dropped' \subseteq Names, overtaken' \in BOOLEAN, crashes' \in 0..MaxFaults
  PROVE  Typed'
<1>1. Len(jobs) <= Len(jobs') /\ jobs \in Seq(Job) /\ jobs' \in Seq(Job)
  BY DEF Moves, JobsMove, Keeps, Typed, TypeOK
<1>2. devices' \subseteq DOMAIN jobs' /\ devices' \subseteq JobIds
  BY <1>1, Bounds DEF DevicesMove, Moves, JobsMove, JobIds
<1>3. network' \in Seq(Request)
  <2>1. \A i \in DOMAIN network' : network'[i] \in Request
    BY DEF Labelled
  <2>2. network' \in [1..Len(network') -> Request] /\ Len(network') \in Nat
    BY <2>1
  <2> QED BY <2>2
<1> QED
  BY <1>1, <1>2, <1>3 DEF Typed, TypeOK, Shape, Moves, AccountMoves, JobsMove, AttemptsMove, DevicesMove

LEMMA SameAccount ==
  ASSUME Typed, UNCHANGED account
  PROVE  AccountMoves
BY AccountColumns DEF Typed, TypeOK, Shape, AccountMoves

LEMMA SameJobs ==
  ASSUME Typed, UNCHANGED jobs
  PROVE  JobsMove
BY KeepsSelf DEF Typed, TypeOK, JobsMove

LEMMA SameDevices ==
  ASSUME Typed, AccountMoves, UNCHANGED devices
  PROVE  DevicesMove
BY DEF Typed, Shape, DevicesMove, AccountMoves

LEMMA SameWorld ==
  ASSUME Typed, UNCHANGED <<users, tokens, overtaken, dropped, crashes>>
  PROVE  /\ users' \subseteq Names /\ tokens' \subseteq users' \X JobIds
         /\ dropped' \subseteq Names /\ overtaken' \in BOOLEAN /\ crashes' \in 0..MaxFaults
BY DEF Typed, TypeOK

\* Attempts stay, where jobs are kept.
LEMMA SameAttempts ==
  ASSUME Typed, JobsMove, UNCHANGED attempts
  PROVE  AttemptsMove
BY DEF Typed, TypeOK, Shape, AttemptsMove, JobsMove, Keeps

LEMMA SendMoves ==
  ASSUME Typed, NEW a \in Attempts, NEW rows \in Seq(Job), Len(rows) <= MaxJobs,
         Keeps(jobs, rows), NEW j \in DOMAIN rows, NEW then \in Thens,
         Process(a, rows, j, then)
  PROVE  JobsMove /\ AttemptsMove /\ network' \in Seq(Labelled)
<1>1. TypeOK /\ Shape
  BY DEF Typed
<1>2. /\ jobs' \in Seq(Job) /\ Len(jobs') = Len(rows) /\ Keeps(rows, jobs')
      /\ attempts' \in [Attempts -> Attempt]
      /\ attempts'[a] = [job |-> j, step |-> "waiting", then |-> then]
      /\ \A b \in Attempts : b # a => attempts'[b] = attempts[b]
      /\ network' \in Seq(Labelled)
  <2>1. Sent(a, rows, j, then)
    BY <1>1, ProcessTyped
  <2> QED BY <2>1 DEF Sent
<1>3. JobsMove
  <2>1. jobs \in Seq(Job) /\ jobs' \in Seq(Job) /\ Keeps(jobs, rows) /\ Keeps(rows, jobs')
    BY <1>1, <1>2 DEF TypeOK
  <2>2. Keeps(jobs, jobs')
    BY <2>1, KeepsTransitive
  <2> QED BY <1>2, <2>1, <2>2 DEF JobsMove
<1>4. AttemptsMove
  <2>1. DOMAIN jobs \subseteq DOMAIN rows /\ DOMAIN rows = DOMAIN jobs'
    BY <1>1, <1>2 DEF Keeps, TypeOK
  <2> QED BY <1>1, <1>2, <2>1 DEF AttemptsMove, Shape
<1> QED BY <1>2, <1>3, <1>4

LEMMA EnableMoves ==
  ASSUME Typed, NEW a \in Attempts, NEW rows \in Seq(Job), Keeps(jobs, rows),
         CanEnable(rows), ThenEnable(a, account, rows), devices' = devices \/ devices' = {}
  PROVE  Moves /\ AttemptsMove /\ DevicesMove /\ network' \in Seq(Labelled)
<1> DEFINE more == Queued(rows, "provision", TRUE, account.name + 1, Upsert(account).generation, None)
<1>1. TypeOK /\ account.name < MaxNames /\ Len(rows) < MaxJobs /\ Len(rows) \in Nat /\ MaxJobs \in Nat
  BY Bounds DEF Typed, CanEnable
<1>2. account' = Upsert(account)
  BY DEF ThenEnable
<1>3. AccountMoves
  <2>1. /\ account' \in Account /\ account'.status = "pending"
        /\ account'.name = account.name + 1 /\ account'.name \in Names
    BY <1>1, <1>2, UpsertTyped
  <2> HIDE <1>2
  <2> QED BY <2>1 DEF AccountMoves
<1>4. "provision" \in Operations /\ None \in 0..MaxJobs
  BY Bounds DEF Operations, Credentialed, None
<1>5. /\ more \in Seq(Job) /\ Len(more) = Len(rows) + 1 /\ Keeps(rows, more)
      /\ Len(more) \in DOMAIN more /\ Len(more) <= MaxJobs
  <2>1. account.name + 1 \in Names /\ Upsert(account).generation \in Nat /\ TRUE \in BOOLEAN
    BY <1>1, UpsertTyped
  <2>2. Added(rows, NewJob("provision", TRUE, account.name + 1, Upsert(account).generation, None), more)
    BY <1>4, <2>1, QueuedTyped
  <2> HIDE DEF more
  <2> QED BY <1>1, <2>2 DEF Added
<1>6. Process(a, more, Len(more), "nothing")
  BY DEF ThenEnable
<1> HIDE DEF more
<1>7. Keeps(jobs, more)
  BY <1>1, <1>5, KeepsTransitive DEF TypeOK
<1>8. JobsMove /\ AttemptsMove /\ network' \in Seq(Labelled)
  BY <1>5, <1>6, <1>7, SendMoves DEF Thens
<1>9. DevicesMove
  <2>1. account'.status = "pending"
    BY <1>1, <1>2, UpsertTyped
  <2> QED BY <2>1 DEF DevicesMove, Typed, Shape
<1> QED BY <1>3, <1>8, <1>9 DEF Moves

\* What a failure leaves of the types.
LEMMA FailMoves ==
  ASSUME Typed, NEW a \in Attempts, attempts[a].step # "idle",
         NEW rows \in Seq(Job), Len(rows) <= MaxJobs, Keeps(jobs, rows),
         NEW stale \in BOOLEAN, Fail(a, rows, stale)
  PROVE  /\ Moves /\ AttemptsMove /\ DevicesMove
         /\ enabled' \in BOOLEAN /\ dropped' \subseteq Names /\ UNCHANGED <<users, tokens, overtaken, crashes>>
<1>1. FailedAs(a, rows, stale)
  BY FailTyped
<1>2. TypeOK /\ Shape
  BY DEF Typed
<1>3. JobsMove
  BY <1>1 DEF FailedAs, JobsMove
<1>4. AccountMoves
  <2>1. CASE account' = account
    BY <2>1, SameAccount
  <2>2. CASE account' # account
    <3>1. account.status = "pending" /\ account'.status = "error"
      BY <1>1, <2>2 DEF FailedAs, Matches
    <3> QED BY <1>1, <1>2, <3>1, AccountColumns DEF FailedAs, AccountMoves, Shape
  <2> QED BY <2>1, <2>2
<1>5. AttemptsMove
  <2>1. DOMAIN jobs \subseteq DOMAIN jobs'
    BY <1>1, <1>2 DEF FailedAs, Keeps, TypeOK
  <2> QED BY <1>1, <1>2, <2>1 DEF FailedAs, AttemptsMove, Shape, Idle
<1>6. DevicesMove
  BY <1>1, <1>4, SameDevices DEF FailedAs
<1> QED BY <1>1, <1>2, <1>3, <1>4, <1>5, <1>6 DEF FailedAs, Moves, TypeOK, remote

Kept == Typed' /\ Moves

LEMMA TickKept ==
  ASSUME Typed, NEW a \in Attempts, NEW j \in DOMAIN jobs, ProvisionWorkerTick(a, j)
  PROVE  Kept
<1>1. jobs \in Seq(Job) /\ Len(jobs) <= MaxJobs /\ Keeps(jobs, jobs) /\ "nothing" \in Thens
  BY KeepsSelf DEF Typed, TypeOK, Thens
<1>2. Process(a, jobs, j, "nothing") /\ UNCHANGED <<enabled, account, devices, world>>
  BY DEF ProvisionWorkerTick
<1>3. JobsMove /\ AttemptsMove /\ network' \in Seq(Labelled)
  BY <1>1, <1>2, SendMoves
<1>4. AccountMoves /\ DevicesMove /\ enabled' \in BOOLEAN
  BY <1>2, SameAccount, SameDevices DEF Typed, TypeOK
<1> QED BY <1>2, <1>3, <1>4, SameWorld, TypedFrom DEF Kept, Moves, world, remote

LEMMA LeaseExpiresKept ==
  ASSUME Typed, NEW j \in DOMAIN jobs, LeaseExpires(j)
  PROVE  Kept /\ \A i \in DOMAIN jobs : jobs'[i].status = jobs[i].status
<1>1. jobs[j] \in Job /\ jobs \in Seq(Job) /\ jobs' = [jobs EXCEPT ![j] = [jobs[j] EXCEPT !.expired = TRUE]]
  BY DEF Typed, TypeOK, LeaseExpires
<1> DEFINE new == [jobs[j] EXCEPT !.expired = TRUE]
<1>2. new \in Job /\ Fixed(jobs[j], new) /\ new.status = jobs[j].status
  BY <1>1 DEF Job, Fixed
<1> HIDE DEF new
<1>3. jobs' \in Seq(Job) /\ Len(jobs') = Len(jobs) /\ Keeps(jobs, jobs')
      /\ \A i \in DOMAIN jobs : jobs'[i].status = jobs[i].status
  BY <1>1, <1>2 DEF new, Keeps, Fixed
<1>4. JobsMove /\ AttemptsMove
  BY <1>3, SameAttempts DEF JobsMove, LeaseExpires, Typed, TypeOK
<1>5. AccountMoves /\ DevicesMove /\ enabled' \in BOOLEAN /\ network' \in Seq(Labelled)
  BY SameAccount, SameDevices DEF Typed, TypeOK, Shape, LeaseExpires
<1> QED BY <1>3, <1>4, <1>5, SameWorld, TypedFrom DEF LeaseExpires, Kept, Moves, world, remote

LEMMA AcknowledgeKept ==
  ASSUME Typed, NEW j \in DOMAIN jobs, AcknowledgeProvisionResult(j)
  PROVE  Kept /\ \A i \in DOMAIN jobs : jobs'[i].status = jobs[i].status
<1>1. /\ jobs[j] \in Job /\ jobs \in Seq(Job)
      /\ jobs' = [jobs EXCEPT ![j] = [jobs[j] EXCEPT !.result = FALSE]]
  BY DEF Typed, TypeOK, AcknowledgeProvisionResult
<1> DEFINE new == [jobs[j] EXCEPT !.result = FALSE]
<1>2. new \in Job /\ Fixed(jobs[j], new) /\ new.status = jobs[j].status
  BY <1>1 DEF Job, Fixed
<1> HIDE DEF new
<1>3. jobs' \in Seq(Job) /\ Len(jobs') = Len(jobs) /\ Keeps(jobs, jobs')
      /\ \A i \in DOMAIN jobs : jobs'[i].status = jobs[i].status
  BY <1>1, <1>2 DEF new, Keeps, Fixed
<1>4. JobsMove /\ AttemptsMove
  BY <1>3, SameAttempts DEF JobsMove, AcknowledgeProvisionResult, Typed, TypeOK
<1>5. AccountMoves /\ DevicesMove /\ enabled' \in BOOLEAN /\ network' \in Seq(Labelled)
  BY SameAccount, SameDevices DEF Typed, TypeOK, Shape, AcknowledgeProvisionResult
<1> QED
  BY <1>3, <1>4, <1>5, SameWorld, TypedFrom DEF AcknowledgeProvisionResult, Kept, Moves, world, remote

LEMMA CompleteKept ==
  ASSUME Typed, NEW a \in Attempts, Complete(a)
  PROVE  Kept
<1> DEFINE j == attempts[a].job
<1>1. TypeOK /\ Shape /\ attempts[a].step = "answered" /\ ~Stale(jobs[j])
  BY DEF Typed, Complete
<1>2. j \in DOMAIN jobs
  BY <1>1 DEF Shape
<1>3. enabled' \in BOOLEAN /\ UNCHANGED <<users, tokens, overtaken, crashes>>
  BY <1>1 DEF Complete, TypeOK, remote
<1>4. /\ Completed(j) \in Seq(Job) /\ Len(Completed(j)) = Len(jobs) /\ Keeps(jobs, Completed(j))
      /\ jobs \in Seq(Job) /\ Len(jobs) <= MaxJobs /\ DOMAIN Completed(j) = DOMAIN jobs
  BY <1>1, <1>2, CompletedTyped DEF TypeOK
<1>5. CASE attempts[a].then = "enable" /\ CanEnable(jobs)
  <2>1. /\ ThenEnable(a, account, Completed(j)) /\ (devices' = devices \/ devices' = {})
        /\ \/ dropped' = dropped
           \/ InUse /\ dropped' = dropped \cup {account.name}
    <3>1. /\ ThenEnable(a, account, Completed(j))
          /\ devices' = IF Current(jobs[j]) THEN {} ELSE devices
          /\ dropped' = IF Current(jobs[j]) \/ ~InUse THEN dropped
                        ELSE dropped \cup {account.name}
      BY <1>5 DEF Complete
    <3>2. devices' = devices \/ devices' = {}
      BY <3>1
    <3>3. CASE Current(jobs[j]) \/ ~InUse
      BY <3>1, <3>2, <3>3
    <3>4. CASE ~(Current(jobs[j]) \/ ~InUse)
      <4>1. InUse
        BY <3>4
      <4> QED BY <3>1, <3>2, <3>4, <4>1
    <3> QED BY <3>3, <3>4
  <2>2. CanEnable(Completed(j))
    BY <1>4, <1>5 DEF CanEnable
  <2>3. Moves /\ AttemptsMove /\ DevicesMove /\ network' \in Seq(Labelled)
    BY <1>4, <2>1, <2>2, EnableMoves
  <2>4. InUse => account.name \in Names
    BY <1>1 DEF InUse, Shape
  <2>5. dropped' \subseteq Names
    BY <1>1, <2>1, <2>4 DEF TypeOK
  <2> QED BY <1>1, <1>3, <2>3, <2>5, TypedFrom DEF Kept, TypeOK
<1>6. CASE ~(attempts[a].then = "enable" /\ CanEnable(jobs))
  <2>1. /\ FinalizeProvisioning(j) /\ jobs' = Completed(j)
        /\ attempts' = [attempts EXCEPT ![a] = Idle] /\ UNCHANGED <<network, dropped>>
    BY <1>6 DEF Complete
  <2>2. AccountMoves /\ DevicesMove
    <3>1. /\ account' \in Account
          /\ account'.name = account.name /\ account'.generation = account.generation
          /\ account.status # "none" => account'.status # "none"
          /\ devices' \subseteq DOMAIN jobs
          /\ devices' # {} => account'.status # "none"
          /\ account' # account => Matches(jobs[j]) \/ Current(jobs[j])
      BY <1>1, <1>2, <2>1, FinalizeTyped
    <3>2. account' # account => account.name \in Names
      BY <1>1, <1>2, <3>1, JobColumns DEF Matches, Current
    <3> QED BY <1>1, <3>1, <3>2, AccountColumns DEF AccountMoves, DevicesMove, Shape
  <2>3. JobsMove
    BY <1>4, <2>1 DEF JobsMove
  <2>4. AttemptsMove
    <3>1. Idle \in Attempt
      BY Bounds DEF Idle, Attempt, None
    <3> QED BY <1>1, <1>4, <2>1, <3>1 DEF AttemptsMove, TypeOK, Shape, Idle
  <2> QED BY <1>1, <1>3, <2>1, <2>2, <2>3, <2>4, TypedFrom DEF Kept, Moves, TypeOK, Shape
<1> QED BY <1>5, <1>6

LEMMA SupersedeKept ==
  ASSUME Typed, NEW a \in Attempts, Supersede(a)
  PROVE  Kept
<1> DEFINE j == attempts[a].job
           undo == IF jobs[j].op = "provision" THEN "disable-account" ELSE "revoke-device"
           r == [to |-> a, op |-> undo, name |-> jobs[j].name, label |-> None,
                 token |-> IF undo = "revoke-device" THEN j ELSE None]
<1>1. TypeOK /\ Shape /\ attempts[a].step = "answered" /\ attempts \in [Attempts -> Attempt]
  BY DEF Typed, TypeOK, Supersede
<1>2. j \in DOMAIN jobs
  BY <1>1 DEF Shape
<1>3. j \in JobIds /\ jobs[j].name \in Names
  BY <1>1, <1>2, JobColumns
<1>4. r \in Labelled
  BY <1>3, Bounds DEF Labelled, Request, Operations, Credentialed, JobIds, None
<1>5. network' = Append(network, r) /\ network \in Seq(Labelled)
  BY <1>1 DEF Supersede, Shape
<1> HIDE DEF r
<1>6. network' \in Seq(Labelled)
  BY <1>4, <1>5, AppendTyped
<1>7. attempts' = [attempts EXCEPT ![a] = [attempts[a] EXCEPT !.step = "compensating"]]
      /\ UNCHANGED <<database, world>>
  BY DEF Supersede
<1>8. AccountMoves /\ JobsMove /\ DevicesMove
  BY <1>7, SameAccount, SameJobs, SameDevices DEF database
<1>9. AttemptsMove
  <2>1. [attempts[a] EXCEPT !.step = "compensating"] \in Attempt
    BY <1>1 DEF Attempt
  <2> QED BY <1>1, <1>7, <2>1 DEF AttemptsMove, Shape, database, Attempt
<1> QED BY <1>1, <1>6, <1>7, <1>8, <1>9, SameWorld, TypedFrom DEF Kept, Moves, TypeOK, database, world, remote

LEMMA LoseLeaseKept ==
  ASSUME Typed, NEW a \in Attempts, LoseLease(a)
  PROVE  Kept
<1>1. attempts[a].step # "idle" /\ Fail(a, jobs, FALSE) /\ UNCHANGED network
  BY DEF LoseLease
<1>2. jobs \in Seq(Job) /\ Len(jobs) <= MaxJobs /\ Keeps(jobs, jobs)
  BY KeepsSelf DEF Typed, TypeOK
<1>3. /\ Moves /\ AttemptsMove /\ DevicesMove
      /\ enabled' \in BOOLEAN /\ dropped' \subseteq Names /\ UNCHANGED <<users, tokens, overtaken, crashes>>
  BY <1>1, <1>2, FailMoves
<1> QED BY <1>1, <1>3, TypedFrom DEF Kept, Typed, TypeOK, Shape

LEMMA UndoneKept ==
  ASSUME Typed, NEW a \in Attempts, Undone(a)
  PROVE  Kept
<1>1. attempts[a].step # "idle" /\ Fail(a, jobs, TRUE) /\ UNCHANGED network
  BY DEF Undone
<1>2. jobs \in Seq(Job) /\ Len(jobs) <= MaxJobs /\ Keeps(jobs, jobs)
  BY KeepsSelf DEF Typed, TypeOK
<1>3. /\ Moves /\ AttemptsMove /\ DevicesMove
      /\ enabled' \in BOOLEAN /\ dropped' \subseteq Names /\ UNCHANGED <<users, tokens, overtaken, crashes>>
  BY <1>1, <1>2, FailMoves
<1> QED BY <1>1, <1>3, TypedFrom DEF Kept, Typed, TypeOK, Shape

\* Requests that nobody waits for any longer.
LEMMA GivenUpTyped ==
  ASSUME Typed, NEW A, network' = Abandoned(A), Faults, crashes' \in Nat
  PROVE  network' \in Seq(Labelled) /\ crashes' \in 0..MaxFaults
<1>1. network' \in Seq(Labelled)
  BY AbandonedTyped DEF Typed, Shape
<1>2. Late(network') \in Nat
  BY <1>1, LateTyped
<1> QED BY <1>1, <1>2, Bounds DEF Faults

LEMMA GiveUpKept ==
  ASSUME Typed, NEW a \in Attempts, GiveUp(a)
  PROVE  Kept
<1>1. attempts[a].step # "idle" /\ Fail(a, jobs, FALSE) /\ network' = Abandoned({a}) /\ Faults
  BY DEF GiveUp, Abandon
<1>2. jobs \in Seq(Job) /\ Len(jobs) <= MaxJobs /\ Keeps(jobs, jobs)
  BY KeepsSelf DEF Typed, TypeOK
<1>3. /\ Moves /\ AttemptsMove /\ DevicesMove
      /\ enabled' \in BOOLEAN /\ dropped' \subseteq Names /\ UNCHANGED <<users, tokens, overtaken, crashes>>
  BY <1>1, <1>2, FailMoves
<1>4. network' \in Seq(Labelled)
  BY <1>1, AbandonedTyped DEF Typed, Shape
<1> QED BY <1>1, <1>3, <1>4, TypedFrom DEF Kept, Typed, TypeOK, Shape

\* The job that undoes what was done for job j.
LEMMA UndoLaterTyped ==
  ASSUME TypeOK, NEW j \in DOMAIN jobs
  PROVE  LET undo == IF jobs[j].op = "provision" THEN "disable-account" ELSE "revoke-device"
         IN Added(jobs, NewJob(undo, FALSE, jobs[j].name, None,
                               IF undo = "revoke-device" THEN j ELSE None), UndoLater(j))
<1> DEFINE undo == IF jobs[j].op = "provision" THEN "disable-account" ELSE "revoke-device"
           token == IF undo = "revoke-device" THEN j ELSE None
<1>1. jobs \in Seq(Job)
  BY DEF TypeOK
<1>2. undo \in Operations /\ FALSE \in BOOLEAN /\ jobs[j].name \in Names /\ None \in Nat /\ token \in 0..MaxJobs
  BY JobColumns, Bounds DEF Operations, Credentialed, None, JobIds
<1>3. UndoLater(j) = Queued(jobs, undo, FALSE, jobs[j].name, None, token)
  BY DEF UndoLater
<1> HIDE DEF undo, token
<1>4. Added(jobs, NewJob(undo, FALSE, jobs[j].name, None, token),
            Queued(jobs, undo, FALSE, jobs[j].name, None, token))
  BY <1>1, <1>2, QueuedTyped
<1> QED BY <1>3, <1>4 DEF undo, token

LEMMA GiveUpUndoKept ==
  ASSUME Typed, NEW a \in Attempts, GiveUpUndo(a)
  PROVE  Kept
<1> DEFINE rows == UndoLater(attempts[a].job)
<1>1. /\ attempts[a].step # "idle" /\ Len(rows) <= MaxJobs
      /\ Fail(a, rows, TRUE) /\ network' = Abandoned({a}) /\ Faults
  BY DEF GiveUpUndo, Abandon
<1>2. attempts[a].job \in DOMAIN jobs /\ TypeOK
  BY <1>1 DEF Typed, Shape
<1>3. rows \in Seq(Job) /\ Keeps(jobs, rows)
  BY <1>2, UndoLaterTyped DEF Added
<1> HIDE DEF rows
<1>4. /\ Moves /\ AttemptsMove /\ DevicesMove
      /\ enabled' \in BOOLEAN /\ dropped' \subseteq Names /\ UNCHANGED <<users, tokens, overtaken, crashes>>
  BY <1>1, <1>3, FailMoves
<1>5. network' \in Seq(Labelled)
  BY <1>1, AbandonedTyped DEF Typed, Shape
<1> QED BY <1>1, <1>4, <1>5, TypedFrom DEF Kept, Typed, TypeOK, Shape

LEMMA CrashKept ==
  ASSUME Typed, Crash
  PROVE  Kept
<1>1. /\ UNCHANGED <<database, remote, dropped>> /\ crashes' = crashes + 1 /\ network' = Abandoned(Attempts)
      /\ Faults /\ attempts' = [a \in Attempts |-> Idle]
  BY DEF Crash, Die
<1>2. AccountMoves /\ JobsMove /\ DevicesMove
  BY <1>1, SameAccount, SameJobs, SameDevices DEF database
<1>3. Idle \in Attempt /\ Idle.step = "idle"
  BY Bounds DEF Idle, Attempt, None
<1>4. AttemptsMove
  BY <1>1, <1>3 DEF AttemptsMove
<1>5. network' \in Seq(Labelled) /\ crashes' \in 0..MaxFaults
  BY <1>1, Bounds, GivenUpTyped DEF Typed, TypeOK
<1> QED BY <1>1, <1>2, <1>4, <1>5, TypedFrom DEF Kept, Moves, Typed, TypeOK, database, remote

LEMMA EnableDiesKept ==
  ASSUME Typed, EnableDies
  PROVE  Kept
<1>1. /\ account.name < MaxNames /\ account' = Upsert(account) /\ crashes' = crashes + 1
      /\ network' = Abandoned(Attempts) /\ Faults /\ attempts' = [a \in Attempts |-> Idle]
      /\ UNCHANGED <<enabled, devices, jobs, remote, dropped>> /\ TypeOK
  BY DEF EnableDies, CanEnable, Die, Typed
<1>2. AccountMoves
  <2>1. /\ account' \in Account /\ account'.status = "pending"
        /\ account'.name = account.name + 1 /\ account'.name \in Names
    BY <1>1, UpsertTyped
  <2> HIDE <1>1
  <2> QED BY <2>1 DEF AccountMoves
<1>3. JobsMove /\ DevicesMove
  BY <1>1, <1>2, SameJobs, SameDevices
<1>4. Idle \in Attempt /\ Idle.step = "idle"
  BY Bounds DEF Idle, Attempt, None
<1>5. AttemptsMove
  BY <1>1, <1>4 DEF AttemptsMove
<1>6. network' \in Seq(Labelled) /\ crashes' \in 0..MaxFaults
  BY <1>1, Bounds, GivenUpTyped DEF TypeOK
<1> QED BY <1>1, <1>2, <1>3, <1>5, <1>6, TypedFrom DEF Kept, Moves, TypeOK, remote

\* The account is disabled and a job removes it.
LEMMA RemovalTyped ==
  ASSUME Typed, NEW rows \in Seq(Job), InUse
  PROVE  Added(rows, NewJob("disable-account", TRUE, account.name, account.generation + 1, None),
               WithRemoval(rows))
<1>1. /\ account.name \in Names /\ account.generation + 1 \in Nat /\ None \in 0..MaxJobs
      /\ "disable-account" \in Operations /\ TRUE \in BOOLEAN
  BY AccountColumns, Bounds DEF Typed, Shape, InUse, Operations, None
<1> QED BY <1>1, QueuedTyped DEF WithRemoval

LEMMA DisabledMoves ==
  ASSUME Typed, InUse, account' = DisabledAccount, devices' = {}
  PROVE  AccountMoves /\ DevicesMove
<1>1. /\ account' \in Account /\ account'.status = "disabled" /\ account'.name = account.name
      /\ account'.generation = account.generation + 1
  BY DisabledTyped DEF Typed
<1>2. account.name \in Names /\ account.generation \in Nat
  BY AccountColumns DEF Typed, Shape, InUse
<1> QED BY <1>1, <1>2 DEF AccountMoves, DevicesMove

\* The rows of jobs of credentials when the account is disabled.
SupersededRows ==
  [j \in DOMAIN jobs |->
     IF jobs[j].op \in Credentialed /\ Unfinished(j) THEN Closed(jobs[j], "failed") ELSE jobs[j]]

LEMMA SupersededTyped ==
  ASSUME TypeOK
  PROVE  /\ SupersededRows \in Seq(Job) /\ Len(SupersededRows) = Len(jobs)
         /\ DOMAIN SupersededRows = DOMAIN jobs
         /\ \A j \in DOMAIN jobs :
              SupersededRows[j].status = IF jobs[j].op \in Credentialed /\ Unfinished(j) THEN "failed"
                                         ELSE jobs[j].status
         /\ Keeps(jobs, SupersededRows)
<1> DEFINE f(j) == IF jobs[j].op \in Credentialed /\ Unfinished(j) THEN Closed(jobs[j], "failed")
                   ELSE jobs[j]
<1>1. jobs \in Seq(Job)
  BY DEF TypeOK
<1>2. ASSUME NEW j \in DOMAIN jobs
      PROVE  /\ f(j) \in Job /\ Fixed(jobs[j], f(j))
             /\ f(j).status = IF jobs[j].op \in Credentialed /\ Unfinished(j) THEN "failed"
                              ELSE jobs[j].status
  <2>1. jobs[j] \in Job
    BY <1>1
  <2>2. CASE jobs[j].op \in Credentialed /\ Unfinished(j)
    BY <2>1, <2>2, ClosedTyped
  <2>3. CASE ~(jobs[j].op \in Credentialed /\ Unfinished(j))
    BY <2>1, <2>3 DEF Fixed
  <2> QED BY <2>2, <2>3
<1>3. SupersededRows = [j \in 1..Len(jobs) |-> f(j)]
  BY <1>1 DEF SupersededRows
<1> HIDE DEF f
<1>4. /\ SupersededRows \in Seq(Job) /\ Len(SupersededRows) = Len(jobs)
      /\ DOMAIN SupersededRows = DOMAIN jobs
      /\ \A j \in DOMAIN jobs : SupersededRows[j] = f(j)
  BY <1>1, <1>2, <1>3
<1> QED BY <1>1, <1>2, <1>4 DEF Keeps

LEMMA DeleteNtfyKept ==
  ASSUME Typed, DeleteNtfy
  PROVE  Kept
<1>1. /\ InUse /\ Len(jobs) < MaxJobs /\ account' = DisabledAccount /\ devices' = {}
      /\ jobs' = WithRemoval(SupersededRows)
      /\ UNCHANGED <<enabled, attempts, network, remote, crashes>>
  BY DEF DeleteNtfy, SupersededRows
<1>2. TypeOK /\ jobs \in Seq(Job) /\ Len(jobs) \in Nat /\ MaxJobs \in Nat
  BY Bounds DEF Typed, TypeOK
<1>3. Added(SupersededRows, NewJob("disable-account", TRUE, account.name, account.generation + 1, None),
            jobs')
  BY <1>1, <1>2, SupersededTyped, RemovalTyped
<1>4. JobsMove
  <2>1. /\ SupersededRows \in Seq(Job) /\ Len(SupersededRows) = Len(jobs) /\ Keeps(jobs, SupersededRows)
    BY <1>2, SupersededTyped
  <2>2. jobs' \in Seq(Job) /\ Len(jobs') = Len(jobs) + 1 /\ Keeps(SupersededRows, jobs')
    BY <1>3, <2>1 DEF Added
  <2>3. Keeps(jobs, jobs')
    BY <1>2, <2>1, <2>2, KeepsTransitive
  <2> QED BY <1>1, <1>2, <2>2, <2>3 DEF JobsMove
<1>5. AccountMoves /\ DevicesMove
  BY <1>1, DisabledMoves
<1>6. AttemptsMove
  BY <1>1, <1>4, SameAttempts
<1>7. dropped' \subseteq Names
  <2>1. dropped \subseteq Names /\ \A j \in DOMAIN jobs : jobs[j].name \in Names
    BY <1>2, JobColumns DEF TypeOK
  <2> QED BY <2>1 DEF DeleteNtfy
<1> QED BY <1>1, <1>4, <1>5, <1>6, <1>7, TypedFrom DEF Kept, Moves, Typed, TypeOK, Shape, remote

LEMMA PatchUserKept ==
  ASSUME Typed, NEW disabled \in BOOLEAN, PatchUser(disabled)
  PROVE  Kept
<1>1. enabled' \in BOOLEAN /\ UNCHANGED <<attempts, network, world>>
  BY DEF PatchUser
<1>2. CASE disabled /\ enabled /\ InUse
  <2>1. Len(jobs) < MaxJobs /\ account' = DisabledAccount /\ devices' = {} /\ jobs' = WithRemoval(jobs)
    BY <1>2 DEF PatchUser
  <2>2. AccountMoves /\ DevicesMove
    BY <1>2, <2>1, DisabledMoves
  <2>3. jobs \in Seq(Job) /\ Len(jobs) \in Nat /\ MaxJobs \in Nat
    BY Bounds DEF Typed, TypeOK
  <2>4. Added(jobs, NewJob("disable-account", TRUE, account.name, account.generation + 1, None), jobs')
    BY <1>2, <2>1, <2>3, RemovalTyped
  <2>5. JobsMove
    BY <2>1, <2>3, <2>4 DEF Added, JobsMove
  <2> QED
    BY <1>1, <2>2, <2>5, SameAttempts, SameWorld, TypedFrom
       DEF Kept, Moves, world, remote, Typed, TypeOK, Shape
<1>3. CASE ~(disabled /\ enabled /\ InUse)
  <2>1. UNCHANGED <<account, devices, jobs>>
    BY <1>3 DEF PatchUser
  <2> QED
    BY <1>1, <2>1, SameAccount, SameJobs, SameDevices, SameAttempts, SameWorld, TypedFrom
       DEF Kept, Moves, world, remote, Typed, TypeOK, Shape
<1> QED BY <1>2, <1>3

\* The rows with job j as resumeProvisionJob resets it.
Resumed(j) == [jobs EXCEPT ![j].status = "pending", ![j].attempt_count = 0]

LEMMA ResumedTyped ==
  ASSUME TypeOK, NEW j \in DOMAIN jobs
  PROVE  /\ Resumed(j) \in Seq(Job) /\ Len(Resumed(j)) = Len(jobs)
         /\ DOMAIN Resumed(j) = DOMAIN jobs
         /\ \A i \in DOMAIN jobs : i # j => Resumed(j)[i] = jobs[i]
         /\ Resumed(j)[j].status = "pending" /\ Fixed(jobs[j], Resumed(j)[j])
         /\ Keeps(jobs, Resumed(j))
<1> DEFINE new == [jobs[j] EXCEPT !.status = "pending", !.attempt_count = 0]
<1>1. jobs \in Seq(Job) /\ jobs[j] \in Job
  BY DEF TypeOK
<1>2. 0 \in 0..Retries + 1
  BY Bounds
<1>3. new \in Job /\ Fixed(jobs[j], new) /\ new.status = "pending"
  BY <1>1, <1>2 DEF Job, Fixed
<1>4. Resumed(j) = [jobs EXCEPT ![j] = new]
  BY <1>1 DEF Resumed
<1> HIDE DEF new
<1>5. /\ Resumed(j) \in Seq(Job) /\ Len(Resumed(j)) = Len(jobs)
      /\ DOMAIN Resumed(j) = DOMAIN jobs
      /\ \A i \in DOMAIN jobs : i # j => Resumed(j)[i] = jobs[i]
      /\ Resumed(j)[j] = new
  BY <1>1, <1>3, <1>4
<1>6. Keeps(jobs, Resumed(j))
  BY <1>1, <1>3, <1>5 DEF Keeps, Fixed
<1> QED BY <1>3, <1>5, <1>6

LEMMA ResumeMoves ==
  ASSUME Typed, NEW a \in Attempts, NEW j \in DOMAIN jobs, ResumeProvisionJob(a, j)
  PROVE  Moves /\ AttemptsMove /\ DevicesMove /\ network' \in Seq(Labelled)
<1>1. /\ Process(a, Resumed(j), j, "nothing") /\ UNCHANGED devices
      /\ account' = IF jobs[j].op = "provision" THEN [account EXCEPT !.status = "pending"] ELSE account
      /\ jobs[j].op = "provision" => account.status \in {"pending", "error"}
  BY DEF ResumeProvisionJob, Resumed
<1>2. TypeOK /\ Shape /\ account \in Account /\ Len(jobs) <= MaxJobs
  BY DEF Typed, TypeOK
<1>3. /\ Resumed(j) \in Seq(Job) /\ Len(Resumed(j)) <= MaxJobs /\ Keeps(jobs, Resumed(j))
      /\ j \in DOMAIN Resumed(j) /\ "nothing" \in Thens
  BY <1>2, ResumedTyped DEF Thens
<1>4. JobsMove /\ AttemptsMove /\ network' \in Seq(Labelled)
  BY <1>1, <1>3, SendMoves
<1>5. AccountMoves
  <2>1. CASE jobs[j].op = "provision"
    <3>1. /\ account' \in Account /\ account'.status = "pending" /\ account'.name = account.name
          /\ account'.generation = account.generation
      BY <1>1, <1>2, <2>1 DEF Account
    <3> QED BY <1>1, <1>2, <2>1, <3>1, AccountColumns DEF AccountMoves, Shape
  <2>2. CASE jobs[j].op # "provision"
    BY <1>1, <2>2, SameAccount
  <2> QED BY <2>1, <2>2
<1> QED BY <1>1, <1>4, <1>5, SameDevices DEF Moves

LEMMA CreateMoves ==
  ASSUME Typed, NEW a \in Attempts, NEW op \in Operations, NEW name \in Names,
         NEW generation \in Nat, NEW token \in 0..MaxJobs, NEW then \in Thens,
         CreateProvisionJob(a, op, name, generation, token, then)
  PROVE  JobsMove /\ AttemptsMove /\ network' \in Seq(Labelled)
<1> DEFINE rows == Queued(jobs, op, TRUE, name, generation, token)
<1>1. Len(rows) <= MaxJobs /\ Process(a, rows, Len(rows), then)
  BY DEF CreateProvisionJob
<1>2. jobs \in Seq(Job) /\ TRUE \in BOOLEAN
  BY DEF Typed, TypeOK
<1>3. Added(jobs, NewJob(op, TRUE, name, generation, token), rows)
  BY <1>2, QueuedTyped
<1> HIDE DEF rows
<1>4. rows \in Seq(Job) /\ Keeps(jobs, rows) /\ Len(rows) \in DOMAIN rows
  BY <1>2, <1>3 DEF Added
<1> QED BY <1>1, <1>4, SendMoves

LEMMA PostEnableKept ==
  ASSUME Typed, NEW a \in Attempts, PostEnable(a)
  PROVE  Kept
<1> DEFINE latest == LatestJob("provision")
<1>1. UNCHANGED <<enabled, world>> /\ TypeOK /\ latest \subseteq DOMAIN jobs
  BY DEF PostEnable, Typed, LatestJob
<1>2. ASSUME NEW j \in latest, ResumeProvisionJob(a, j)
      PROVE  Moves /\ AttemptsMove /\ DevicesMove /\ network' \in Seq(Labelled)
  BY <1>1, <1>2, ResumeMoves
<1>3. ASSUME account.status \in {"pending", "error"},
             CreateProvisionJob(a, "disable-account", account.name, account.generation, None, "enable"),
             UNCHANGED <<account, devices>>
      PROVE  Moves /\ AttemptsMove /\ DevicesMove /\ network' \in Seq(Labelled)
  <2>1. /\ "disable-account" \in Operations /\ account.name \in Names /\ account.generation \in Nat
        /\ None \in 0..MaxJobs /\ "enable" \in Thens
    BY <1>3, Bounds, AccountColumns DEF Typed, Shape, Operations, None, Thens
  <2> QED BY <1>3, <2>1, CreateMoves, SameAccount, SameDevices DEF Moves
<1>4. ASSUME CanEnable(jobs), ThenEnable(a, account, jobs), UNCHANGED devices
      PROVE  Moves /\ AttemptsMove /\ DevicesMove /\ network' \in Seq(Labelled)
  <2>1. jobs \in Seq(Job) /\ Keeps(jobs, jobs)
    BY KeepsSelf DEF Typed, TypeOK
  <2> QED BY <1>4, <2>1, EnableMoves
<1>5. Moves /\ AttemptsMove /\ DevicesMove /\ network' \in Seq(Labelled)
  BY <1>2, <1>3, <1>4 DEF PostEnable
<1> QED BY <1>1, <1>5, SameWorld, TypedFrom DEF Kept, world, remote, TypeOK

LEMMA PostDeviceKept ==
  ASSUME Typed, NEW a \in Attempts, PostDevice(a)
  PROVE  Kept
<1> DEFINE latest == LatestJob("add-device")
<1>1. /\ UNCHANGED <<enabled, world>> /\ TypeOK /\ latest \subseteq DOMAIN jobs
      /\ account.status = "active"
  BY DEF PostDevice, Typed, LatestJob
<1>2. ASSUME NEW j \in latest, ResumeProvisionJob(a, j)
      PROVE  Moves /\ AttemptsMove /\ DevicesMove /\ network' \in Seq(Labelled)
  BY <1>1, <1>2, ResumeMoves
<1>3. ASSUME CreateProvisionJob(a, "add-device", account.name, account.generation, None, "nothing"),
             UNCHANGED <<account, devices>>
      PROVE  Moves /\ AttemptsMove /\ DevicesMove /\ network' \in Seq(Labelled)
  <2>1. /\ "add-device" \in Operations /\ account.name \in Names /\ account.generation \in Nat
        /\ None \in 0..MaxJobs /\ "nothing" \in Thens
    BY <1>1, Bounds, AccountColumns DEF Typed, Shape, Operations, Credentialed, None, Thens
  <2> QED BY <1>3, <2>1, CreateMoves, SameAccount, SameDevices DEF Moves
<1>4. Moves /\ AttemptsMove /\ DevicesMove /\ network' \in Seq(Labelled)
  BY <1>2, <1>3 DEF PostDevice
<1> QED BY <1>1, <1>4, SameWorld, TypedFrom DEF Kept, world, remote, TypeOK

LEMMA DeleteDeviceKept ==
  ASSUME Typed, NEW a \in Attempts, DeleteDevice(a)
  PROVE  Kept
<1>1. UNCHANGED <<enabled, account, devices, world>> /\ TypeOK
  BY DEF DeleteDevice, Typed
<1>2. PICK device \in devices :
        CreateProvisionJob(a, "revoke-device", account.name, None, device, "nothing")
  BY DEF DeleteDevice
<1>3. /\ "revoke-device" \in Operations /\ account.name \in Names /\ None \in Nat
      /\ device \in 0..MaxJobs /\ "nothing" \in Thens
  BY <1>1, Bounds DEF Typed, Shape, TypeOK, Operations, None, Thens, JobIds
<1>4. JobsMove /\ AttemptsMove /\ network' \in Seq(Labelled)
  BY <1>2, <1>3, CreateMoves
<1> QED
  BY <1>1, <1>4, SameAccount, SameDevices, SameWorld, TypedFrom DEF Kept, Moves, world, remote, TypeOK


\* ntfy's users and their tokens keep their types.
UsersTyped == users' \subseteq Names /\ tokens' \subseteq users' \X JobIds

LEMMA ForgetTyped ==
  ASSUME TypeOK, NEW n \in Names
  PROVE  tokens \ TokensOf(n) \subseteq (users \ {n}) \X JobIds
BY DEF TypeOK, TokensOf

LEMMA ExecutedTyped ==
  ASSUME TypeOK, NEW r \in Labelled, Executable(r), Executed(r)
  PROVE  UsersTyped
<1>1. /\ r.name \in Names /\ r.op \in Operations
      /\ users \subseteq Names /\ tokens \subseteq users \X JobIds
  BY DEF Labelled, Request, TypeOK
<1>2. tokens \ TokensOf(r.name) \subseteq (users \ {r.name}) \X JobIds
  BY <1>1, ForgetTyped
<1>3. CASE r.op = "provision"
  <2>1. r.label \in JobIds
    BY <1>3 DEF Labelled, Credentialed
  <2>2. /\ users' = users \cup {r.name}
        /\ tokens' = IF Found(r) THEN tokens
                     ELSE (tokens \ TokensOf(r.name)) \cup {<<r.name, r.label>>}
    BY <1>3 DEF Executed
  <2> QED BY <1>1, <1>2, <2>1, <2>2 DEF UsersTyped
<1>4. CASE r.op = "add-device"
  <2>1. r.label \in JobIds /\ r.name \in users
    BY <1>4 DEF Labelled, Credentialed, Executable
  <2>2. tokens' = tokens \cup {<<r.name, r.label>>} /\ UNCHANGED users
    BY <1>4 DEF Executed
  <2> QED BY <1>1, <2>1, <2>2 DEF UsersTyped
<1>5. CASE r.op = "revoke-device"
  <2>1. tokens' = tokens \ {<<r.name, r.token>>} /\ UNCHANGED users
    BY <1>5 DEF Executed
  <2> QED BY <1>1, <2>1 DEF UsersTyped
<1>6. CASE r.op = "disable-account"
  <2>1. users' = users \ {r.name} /\ tokens' = tokens \ TokensOf(r.name)
    BY <1>6 DEF Executed
  <2> QED BY <1>1, <1>2, <2>1 DEF UsersTyped
<1> QED BY <1>1, <1>3, <1>4, <1>5, <1>6 DEF Operations, Credentialed

LEMMA PartlyTyped ==
  ASSUME TypeOK, NEW r \in Labelled, PartlyExecuted(r)
  PROVE  UsersTyped
<1>1. r.name \in Names /\ users \subseteq Names /\ tokens \subseteq users \X JobIds
  BY DEF Labelled, Request, TypeOK
<1>2. tokens \ TokensOf(r.name) \subseteq (users \ {r.name}) \X JobIds
  BY <1>1, ForgetTyped
<1>3. CASE UNCHANGED <<users, tokens>>
  BY <1>1, <1>3 DEF UsersTyped
<1>4. CASE /\ users' \in {users \ {r.name}, users \cup {r.name}}
           /\ tokens' = tokens \ TokensOf(r.name)
  BY <1>1, <1>2, <1>4 DEF UsersTyped
<1> QED BY <1>3, <1>4 DEF PartlyExecuted

\* The attempts after a request of `to` was executed.
LEMMA AnsweredTyped ==
  ASSUME Typed, NEW to \in Attempts \cup {Nobody}, attempts' = Answered(to), UNCHANGED jobs,
         to # Nobody => attempts[to].step # "idle"
  PROVE  AttemptsMove
<1>1. attempts \in [Attempts -> Attempt]
  BY DEF Typed, TypeOK
<1>2. CASE to = Nobody
  <2>1. UNCHANGED attempts
    BY <1>2 DEF Answered
  <2> QED BY <2>1, SameJobs, SameAttempts
<1>3. CASE to # Nobody
  <2> DEFINE new == [attempts[to] EXCEPT
                !.step = IF attempts[to].step = "waiting" THEN "answered" ELSE "compensated"]
  <2>1. attempts' = [attempts EXCEPT ![to] = new] /\ to \in Attempts
    BY <1>3 DEF Answered
  <2>2. new \in Attempt /\ new.job = attempts[to].job
    BY <1>1, <2>1 DEF Attempt
  <2> HIDE DEF new
  <2>3. attempts' \in [Attempts -> Attempt] /\ attempts'[to] = new
        /\ \A b \in Attempts : b # to => attempts'[b] = attempts[b]
    BY <1>1, <2>1, <2>2
  <2>4. attempts[to].job \in DOMAIN jobs
    BY <1>3, <2>1 DEF Typed, Shape
  <2>5. \A b \in Attempts : attempts'[b].step # "idle" => attempts'[b].job \in DOMAIN jobs
    BY <2>2, <2>3, <2>4 DEF Typed, Shape
  <2> QED BY <2>3, <2>5 DEF AttemptsMove
<1> QED BY <1>2, <1>3

-----------------------------------------------------------------------------
(* Requests and the attempts that wait for them.                           *)

\* An attempt waits for one request at most, which carries its job or undoes it.
Waits(a) == attempts[a].step \in {"waiting", "compensating"}

Awaited ==
  /\ \A i, k \in DOMAIN network : network[i].to = network[k].to /\ network[i].to # Nobody => i = k
  /\ \A i \in DOMAIN network :
       network[i].to # Nobody =>
         \/ attempts[network[i].to].step = "waiting" /\ network[i].label = attempts[network[i].to].job
         \/ attempts[network[i].to].step = "compensating" /\ network[i].label = None

\* The columns of a request in their types.
LEMMA RequestColumns ==
  ASSUME Typed, NEW i \in DOMAIN network
  PROVE  /\ network[i] \in Labelled /\ network[i] \in Request /\ i \in Nat
         /\ network[i].to \in Attempts \cup {Nobody}
         /\ network[i].op \in Operations /\ network[i].name \in Names
         /\ network[i].label \in 0..MaxJobs /\ network[i].token \in 0..MaxJobs
<1>1. network[i] \in Labelled /\ i \in Nat
  BY DEF Typed, Shape
<1> QED BY <1>1 DEF Labelled, Request

\* Who waits for nothing is sent nothing.
LEMMA Unaddressed ==
  ASSUME Typed, Awaited, NEW a \in Attempts, ~Waits(a)
  PROVE  \A i \in DOMAIN network : network[i].to # Nobody => network[i].to \in Attempts \ {a}
<1> SUFFICES ASSUME NEW i \in DOMAIN network, network[i].to # Nobody
             PROVE  network[i].to \in Attempts \ {a}
  OBVIOUS
<1>1. network[i].to \in Attempts
  BY RequestColumns
<1>2. Waits(network[i].to)
  BY DEF Awaited, Waits
<1> QED BY <1>1, <1>2

\* An attempt moves while it waits for nothing.
LEMMA AwaitedAside ==
  ASSUME Typed, Awaited, NEW a \in Attempts, ~Waits(a), UNCHANGED network,
         \A b \in Attempts : b # a => attempts'[b] = attempts[b]
  PROVE  Awaited'
<1>1. \A i \in DOMAIN network : network[i].to # Nobody => network[i].to \in Attempts \ {a}
  BY Unaddressed
<1> QED BY <1>1 DEF Awaited

LEMMA AwaitedSent ==
  ASSUME Typed, Awaited, NEW a \in Attempts, ~Waits(a), NEW r, r.to = a,
         network' = Append(network, r),
         \A b \in Attempts : b # a => attempts'[b] = attempts[b],
         \/ attempts'[a].step = "waiting" /\ r.label = attempts'[a].job
         \/ attempts'[a].step = "compensating" /\ r.label = None
  PROVE  Awaited'
<1>1. \A i \in DOMAIN network : network[i].to # Nobody => network[i].to \in Attempts \ {a}
  BY Unaddressed
<1>2. network \in Seq(Labelled)
  BY DEF Typed, Shape
<1>3. /\ DOMAIN network' = 1..(Len(network) + 1) /\ network'[Len(network) + 1] = r
      /\ DOMAIN network = 1..Len(network) /\ Len(network) \in Nat
      /\ \A i \in DOMAIN network : network'[i] = network[i]
  <2> DEFINE S == Labelled \cup {r}
  <2>1. network \in Seq(S) /\ r \in S
    BY <1>2
  <2> HIDE DEF S
  <2> QED BY <2>1, AppendTyped
<1>4. \A i \in DOMAIN network' : i \in DOMAIN network \/ i = Len(network) + 1
  BY <1>3
<1> QED BY <1>1, <1>3, <1>4 DEF Awaited

LEMMA ProcessAwaited ==
  ASSUME Typed, Awaited, NEW a \in Attempts, ~Waits(a), NEW rows, NEW j, NEW then,
         Process(a, rows, j, then)
  PROVE  Awaited'
<1> DEFINE r == RequestOf(a, j, rows[j])
<1>1. r.to = a /\ r.label = j
  BY DEF RequestOf
<1>2. network' = Append(network, r)
  BY DEF Process
<1> HIDE DEF r
<1>3. /\ attempts'[a].step = "waiting" /\ attempts'[a].job = j
      /\ \A b \in Attempts : b # a => attempts'[b] = attempts[b]
  BY DEF Process, Typed, TypeOK
<1> QED BY <1>1, <1>2, <1>3, AwaitedSent

LEMMA AwaitedAbandoned ==
  ASSUME Typed, Awaited, NEW A \in SUBSET Attempts, network' = Abandoned(A),
         \A b \in Attempts \ A : attempts'[b] = attempts[b]
  PROVE  Awaited'
<1>1. network \in Seq(Labelled) /\ \A i \in DOMAIN network : network[i] \in Labelled
  BY DEF Typed, Shape
<1>2. DOMAIN network' = DOMAIN network
      /\ \A i \in DOMAIN network :
           network'[i] = IF network[i].to \in A THEN [network[i] EXCEPT !.to = Nobody] ELSE network[i]
  BY DEF Abandoned
<1>3. \A i \in DOMAIN network :
        /\ network'[i].label = network[i].label
        /\ network'[i].to # Nobody => network'[i].to = network[i].to /\ network[i].to \in Attempts \ A
  <2> TAKE i \in DOMAIN network
  <2>1. network[i] \in Request /\ network[i].to \in Attempts \cup {Nobody}
    BY <1>1 DEF Labelled, Request
  <2> QED BY <1>2, <2>1 DEF Request
<1> QED BY <1>2, <1>3 DEF Awaited

\* What is left of a sequence is in the old order.
Before(i, k) == IF k < i THEN k ELSE k + 1

LEMMA SecondPart ==
  ASSUME NEW S, NEW s \in Seq(S), NEW t \in Seq(S), NEW k \in 1..(Len(s) + Len(t)), k > Len(s)
  PROVE  (s \o t)[k] = t[k - Len(s)]
<1>1. (s \o t)[k] = IF k <= Len(s) THEN s[k] ELSE t[k - Len(s)]
  BY ConcatProperties, Zenon
<1>2. ~(k <= Len(s))
  OBVIOUS
<1> QED BY <1>1, <1>2

LEMMA RemovedElements ==
  ASSUME NEW S, NEW s \in Seq(S), NEW i \in DOMAIN s
  PROVE  /\ RemoveAt(s, i) \in Seq(S) /\ Len(RemoveAt(s, i)) = Len(s) - 1
         /\ \A k \in DOMAIN RemoveAt(s, i) :
              Before(i, k) \in DOMAIN s \ {i} /\ RemoveAt(s, i)[k] = s[Before(i, k)]
         /\ \A k, m \in DOMAIN RemoveAt(s, i) : k < m <=> Before(i, k) < Before(i, m)
<1> DEFINE left == SubSeq(s, 1, i - 1)
           right == SubSeq(s, i + 1, Len(s))
<1>1. i \in 1..Len(s) /\ Len(s) \in Nat
  OBVIOUS
<1>2. left \in Seq(S) /\ Len(left) = i - 1 /\ \A k \in 1..(i - 1) : left[k] = s[k]
  BY <1>1
<1>3. right \in Seq(S) /\ Len(right) = Len(s) - i /\ \A k \in 1..(Len(s) - i) : right[k] = s[i + k]
  BY <1>1
<1>4. RemoveAt(s, i) = left \o right
  BY DEF RemoveAt
<1> HIDE DEF left, right
<1>5. /\ left \o right \in Seq(S) /\ Len(left \o right) = Len(s) - 1
      /\ DOMAIN (left \o right) = 1..(Len(s) - 1)
  BY <1>1, <1>2, <1>3
<1>6. ASSUME NEW k \in 1..(Len(s) - 1)
      PROVE  Before(i, k) \in DOMAIN s \ {i} /\ (left \o right)[k] = s[Before(i, k)]
  <2>1. CASE k < i
    <3>1. k \in 1..Len(left) /\ k \in 1..(Len(left) + Len(right))
      BY <1>1, <1>2, <1>3, <2>1
    <3>2. (left \o right)[k] = left[k]
      BY <1>2, <1>3, <3>1
    <3> QED BY <1>1, <1>2, <2>1, <3>2 DEF Before
  <2>2. CASE ~(k < i)
    <3>1. (left \o right)[k] = right[k - (i - 1)]
      <4>1. k \in 1..(Len(left) + Len(right)) /\ ~(k \in 1..Len(left)) /\ k > Len(left)
        BY <1>1, <1>2, <1>3, <2>2
      <4>2. (left \o right)[k] = right[k - Len(left)]
        BY <1>2, <1>3, <4>1, SecondPart
      <4> QED BY <1>2, <4>2
    <3>2. k - (i - 1) \in 1..(Len(s) - i) /\ i + (k - (i - 1)) = k + 1
      BY <1>1, <2>2
    <3>3. right[k - (i - 1)] = s[k + 1]
      BY <1>3, <3>2
    <3> QED BY <1>1, <2>2, <3>1, <3>3 DEF Before
  <2> QED BY <2>1, <2>2
<1>7. \A k, m \in 1..(Len(s) - 1) : k < m <=> Before(i, k) < Before(i, m)
  BY <1>1 DEF Before
<1> QED BY <1>4, <1>5, <1>6, <1>7

LEMMA AwaitedRemoved ==
  ASSUME Typed, Awaited, NEW i \in DOMAIN network, network' = RemoveAt(network, i),
         \A b \in Attempts : b # network[i].to => attempts'[b] = attempts[b]
  PROVE  Awaited'
<1>1. network \in Seq(Labelled) /\ DOMAIN network \subseteq Int
  BY DEF Typed, Shape
<1>2. /\ network' \in Seq(Labelled)
      /\ \A k \in DOMAIN network' :
           Before(i, k) \in DOMAIN network \ {i} /\ network'[k] = network[Before(i, k)]
  BY <1>1, RemovedElements
<1>3. \A k, m \in DOMAIN network' : Before(i, k) = Before(i, m) => k = m
  BY <1>1, <1>2 DEF Before
<1>4. \A k \in DOMAIN network : network[k].to \in Attempts \cup {Nobody}
  BY <1>1 DEF Labelled, Request
<1>5. \A k \in DOMAIN network : k # i /\ network[k].to # Nobody => network[k].to # network[i].to
  BY DEF Awaited
<1>6. \A k \in DOMAIN network : k # i /\ network[k].to # Nobody =>
        attempts'[network[k].to] = attempts[network[k].to]
  BY <1>4, <1>5
<1> QED BY <1>2, <1>3, <1>6 DEF Awaited

\* The attempt that a request is sent to, waits.
LEMMA AwaitedBy ==
  ASSUME Awaited, NEW i \in DOMAIN network, network[i].to # Nobody
  PROVE  Waits(network[i].to)
BY DEF Awaited, Waits

LEMMA ExecuteKept ==
  ASSUME Typed, Awaited, NEW i \in DOMAIN network, Execute(i)
  PROVE  Kept /\ Awaited'
<1>1. /\ TypeOK /\ network \in Seq(Labelled) /\ network[i] \in Labelled
      /\ network[i].to \in Attempts \cup {Nobody}
  BY DEF Typed, Shape, Labelled, Request
<1>2. /\ attempts' = Answered(network[i].to) /\ network' = RemoveAt(network, i)
      /\ Executed(network[i]) /\ Executable(network[i])
      /\ UNCHANGED <<enabled, account, devices, jobs, dropped, crashes>>
  BY DEF Execute, database
<1>3. network' \in Seq(Labelled)
  BY <1>1, <1>2, RemoveAtTyped
<1>4. UsersTyped
  BY <1>1, <1>2, ExecutedTyped
<1>5. network[i].to # Nobody => attempts[network[i].to].step # "idle"
  BY AwaitedBy DEF Waits
<1>6. AccountMoves /\ JobsMove /\ DevicesMove
  BY <1>2, SameAccount, SameJobs, SameDevices
<1>7. AttemptsMove
  <2>1. CASE network[i].to = Nobody
    <3>1. UNCHANGED attempts
      BY <1>2, <2>1 DEF Answered
    <3> QED BY <1>6, <3>1, SameAttempts
  <2>2. CASE network[i].to # Nobody
    BY <1>1, <1>2, <1>5, <2>2, AnsweredTyped
  <2> QED BY <2>1, <2>2
<1>8. overtaken' \in BOOLEAN
  BY DEF Execute
<1>9. \A b \in Attempts : b # network[i].to => attempts'[b] = attempts[b]
  BY <1>1, <1>2 DEF Answered, TypeOK
<1>10. Awaited'
  BY <1>2, <1>9, AwaitedRemoved
<1> QED BY <1>1, <1>2, <1>3, <1>4, <1>6, <1>7, <1>8, <1>10, TypedFrom DEF Kept, Moves, UsersTyped, TypeOK

LEMMA ExecutionFailsKept ==
  ASSUME Typed, Awaited, NEW i \in DOMAIN network, ExecutionFails(i)
  PROVE  Kept /\ Awaited'
<1>1. TypeOK /\ network \in Seq(Labelled) /\ network[i] \in Labelled
  BY DEF Typed, Shape
<1>2. /\ network' = RemoveAt(network, i) /\ PartlyExecuted(network[i])
      /\ UNCHANGED <<enabled, account, devices, jobs, attempts, dropped, crashes>>
  BY DEF ExecutionFails, database
<1>3. network' \in Seq(Labelled)
  BY <1>1, <1>2, RemoveAtTyped
<1>4. UsersTyped
  BY <1>1, <1>2, PartlyTyped
<1>5. AccountMoves /\ JobsMove /\ DevicesMove /\ AttemptsMove
  BY <1>2, SameAccount, SameJobs, SameDevices, SameAttempts
<1>6. overtaken' \in BOOLEAN
  BY DEF ExecutionFails
<1>7. Awaited'
  BY <1>2, AwaitedRemoved
<1> QED BY <1>1, <1>2, <1>3, <1>4, <1>5, <1>6, <1>7, TypedFrom DEF Kept, Moves, UsersTyped, TypeOK

LEMMA FailAwaited ==
  ASSUME Typed, Awaited, NEW a \in Attempts, ~Waits(a), NEW rows, NEW stale,
         Fail(a, rows, stale), UNCHANGED network
  PROVE  Awaited'
<1>1. \A b \in Attempts : b # a => attempts'[b] = attempts[b]
  BY DEF Fail, Typed, TypeOK
<1> QED BY <1>1, AwaitedAside

LEMMA FailAbandoned ==
  ASSUME Typed, Awaited, NEW a \in Attempts, NEW rows, NEW stale, Fail(a, rows, stale), Abandon(a)
  PROVE  Awaited'
<1>1. \A b \in Attempts \ {a} : attempts'[b] = attempts[b]
  BY DEF Fail, Typed, TypeOK
<1> QED BY <1>1, AwaitedAbandoned DEF Abandon

LEMMA CompleteAwaited ==
  ASSUME Typed, Awaited, NEW a \in Attempts, Complete(a)
  PROVE  Awaited'
<1>1. ~Waits(a)
  BY DEF Complete, Waits
<1>2. CASE attempts[a].then = "enable" /\ CanEnable(jobs)
  BY <1>1, <1>2, ProcessAwaited DEF Complete, ThenEnable
<1>3. CASE ~(attempts[a].then = "enable" /\ CanEnable(jobs))
  <2>1. attempts' = [attempts EXCEPT ![a] = Idle] /\ UNCHANGED network
    BY <1>3 DEF Complete
  <2>2. \A b \in Attempts : b # a => attempts'[b] = attempts[b]
    BY <2>1 DEF Typed, TypeOK
  <2> QED BY <1>1, <2>1, <2>2, AwaitedAside
<1> QED BY <1>2, <1>3

LEMMA SupersedeAwaited ==
  ASSUME Typed, Awaited, NEW a \in Attempts, Supersede(a)
  PROVE  Awaited'
<1>1. ~Waits(a) /\ attempts \in [Attempts -> Attempt] /\ attempts[a] \in Attempt
  BY DEF Supersede, Waits, Typed, TypeOK
<1>2. PICK name, op, token :
        network' = Append(network, [to |-> a, op |-> op, name |-> name, label |-> None, token |-> token])
  BY DEF Supersede
<1> DEFINE r == [to |-> a, op |-> op, name |-> name, label |-> None, token |-> token]
<1>3. r.to = a /\ r.label = None /\ network' = Append(network, r)
  BY <1>2
<1> HIDE DEF r
<1>4. attempts' = [attempts EXCEPT ![a] = [attempts[a] EXCEPT !.step = "compensating"]]
  BY DEF Supersede
<1>5. /\ attempts'[a].step = "compensating"
      /\ \A b \in Attempts : b # a => attempts'[b] = attempts[b]
  BY <1>1, <1>4 DEF Attempt
<1> QED BY <1>1, <1>3, <1>5, AwaitedSent

LEMMA RouteAwaited ==
  ASSUME Typed, Awaited, NEW a \in Attempts, Route(a)
  PROVE  Awaited'
<1>1. ~Waits(a)
  BY DEF Route, PostEnable, PostDevice, DeleteDevice, Waits, Idle
<1>2. \E rows, j, then : Process(a, rows, j, then)
  BY DEF Route, PostEnable, PostDevice, DeleteDevice, ResumeProvisionJob, CreateProvisionJob, ThenEnable
<1> QED BY <1>1, <1>2, ProcessAwaited

LEMMA DieAwaited ==
  ASSUME Typed, Awaited, Die
  PROVE  Awaited'
BY AwaitedAbandoned DEF Die

-----------------------------------------------------------------------------
(* The types are an invariant.                                             *)

\* A step of the server or the provisioner, without stuttering.
LEMMA NextKept ==
  ASSUME Typed, Awaited, Next
  PROVE  Kept /\ Awaited'
<1>1. ASSUME NEW a \in Attempts, Route(a)
      PROVE  Kept /\ Awaited'
  BY <1>1, RouteAwaited, PostEnableKept, PostDeviceKept, DeleteDeviceKept DEF Route
<1>2. ASSUME NEW a \in Attempts, Complete(a)
      PROVE  Kept /\ Awaited'
  BY <1>2, CompleteKept, CompleteAwaited
<1>3. ASSUME NEW a \in Attempts, Supersede(a)
      PROVE  Kept /\ Awaited'
  BY <1>3, SupersedeKept, SupersedeAwaited
<1>4. ASSUME NEW a \in Attempts, LoseLease(a)
      PROVE  Kept /\ Awaited'
  BY <1>4, LoseLeaseKept, FailAwaited DEF LoseLease, Waits
<1>5. ASSUME NEW a \in Attempts, GiveUp(a)
      PROVE  Kept /\ Awaited'
  BY <1>5, GiveUpKept, FailAbandoned DEF GiveUp
<1>6. ASSUME NEW a \in Attempts, GiveUpUndo(a)
      PROVE  Kept /\ Awaited'
  BY <1>6, GiveUpUndoKept, FailAbandoned DEF GiveUpUndo
<1>7. ASSUME NEW a \in Attempts, Undone(a)
      PROVE  Kept /\ Awaited'
  BY <1>7, UndoneKept, FailAwaited DEF Undone, Waits
<1>8. ASSUME NEW a \in Attempts, NEW j \in DOMAIN jobs, ProvisionWorkerTick(a, j)
      PROVE  Kept /\ Awaited'
  <2>1. ~Waits(a) /\ Process(a, jobs, j, "nothing")
    BY <1>8 DEF ProvisionWorkerTick, Waits, Idle
  <2> QED BY <1>8, <2>1, TickKept, ProcessAwaited
<1>9. ASSUME DeleteNtfy PROVE Kept /\ Awaited'
  <2>1. UNCHANGED <<attempts, network>>
    BY <1>9 DEF DeleteNtfy
  <2> QED BY <1>9, <2>1, DeleteNtfyKept DEF Awaited
<1>10. ASSUME EnableDies PROVE Kept /\ Awaited'
  BY <1>10, EnableDiesKept, DieAwaited DEF EnableDies
<1>11. ASSUME Crash PROVE Kept /\ Awaited'
  BY <1>11, CrashKept, DieAwaited DEF Crash
<1>12. ASSUME NEW disabled \in BOOLEAN, PatchUser(disabled)
       PROVE  Kept /\ Awaited'
  <2>1. UNCHANGED <<attempts, network>>
    BY <1>12 DEF PatchUser
  <2> QED BY <1>12, <2>1, PatchUserKept DEF Awaited
<1>13. ASSUME NEW j \in DOMAIN jobs, LeaseExpires(j)
       PROVE  Kept /\ Awaited'
  <2>1. UNCHANGED <<attempts, network>>
    BY <1>13 DEF LeaseExpires
  <2> QED BY <1>13, <2>1, LeaseExpiresKept DEF Awaited
<1>14. ASSUME NEW j \in DOMAIN jobs, AcknowledgeProvisionResult(j)
       PROVE  Kept /\ Awaited'
  <2>1. UNCHANGED <<attempts, network>>
    BY <1>14 DEF AcknowledgeProvisionResult
  <2> QED BY <1>14, <2>1, AcknowledgeKept DEF Awaited
<1>15. ASSUME NEW i \in DOMAIN network, Execute(i) \/ ExecutionFails(i)
       PROVE  Kept /\ Awaited'
  BY <1>15, ExecuteKept, ExecutionFailsKept
<1> QED
  BY <1>1, <1>2, <1>3, <1>4, <1>5, <1>6, <1>7, <1>8, <1>9, <1>10, <1>11, <1>12, <1>13, <1>14, <1>15
     DEF Next, Outcome

LEMMA StutterKept ==
  ASSUME Typed, Awaited, UNCHANGED vars
  PROVE  Kept /\ Awaited'
<1>1. UNCHANGED <<account, jobs, devices, attempts, enabled, network, users, tokens, overtaken,
                  dropped, crashes>>
  BY DEF vars
<1>2. AccountMoves /\ JobsMove
  BY <1>1, SameAccount, SameJobs
<1>3. DevicesMove /\ AttemptsMove
  BY <1>1, <1>2, SameDevices, SameAttempts
<1>4. Typed'
  BY <1>1, <1>2, <1>3, SameWorld, TypedFrom DEF Moves, Typed, TypeOK, Shape
<1> QED BY <1>1, <1>2, <1>4 DEF Kept, Moves, Awaited

LEMMA InitTyped ==
  ASSUME Init
  PROVE  Typed /\ Awaited
<1>1. Idle \in Attempt /\ Idle.step = "idle"
  BY Bounds DEF Idle, Attempt, None
<1>2. TypeOK
  <2>1. account \in Account /\ Len(jobs) <= MaxJobs
    BY Bounds DEF Init, Account
  <2>2. jobs \in Seq(Job) /\ network \in Seq(Request)
    BY DEF Init
  <2>5. attempts \in [Attempts -> Attempt]
    BY <1>1 DEF Init
  <2>3. crashes \in 0..MaxFaults
    <3>1. crashes = 0
      BY DEF Init
    <3> QED BY <3>1, Bounds
  <2>4. devices \subseteq JobIds /\ users \subseteq Names /\ tokens \subseteq users \X JobIds
        /\ dropped \subseteq Names
    BY DEF Init
  <2>6. enabled \in BOOLEAN /\ overtaken \in BOOLEAN
    BY Zenon DEF Init
  <2> QED BY <2>1, <2>2, <2>3, <2>4, <2>5, <2>6 DEF TypeOK
<1>3. Shape /\ Awaited
  BY <1>1 DEF Init, Shape, Awaited
<1> QED BY <1>2, <1>3 DEF Typed

-----------------------------------------------------------------------------
(* Devices belong to the account as it is now.                             *)

Owned ==
  \A j \in devices : jobs[j].name \notin dropped =>
    /\ account.status = "active"
    /\ jobs[j].name = account.name /\ jobs[j].generation = account.generation

\* What a device was made for never changes.
LEMMA DeviceFixed ==
  ASSUME Typed, Moves, NEW j \in devices
  PROVE  Fixed(jobs[j], jobs'[j])
BY DEF Typed, Shape, Moves, JobsMove, Keeps

\* An account that is not active has forgotten the name of every device, so it
\* may do what it wants.
LEMMA OwnedStays ==
  ASSUME Typed, Moves, Owned, devices' \subseteq devices, dropped \subseteq dropped',
         account.status = "active" => account' = account
  PROVE  Owned'
<1> SUFFICES ASSUME NEW j \in devices', jobs'[j].name \notin dropped'
             PROVE  /\ account'.status = "active"
                    /\ jobs'[j].name = account'.name /\ jobs'[j].generation = account'.generation
  BY DEF Owned
<1>1. jobs'[j].name = jobs[j].name /\ jobs'[j].generation = jobs[j].generation /\ j \in devices
  BY DeviceFixed DEF Fixed
<1>2. /\ account.status = "active"
      /\ jobs[j].name = account.name /\ jobs[j].generation = account.generation
  BY <1>1 DEF Owned
<1> QED BY <1>1, <1>2

LEMMA CompleteOwned ==
  ASSUME Typed, Moves, Owned, NEW a \in Attempts, Complete(a)
  PROVE  Owned'
<1> DEFINE j == attempts[a].job
<1>1. attempts[a].step = "answered" /\ ~Stale(jobs[j])
  BY DEF Complete
<1>2. j \in DOMAIN jobs
  BY <1>1 DEF Typed, Shape
<1>3. CASE attempts[a].then = "enable" /\ CanEnable(jobs)
  <2>1. /\ devices' = IF Current(jobs[j]) THEN {} ELSE devices
        /\ dropped' = IF Current(jobs[j]) \/ ~InUse THEN dropped ELSE dropped \cup {account.name}
    BY <1>3 DEF Complete
  <2>2. CASE Current(jobs[j])
    BY <2>1, <2>2 DEF Owned
  <2>3. CASE ~Current(jobs[j]) /\ ~InUse
    <3>1. account.status # "active"
      BY <2>3 DEF InUse
    <3> QED BY <2>1, <2>3, <3>1, OwnedStays
  <2>4. CASE ~Current(jobs[j]) /\ InUse
    <3>1. devices' = devices /\ dropped' = dropped \cup {account.name}
      BY <2>1, <2>4
    <3>2. ASSUME NEW k \in devices'
          PROVE  jobs'[k].name \in dropped'
      <4>1. jobs'[k].name = jobs[k].name
        BY <3>1, DeviceFixed DEF Fixed
      <4> QED BY <3>1, <4>1 DEF Owned
    <3> QED BY <3>2 DEF Owned
  <2> QED BY <2>2, <2>3, <2>4
<1>4. CASE ~(attempts[a].then = "enable" /\ CanEnable(jobs))
  <2>1. FinalizeProvisioning(j) /\ UNCHANGED dropped
    BY <1>4 DEF Complete
  <2>2. \/ UNCHANGED <<account, devices>>
        \/ /\ Matches(jobs[j])
           /\ account'.status = "active" /\ devices' = devices \cup {j}
           /\ account'.name = account.name /\ account'.generation = account.generation
        \/ UNCHANGED account /\ devices' = devices \ {jobs[j].token}
        \/ devices' = {}
    BY <1>1, <1>2, <2>1, FinalizeTyped
  <2>3. CASE UNCHANGED account /\ devices' \subseteq devices
    BY <2>1, <2>3, OwnedStays
  <2>4. CASE /\ Matches(jobs[j])
             /\ account'.status = "active" /\ devices' = devices \cup {j}
             /\ account'.name = account.name /\ account'.generation = account.generation
    <3>1. ASSUME NEW k \in devices', jobs'[k].name \notin dropped'
          PROVE  jobs'[k].name = account'.name /\ jobs'[k].generation = account'.generation
      <4>1. CASE k = j
        <5>1. jobs[j].name = account.name /\ jobs[j].generation = account.generation
          BY <2>4 DEF Matches, Current
        <5>2. Fixed(jobs[j], jobs'[j])
          BY <1>2 DEF Moves, JobsMove, Keeps
        <5> QED BY <2>4, <4>1, <5>1, <5>2 DEF Fixed
      <4>2. CASE k # j
        <5>1. k \in devices /\ Fixed(jobs[k], jobs'[k])
          BY <2>4, <4>2, DeviceFixed
        <5> QED BY <2>1, <2>4, <3>1, <5>1 DEF Owned, Fixed
      <4> QED BY <4>1, <4>2
    <3> QED BY <2>4, <3>1 DEF Owned
  <2>5. CASE devices' = {}
    BY <2>5 DEF Owned
  <2> QED BY <2>2, <2>3, <2>4, <2>5
<1> QED BY <1>3, <1>4

\* A failure leaves the devices, and an active account.
LEMMA FailOwned ==
  ASSUME Typed, Moves, Owned, NEW a \in Attempts, NEW rows, NEW stale, Fail(a, rows, stale)
  PROVE  Owned'
<1>1. UNCHANGED devices /\ dropped \subseteq dropped'
  BY DEF Fail
<1>2. account.status = "active" => account' = account
  BY DEF Fail, Matches
<1> QED BY <1>1, <1>2, OwnedStays

LEMMA RouteOwned ==
  ASSUME Typed, Moves, Owned, NEW a \in Attempts, Route(a)
  PROVE  Owned'
<1>1. UNCHANGED <<devices, dropped>>
  BY DEF Route, PostEnable, PostDevice, DeleteDevice, ResumeProvisionJob, world
<1>2. account.status = "active" => account' = account
  BY DEF Route, PostEnable, PostDevice, DeleteDevice, ResumeProvisionJob
<1> QED BY <1>1, <1>2, OwnedStays

LEMMA NextOwned ==
  ASSUME Typed, Moves, Owned, Next
  PROVE  Owned'
<1>1. ASSUME NEW a \in Attempts, Route(a) \/ Outcome(a)
      PROVE  Owned'
  <2>1. ASSUME Supersede(a) PROVE Owned'
    BY <2>1, OwnedStays DEF Supersede, database, world
  <2>2. ASSUME LoseLease(a) \/ GiveUp(a) \/ GiveUpUndo(a) \/ Undone(a) PROVE Owned'
    BY <2>2, FailOwned DEF LoseLease, GiveUp, GiveUpUndo, Undone
  <2> QED BY <1>1, <2>1, <2>2, RouteOwned, CompleteOwned DEF Outcome
<1>2. ASSUME DeleteNtfy PROVE Owned'
  BY <1>2 DEF DeleteNtfy, Owned
<1>3. ASSUME EnableDies PROVE Owned'
  BY <1>3, OwnedStays DEF EnableDies
<1>4. ASSUME NEW disabled \in BOOLEAN, PatchUser(disabled) PROVE Owned'
  <2>1. CASE devices' = {}
    BY <2>1 DEF Owned
  <2>2. CASE devices' # {}
    <3>1. UNCHANGED <<account, devices, dropped>>
      BY <1>4, <2>2 DEF PatchUser, world
    <3> QED BY <3>1, OwnedStays
  <2> QED BY <2>1, <2>2
<1>5. CASE UNCHANGED <<account, devices, dropped>>
  BY <1>5, OwnedStays
<1>6. ASSUME NEW a \in Attempts, NEW j \in DOMAIN jobs, ProvisionWorkerTick(a, j)
      PROVE  UNCHANGED <<account, devices, dropped>>
  BY <1>6 DEF ProvisionWorkerTick, world
<1>7. ASSUME Crash PROVE UNCHANGED <<account, devices, dropped>>
  BY <1>7 DEF Crash, database
<1>8. ASSUME NEW j \in DOMAIN jobs, LeaseExpires(j) \/ AcknowledgeProvisionResult(j)
      PROVE  UNCHANGED <<account, devices, dropped>>
  BY <1>8 DEF LeaseExpires, AcknowledgeProvisionResult, world
<1>9. ASSUME NEW i \in DOMAIN network, Execute(i) \/ ExecutionFails(i)
      PROVE  UNCHANGED <<account, devices, dropped>>
  BY <1>9 DEF Execute, ExecutionFails, database
<1> QED BY <1>1, <1>2, <1>3, <1>4, <1>5, <1>6, <1>7, <1>8, <1>9 DEF Next

\* Whatever retries, late answers, lost leases, crashes and newer operations do
\* to the jobs of an account (notification-provisioning.ts), a device that counts
\* belongs to the account as it is now, and a disabled account has none.
THEOREM ProvisioningDevices == Spec => []DevicesOfCurrentAccount
<1> DEFINE Inv == Typed /\ Awaited /\ Owned
<1>1. Init => Inv
  <2> SUFFICES ASSUME Init PROVE Inv
    OBVIOUS
  <2>1. Owned
    BY DEF Init, Owned
  <2> QED BY <2>1, InitTyped
<1>2. Inv /\ [Next]_vars => Inv'
  <2> SUFFICES ASSUME Typed, Awaited, Owned, [Next]_vars PROVE Inv'
    OBVIOUS
  <2>1. CASE Next
    BY <2>1, NextKept, NextOwned DEF Kept
  <2>2. CASE UNCHANGED vars
    <3>1. Typed' /\ Moves /\ Awaited'
      BY <2>2, StutterKept DEF Kept
    <3>2. Owned'
      BY <2>2, <3>1, OwnedStays DEF vars
    <3> QED BY <3>1, <3>2
  <2> QED BY <2>1, <2>2
<1>3. Inv => DevicesOfCurrentAccount
  BY DEF Owned, DevicesOfCurrentAccount, Typed
<1> HIDE DEF Inv
<1> QED BY <1>1, <1>2, <1>3, PTL DEF Spec

-----------------------------------------------------------------------------
(* What ntfy is asked to do, and for whom.                                 *)

Is(j, op) == jobs[j].op = op
Provisions(n) == {p \in DOMAIN jobs : jobs[p].op = "provision" /\ jobs[p].name = n}

\* The account has moved on from a job before it was done: that is for good.
Outdated ==
  {j \in DOMAIN jobs :
     jobs[j].op \in Credentialed /\ ~Current(jobs[j]) /\ jobs[j].status # "completed"}

\* No job is ahead of the account; jobs for credentials are the user's.
Named ==
  \A j \in DOMAIN jobs :
    /\ jobs[j].name <= account.name
    /\ jobs[j].name = account.name => jobs[j].generation <= account.generation
    /\ jobs[j].op \in Credentialed => jobs[j].owned

OneProvision ==
  \A i, j \in DOMAIN jobs :
    Is(i, "provision") /\ Is(j, "provision") /\ jobs[i].name = jobs[j].name => i = j

\* The account waits for the jobs it has: none of them is superseded by itself.
Ready ==
  \A j \in DOMAIN jobs :
    Unfinished(j) /\ jobs[j].op \in Credentialed /\ Current(jobs[j]) => Matches(jobs[j])

\* A job revokes a device, until it is off the list, or undoes an outdated one.
Revokes ==
  \A j \in DOMAIN jobs : Is(j, "revoke-device") =>
    /\ jobs[j].token \in DOMAIN jobs /\ jobs[j].status # "failed"
    /\ jobs[j].owned =>
         jobs[jobs[j].token].status = "completed" /\ (Unfinished(j) \/ jobs[j].token \notin devices)
    /\ ~jobs[j].owned => jobs[j].token \in Outdated

\* A request carries a job, or undoes an outdated one.
Carries(r) ==
  /\ r.label \in DOMAIN jobs
  /\ r.op = jobs[r.label].op /\ r.name = jobs[r.label].name /\ r.token = jobs[r.label].token

Undoes(r) ==
  \E j \in DOMAIN jobs :
    /\ j \in Outdated /\ r.name = jobs[j].name /\ r.label = None
    /\ \/ Is(j, "add-device") /\ r.op = "revoke-device" /\ r.token = j
       \/ Is(j, "provision") /\ r.op = "disable-account"

Proper == {r \in Labelled : Carries(r) \/ Undoes(r)}

Labels == \A i \in DOMAIN network : network[i] \in Proper

\* What is undone is outdated, and who means to enable cleans up before.
Undoing ==
  \A a \in Attempts :
    /\ attempts[a].step \in {"compensating", "compensated"} => attempts[a].job \in Outdated
    /\ attempts[a].step # "idle" /\ attempts[a].then = "enable" =>
         Is(attempts[a].job, "disable-account")

NoRequest(op, n) == \A i \in DOMAIN network : ~(network[i].op = op /\ network[i].name = n)
NoJob(op, n) == \A j \in DOMAIN jobs : ~(Is(j, op) /\ jobs[j].name = n)

\* An account that is active, or on its way with a job, is not being removed.
Begun == account.status = "active" \/ (InUse /\ Provisions(account.name) # {})

AccountSound ==
  /\ InUse => \A p \in Provisions(account.name) :
                /\ jobs[p].generation = account.generation
                /\ jobs[p].status = "completed" <=> account.status = "active"
  /\ Begun => NoJob("disable-account", account.name)

\* A device that counts came of a job that is done.
DevicesSound ==
  \A j \in devices :
    /\ jobs[j].op \in Credentialed /\ jobs[j].status = "completed"
    /\ jobs[j].name = account.name => account.status = "active" /\ Current(jobs[j])

Sound ==
  /\ Named /\ OneProvision /\ Ready /\ Revokes /\ Labels /\ Undoing
  /\ AccountSound /\ DevicesSound

-----------------------------------------------------------------------------
(* What a step of the server does to each part of the state.               *)

SameName == account'.name = account.name /\ account'.generation = account.generation

\* Attempt a carries job j.
Sending(a, j) ==
  /\ ~Waits(a) /\ j \in DOMAIN jobs'
  /\ network' = Append(network, RequestOf(a, j, jobs'[j]))
  /\ attempts'[a].step = "waiting" /\ attempts'[a].job = j
  /\ jobs'[j].holder = a /\ jobs'[j].status = "processing"
  /\ \A b \in Attempts : b # a => attempts'[b] = attempts[b]

Finishes(j) ==
  /\ jobs[j].status = "processing" /\ jobs'[j].status = "completed" /\ ~Stale(jobs[j])
  /\ \E a \in Attempts : attempts[a].step = "answered" /\ attempts[a].job = j /\ Holds(a)
  /\ jobs[j].owned /\ Is(j, "revoke-device") => devices' = devices \ {jobs[j].token}
  /\ jobs[j].owned /\ jobs[j].op \in Credentialed =>
       /\ SameName /\ account'.status = "active"
       /\ Is(j, "add-device") => account' = account

Resumes(j) ==
  /\ jobs[j].status \in {"pending", "failed"} /\ jobs[j].op \in Credentialed /\ Current(jobs[j])
  /\ SameName /\ account'.status = IF Is(j, "provision") THEN "pending" ELSE "active"

RowStep(j) ==
  \/ jobs'[j].status = jobs[j].status /\ jobs'[j].holder = jobs[j].holder
  \/ \E a \in Attempts : Sending(a, j) /\ (Unfinished(j) \/ Resumes(j))
  \/ Finishes(j)
  \/ /\ Unfinished(j) /\ jobs'[j].status \in {"pending", "failed"}
     /\ jobs'[j].status = "failed" => jobs[j].op \in Credentialed

NewRow(job) ==
  /\ job.status \in {"pending", "processing"}
  /\ \/ /\ job.op = "provision" /\ job.owned /\ account'.status = "pending"
        /\ account'.name = account.name + 1
        /\ job.name = account'.name /\ job.generation = account'.generation
     \/ /\ job.op = "add-device" /\ job.owned /\ account.status = "active" /\ account' = account
        /\ job.name = account.name /\ job.generation = account.generation
     \/ /\ job.op = "disable-account" /\ account'.status = "disabled" /\ devices' = {}
        /\ account'.name = account.name
        /\ job.name = account'.name /\ job.generation = account'.generation
     \/ /\ job.op = "disable-account" /\ ~Begun /\ account' = account
        /\ job.name = account.name /\ job.generation = account.generation
     \/ /\ job.op = "disable-account" /\ account' = account /\ job.generation = None
        /\ \E k \in DOMAIN jobs : k \in Outdated /\ Is(k, "provision") /\ job.name = jobs[k].name
     \/ /\ job.op = "revoke-device" /\ job.owned /\ job.token \in devices /\ account' = account
        /\ job.name = account.name /\ job.generation = None
     \/ /\ job.op = "revoke-device" /\ ~job.owned /\ account' = account /\ job.generation = None
        /\ job.token \in DOMAIN jobs /\ job.token \in Outdated /\ job.name = jobs[job.token].name

RowsStep ==
  /\ DOMAIN jobs' \subseteq DOMAIN jobs \cup {Len(jobs) + 1}
  /\ \A j \in DOMAIN jobs : RowStep(j)
  /\ \A j \in DOMAIN jobs' \ DOMAIN jobs : NewRow(jobs'[j])

AccountStep ==
  \/ account' = account
  \/ account'.name = account.name + 1 /\ account'.status = "pending"
  \/ /\ account'.name = account.name /\ account'.generation = account.generation + 1
     /\ account'.status = "disabled" /\ devices' = {}
  \/ /\ SameName
     /\ \/ \E p \in DOMAIN jobs : Is(p, "provision") /\ Matches(jobs[p]) /\ Finishes(p)
        \/ /\ account'.status = "disabled" /\ devices' = {}
           /\ \E d \in DOMAIN jobs : Is(d, "disable-account") /\ Current(jobs[d])
        \/ /\ account'.status = "error"
           /\ \E p \in DOMAIN jobs :
                Is(p, "provision") /\ Matches(jobs[p]) /\ jobs'[p].status = "failed"
        \/ /\ account.status \in {"pending", "error"} /\ account'.status = "pending"
           /\ \E p \in DOMAIN jobs :
                Is(p, "provision") /\ Current(jobs[p]) /\ jobs[p].status \in {"pending", "failed"}

DevicesStep ==
  \A j \in devices' : j \in devices \/ (j \in DOMAIN jobs /\ Finishes(j) /\ jobs[j].op \in Credentialed)

\* Request r undoes what the attempt that sends it was answered.
Aims(r) ==
  \E a \in Attempts :
    /\ r.to = a /\ attempts[a].step = "answered"
    /\ attempts'[a].step = "compensating" /\ attempts'[a].job = attempts[a].job
    /\ r.name = jobs[attempts[a].job].name
    /\ Is(attempts[a].job, "provision") => r.op = "disable-account"

NetworkStep ==
  \/ network' = network
  \/ \E A \in SUBSET Attempts : network' = Abandoned(A)
  \/ \E a \in Attempts, j \in DOMAIN jobs' :
       Sending(a, j) /\ (j \in DOMAIN jobs => jobs[j].status # "completed")
  \/ \E r : network' = Append(network, r) /\ Undoes(r) /\ Aims(r)

AttemptsStep ==
  \A b \in Attempts :
    \/ attempts'[b] = attempts[b]
    \/ attempts'[b].step = "idle"
    \/ \E j \in DOMAIN jobs' :
         /\ Sending(b, j)
         /\ attempts'[b].then = "enable" => jobs'[j].op = "disable-account"
    \/ /\ attempts[b].step = "answered" /\ attempts'[b].step = "compensating"
       /\ attempts'[b].job = attempts[b].job /\ attempts'[b].then = attempts[b].then
       /\ attempts[b].job \in Outdated

\* Name n is left to somebody: to a new job that removes it, or to the account.
NewRemoval(n) ==
  \E d \in DOMAIN jobs' \ DOMAIN jobs :
    jobs'[d].op = "disable-account" /\ jobs'[d].name = n /\ jobs'[d].status = "pending"

Left(n) == n \in dropped' \/ NewRemoval(n) \/ (InUse' /\ account'.name = n)

Fails(q) == Is(q, "provision") /\ Unfinished(q) /\ jobs'[q].status = "failed"

\* A name that was asked for is left to somebody, when the account moves on and
\* when its job fails, unless what the job did was undone.
CareStep ==
  /\ dropped \subseteq dropped'
  /\ InUse => Left(account.name) \/ Provisions(account.name) = {}
  /\ \A q \in DOMAIN jobs : Fails(q) =>
       \/ Left(jobs[q].name)
       \/ \E a \in Attempts : attempts[a].job = q /\ Holds(a) /\ attempts[a].step = "compensated"

Step ==
  /\ RowsStep /\ AccountStep /\ DevicesStep /\ NetworkStep /\ AttemptsStep /\ UNCHANGED remote
  /\ CareStep

\* An attempt that is sent a job.
LEMMA SentSends ==
  ASSUME NEW a \in Attempts, ~Waits(a), NEW rows \in Seq(Job), NEW j \in DOMAIN rows, NEW then,
         Sent(a, rows, j, then)
  PROVE  Sending(a, j) /\ attempts'[a].then = then
<1>1. rows[j] \in Job /\ jobs' \in Seq(Job) /\ DOMAIN jobs' = DOMAIN rows
  BY DEF Sent
<1>2. jobs'[j] = Claimed(rows[j], a)
  BY DEF Sent
<1>3. /\ Fixed(rows[j], jobs'[j]) /\ jobs'[j].status = "processing" /\ jobs'[j].holder = a
  BY <1>1, <1>2, ClaimedTyped
<1>4. RequestOf(a, j, rows[j]) = RequestOf(a, j, jobs'[j])
  BY <1>3 DEF RequestOf, Fixed
<1>5. /\ attempts'[a] = [job |-> j, step |-> "waiting", then |-> then]
      /\ \A b \in Attempts : b # a => attempts'[b] = attempts[b]
      /\ network' = Append(network, RequestOf(a, j, rows[j]))
  BY DEF Sent
<1> QED BY <1>1, <1>3, <1>4, <1>5 DEF Sending

LEMMA SendStep ==
  ASSUME Typed, NEW a \in Attempts, ~Waits(a), NEW rows \in Seq(Job), Len(rows) <= MaxJobs,
         Keeps(jobs, rows), NEW j \in DOMAIN rows, NEW then \in Thens, Process(a, rows, j, then),
         j \in DOMAIN jobs => jobs[j].status # "completed",
         then = "enable" => rows[j].op = "disable-account"
  PROVE  /\ Sending(a, j) /\ NetworkStep /\ AttemptsStep
         /\ jobs' \in Seq(Job) /\ Len(jobs') = Len(rows) /\ j \in DOMAIN jobs'
         /\ Fixed(rows[j], jobs'[j]) /\ jobs'[j].status = "processing"
         /\ \A i \in DOMAIN rows : i # j => jobs'[i] = rows[i]
<1>1. Sent(a, rows, j, then)
  BY ProcessTyped DEF Typed
<1>2. Sending(a, j) /\ attempts'[a].then = then
  BY <1>1, SentSends
<1>3. /\ jobs' \in Seq(Job) /\ Len(jobs') = Len(rows) /\ j \in DOMAIN jobs'
      /\ \A i \in DOMAIN rows : i # j => jobs'[i] = rows[i]
      /\ Fixed(rows[j], jobs'[j])
  BY <1>1 DEF Sent, Keeps
<1>4. NetworkStep
  BY <1>2, <1>3 DEF NetworkStep
<1>5. AttemptsStep
  <2>1. then = "enable" => jobs'[j].op = "disable-account"
    BY <1>3 DEF Fixed
  <2> QED BY <1>2, <1>3, <2>1 DEF AttemptsStep, Sending
<1> QED BY <1>2, <1>3, <1>4, <1>5 DEF Sending

\* A row that was made now.
Made(job, op, owned, name, generation, token) ==
  /\ job.op = op /\ job.owned = owned /\ job.name = name /\ job.generation = generation
  /\ job.token = token /\ job.status \in {"pending", "processing"}

LEMMA MakeStep ==
  ASSUME Typed, NEW a \in Attempts, ~Waits(a), NEW rows \in Seq(Job), Len(rows) = Len(jobs),
         Keeps(jobs, rows), NEW op \in Operations, NEW name \in Names, NEW generation \in Nat,
         NEW token \in 0..MaxJobs, NEW then \in Thens, then = "enable" => op = "disable-account",
         LET more == Queued(rows, op, TRUE, name, generation, token)
         IN Len(more) <= MaxJobs /\ Process(a, more, Len(more), then)
  PROVE  /\ NetworkStep /\ AttemptsStep
         /\ DOMAIN jobs' \subseteq DOMAIN jobs \cup {Len(jobs) + 1}
         /\ \A i \in DOMAIN jobs : jobs'[i] = rows[i]
         /\ \A i \in DOMAIN jobs' \ DOMAIN jobs : Made(jobs'[i], op, TRUE, name, generation, token)
<1> DEFINE more == Queued(rows, op, TRUE, name, generation, token)
           job == NewJob(op, TRUE, name, generation, token)
           last == Len(rows) + 1
<1>1. Added(rows, job, more)
  <2>1. TRUE \in BOOLEAN
    OBVIOUS
  <2> QED BY <2>1, QueuedTyped
<1>2. Made(job, op, TRUE, name, generation, token)
  BY DEF Made, NewJob
<1>3. Len(more) <= MaxJobs /\ Process(a, more, Len(more), then)
  OBVIOUS
<1> HIDE DEF more, job
<1>4. /\ more \in Seq(Job) /\ Len(more) = last /\ DOMAIN more = 1..last /\ more[last] = job
      /\ \A i \in DOMAIN rows : more[i] = rows[i]
      /\ Keeps(rows, more) /\ jobs \in Seq(Job) /\ DOMAIN jobs = 1..Len(jobs) /\ Len(jobs) \in Nat
      /\ DOMAIN rows = DOMAIN jobs
  BY <1>1 DEF Added, Typed, TypeOK
<1>5. Keeps(jobs, more)
  BY <1>4, KeepsTransitive
<1>6. last \in DOMAIN more /\ last \notin DOMAIN jobs /\ more[last].op = op
  BY <1>2, <1>4 DEF Made
<1>7. /\ NetworkStep /\ AttemptsStep
      /\ jobs' \in Seq(Job) /\ Len(jobs') = last
      /\ Fixed(more[last], jobs'[last]) /\ jobs'[last].status = "processing"
      /\ \A i \in DOMAIN more : i # last => jobs'[i] = more[i]
  BY <1>3, <1>4, <1>5, <1>6, SendStep
<1>8. DOMAIN jobs' = 1..last
  BY <1>7
<1>9. Made(jobs'[last], op, TRUE, name, generation, token)
  BY <1>2, <1>4, <1>7 DEF Made, Fixed
<1>10. \A i \in DOMAIN jobs : jobs'[i] = rows[i]
  BY <1>4, <1>7
<1>11. \A i \in DOMAIN jobs' : i \in DOMAIN jobs \/ i = last
  BY <1>4, <1>8
<1> QED BY <1>4, <1>7, <1>9, <1>10, <1>11

\* What stays, is no step.
LEMMA SameRows ==
  ASSUME UNCHANGED jobs
  PROVE  RowsStep
BY DEF RowsStep, RowStep

LEMMA SameCalls ==
  ASSUME UNCHANGED <<attempts, network>>
  PROVE  NetworkStep /\ AttemptsStep
BY DEF NetworkStep, AttemptsStep

LEMMA SameOwner ==
  ASSUME UNCHANGED <<account, devices>>
  PROVE  AccountStep /\ DevicesStep
BY DEF AccountStep, DevicesStep

LEMMA SameCare ==
  ASSUME UNCHANGED dropped, InUse => InUse' /\ account'.name = account.name,
         \A q \in DOMAIN jobs : jobs[q].status # "failed" => jobs'[q].status # "failed"
  PROVE  CareStep
<1>1. InUse => Left(account.name)
  BY DEF Left
<1>2. \A q \in DOMAIN jobs : ~Fails(q)
  BY DEF Fails, Unfinished
<1> QED BY <1>1, <1>2 DEF CareStep

LEMMA TickStep ==
  ASSUME Typed, NEW a \in Attempts, NEW j \in DOMAIN jobs, ProvisionWorkerTick(a, j)
  PROVE  Step
<1>1. /\ ~Waits(a) /\ Unfinished(j) /\ jobs[j].status # "completed"
      /\ Process(a, jobs, j, "nothing") /\ UNCHANGED <<account, devices, remote, dropped>>
  BY DEF ProvisionWorkerTick, Waits, Idle, Unfinished, Claimable, world
<1>2. jobs \in Seq(Job) /\ Len(jobs) <= MaxJobs /\ Keeps(jobs, jobs) /\ "nothing" \in Thens
  BY KeepsSelf DEF Typed, TypeOK, Thens
<1>3. /\ Sending(a, j) /\ NetworkStep /\ AttemptsStep
      /\ jobs' \in Seq(Job) /\ Len(jobs') = Len(jobs) /\ jobs'[j].status = "processing"
      /\ \A i \in DOMAIN jobs : i # j => jobs'[i] = jobs[i]
  BY <1>1, <1>2, SendStep
<1>4. RowsStep
  <2>1. DOMAIN jobs' = DOMAIN jobs
    BY <1>2, <1>3
  <2>2. \A i \in DOMAIN jobs : RowStep(i)
    BY <1>1, <1>3 DEF RowStep
  <2> QED BY <2>1, <2>2 DEF RowsStep
<1>5. CareStep
  <2>1. \A q \in DOMAIN jobs : jobs[q].status # "failed" => jobs'[q].status # "failed"
    BY <1>3
  <2>2. InUse => InUse'
    BY <1>1 DEF InUse
  <2> QED BY <1>1, <2>1, <2>2, SameCare
<1> QED BY <1>1, <1>3, <1>4, <1>5, SameOwner DEF Step

LEMMA LeaseExpiresStep ==
  ASSUME Typed, NEW j \in DOMAIN jobs, LeaseExpires(j)
  PROVE  Step
<1>1. jobs[j] \in Job /\ jobs \in Seq(Job) /\ jobs' = [jobs EXCEPT ![j] = [jobs[j] EXCEPT !.expired = TRUE]]
  BY DEF Typed, TypeOK, LeaseExpires
<1>2. DOMAIN jobs' = DOMAIN jobs
      /\ \A i \in DOMAIN jobs : jobs'[i].status = jobs[i].status /\ jobs'[i].holder = jobs[i].holder
  BY <1>1 DEF Job
<1>3. RowsStep
  BY <1>2 DEF RowsStep, RowStep
<1>4. CareStep
  <2>1. UNCHANGED <<account, dropped>> /\ (InUse => InUse')
    BY DEF LeaseExpires, world, InUse
  <2> QED BY <1>2, <2>1, SameCare
<1> QED BY <1>3, <1>4, SameOwner, SameCalls DEF LeaseExpires, Step, world

LEMMA AcknowledgeStep ==
  ASSUME Typed, NEW j \in DOMAIN jobs, AcknowledgeProvisionResult(j)
  PROVE  Step
<1>1. /\ jobs[j] \in Job /\ jobs \in Seq(Job)
      /\ jobs' = [jobs EXCEPT ![j] = [jobs[j] EXCEPT !.result = FALSE]]
  BY DEF Typed, TypeOK, AcknowledgeProvisionResult
<1>2. DOMAIN jobs' = DOMAIN jobs
      /\ \A i \in DOMAIN jobs : jobs'[i].status = jobs[i].status /\ jobs'[i].holder = jobs[i].holder
  BY <1>1 DEF Job
<1>3. RowsStep
  BY <1>2 DEF RowsStep, RowStep
<1>4. CareStep
  <2>1. UNCHANGED <<account, dropped>> /\ (InUse => InUse')
    BY DEF AcknowledgeProvisionResult, world, InUse
  <2> QED BY <1>2, <2>1, SameCare
<1> QED BY <1>3, <1>4, SameOwner, SameCalls DEF AcknowledgeProvisionResult, Step, world

\* All attempts are gone, and nobody waits for their requests.
LEMMA DieStep ==
  ASSUME Die
  PROVE  NetworkStep /\ AttemptsStep
<1>1. attempts' = [a \in Attempts |-> Idle] /\ Idle.step = "idle" /\ network' = Abandoned(Attempts)
  BY DEF Die, Idle
<1> QED BY <1>1 DEF NetworkStep, AttemptsStep

LEMMA CrashStep ==
  ASSUME Crash
  PROVE  Step
<1>1. UNCHANGED <<account, devices, jobs, remote, dropped>> /\ (InUse => InUse')
  BY DEF Crash, database, InUse
<1>2. CareStep
  BY <1>1, SameCare
<1> QED BY <1>1, <1>2, DieStep, SameRows, SameOwner DEF Crash, Step

LEMMA EnableDiesStep ==
  ASSUME Typed, EnableDies
  PROVE  Step
<1>1. account'.name = account.name + 1 /\ account'.status = "pending"
  BY DEF EnableDies, Upsert
<1>2. ~InUse /\ UNCHANGED <<jobs, dropped>>
  BY DEF EnableDies, InUse
<1>3. CareStep
  BY <1>2, SameCare
<1> QED BY <1>1, <1>3, DieStep, SameRows DEF EnableDies, Step, AccountStep, DevicesStep

LEMMA FinalizeDoes ==
  ASSUME Typed, NEW j \in DOMAIN jobs, ~Stale(jobs[j]), FinalizeProvisioning(j)
  PROVE  /\ jobs[j].owned /\ Is(j, "revoke-device") => devices' = devices \ {jobs[j].token}
         /\ jobs[j].owned /\ jobs[j].op \in Credentialed =>
              /\ SameName /\ account'.status = "active" /\ Matches(jobs[j])
              /\ Is(j, "add-device") => account' = account
<1>1. ASSUME jobs[j].owned, Is(j, "revoke-device")
      PROVE  devices' = devices \ {jobs[j].token}
  BY <1>1 DEF FinalizeProvisioning, Credentialed, Is
<1>2. ASSUME jobs[j].owned, jobs[j].op \in Credentialed
      PROVE  /\ SameName /\ account'.status = "active" /\ Matches(jobs[j])
             /\ Is(j, "add-device") => account' = account
  <2>1. account' = IF jobs[j].op = "provision" THEN [account EXCEPT !.status = "active"] ELSE account
    BY <1>2 DEF FinalizeProvisioning, Credentialed
  <2>2. Matches(jobs[j]) /\ account \in Account
    BY <1>2 DEF Stale, Typed, TypeOK
  <2>3. jobs[j].op # "provision" => account.status = "active"
    BY <2>2 DEF Matches
  <2> QED BY <2>1, <2>2, <2>3 DEF Account, SameName, Is
<1> QED BY <1>1, <1>2

\* The account that a job of its own removes was never asked for.
LEMMA NeverBegun ==
  ASSUME Sound, InUse, NEW d \in DOMAIN jobs, Is(d, "disable-account"), Current(jobs[d])
  PROVE  Provisions(account.name) = {}
<1>1. ~NoJob("disable-account", account.name)
  BY DEF NoJob, Current
<1>2. ~Begun
  BY <1>1 DEF Sound, AccountSound
<1> QED BY <1>2 DEF Begun

LEMMA CompleteStep ==
  ASSUME Typed, Sound, NEW a \in Attempts, Complete(a)
  PROVE  Step
<1> DEFINE j == attempts[a].job
<1>1. /\ TypeOK /\ attempts[a].step = "answered" /\ ~Stale(jobs[j]) /\ Holds(a) /\ ~Waits(a)
      /\ UNCHANGED remote
  BY DEF Complete, Waits, Typed
<1>2. j \in DOMAIN jobs /\ jobs[j].status = "processing"
  BY <1>1 DEF Typed, Shape, Holds
<1>3. /\ Completed(j) \in Seq(Job) /\ Len(Completed(j)) = Len(jobs) /\ Keeps(jobs, Completed(j))
      /\ DOMAIN Completed(j) = DOMAIN jobs /\ Completed(j)[j].status = "completed"
      /\ \A i \in DOMAIN jobs : i # j => Completed(j)[i] = jobs[i]
  BY <1>1, <1>2, CompletedTyped
<1>4. ASSUME \A i \in DOMAIN jobs : jobs'[i] = Completed(j)[i], Finishes(j), NEW i \in DOMAIN jobs
      PROVE  RowStep(i)
  BY <1>3, <1>4 DEF RowStep
<1>5. CASE attempts[a].then = "enable" /\ CanEnable(jobs)
  <2> DEFINE row == Upsert(account)
             more == Queued(Completed(j), "provision", TRUE, account.name + 1, row.generation, None)
  <2>1. /\ account' = row /\ Process(a, more, Len(more), "nothing")
        /\ devices' \subseteq devices
    BY <1>5 DEF Complete, ThenEnable
  <2>2. /\ account.name + 1 \in Names /\ row.generation \in Nat /\ row.status = "pending"
        /\ row.name = account.name + 1 /\ None \in 0..MaxJobs /\ "provision" \in Operations
        /\ "nothing" \in Thens /\ TRUE \in BOOLEAN
    BY <1>1, <1>5, UpsertTyped, Bounds DEF CanEnable, None, Operations, Credentialed, Thens
  <2>3. Len(more) <= MaxJobs
    <3>1. Len(more) = Len(Completed(j)) + 1
      BY <1>3, <2>2, QueuedTyped DEF Added
    <3>2. Len(jobs) < MaxJobs /\ Len(jobs) \in Nat /\ MaxJobs \in Nat
      BY <1>1, <1>5, AccountColumns DEF CanEnable
    <3> HIDE DEF more
    <3> QED BY <1>3, <3>1, <3>2
  <2>4. /\ NetworkStep /\ AttemptsStep
        /\ DOMAIN jobs' \subseteq DOMAIN jobs \cup {Len(jobs) + 1}
        /\ \A i \in DOMAIN jobs : jobs'[i] = Completed(j)[i]
        /\ \A i \in DOMAIN jobs' \ DOMAIN jobs :
             Made(jobs'[i], "provision", TRUE, account.name + 1, row.generation, None)
    <3> HIDE DEF row
    <3> QED BY <1>1, <1>3, <2>1, <2>2, <2>3, MakeStep
  <2> HIDE DEF row, more
  <2>5. Is(j, "disable-account")
    BY <1>1, <1>5 DEF Sound, Undoing
  <2>6. Finishes(j)
    BY <1>1, <1>2, <1>3, <2>4, <2>5 DEF Finishes, Is, Credentialed
  <2>7. RowsStep
    <3>1. \A i \in DOMAIN jobs : RowStep(i)
      BY <1>4, <2>4, <2>6
    <3>2. \A i \in DOMAIN jobs' \ DOMAIN jobs : NewRow(jobs'[i])
      BY <2>1, <2>2, <2>4 DEF Made, NewRow
    <3> QED BY <2>4, <3>1, <3>2 DEF RowsStep
  <2>8. AccountStep
    BY <2>1, <2>2 DEF AccountStep
  <2>9. DevicesStep
    BY <2>1 DEF DevicesStep
  <2>10. CareStep
    <3>1. dropped' = IF Current(jobs[j]) \/ ~InUse THEN dropped ELSE dropped \cup {account.name}
      BY <1>5 DEF Complete
    <3>2. ASSUME InUse, Current(jobs[j])
          PROVE  Provisions(account.name) = {}
      <4> HIDE DEF j
      <4> QED BY <1>2, <2>5, <3>2, NeverBegun
    <3>3. InUse => Left(account.name) \/ Provisions(account.name) = {}
      <4>1. CASE Current(jobs[j])
        BY <3>2, <4>1
      <4>2. CASE ~Current(jobs[j]) /\ InUse
        <5>1. account.name \in dropped'
          BY <3>1, <4>2
        <5> QED BY <5>1 DEF Left
      <4> QED BY <4>1, <4>2
    <3>4. \A q \in DOMAIN jobs : ~Fails(q)
      BY <1>3, <2>4 DEF Fails, Unfinished
    <3> QED BY <3>1, <3>3, <3>4 DEF CareStep
  <2> QED BY <1>1, <2>4, <2>7, <2>8, <2>9, <2>10 DEF Step
<1>6. CASE ~(attempts[a].then = "enable" /\ CanEnable(jobs))
  <2>1. /\ FinalizeProvisioning(j) /\ jobs' = Completed(j)
        /\ attempts' = [attempts EXCEPT ![a] = Idle] /\ UNCHANGED <<network, dropped>>
    BY <1>6 DEF Complete
  <2>2. /\ jobs[j].owned /\ Is(j, "revoke-device") => devices' = devices \ {jobs[j].token}
        /\ jobs[j].owned /\ jobs[j].op \in Credentialed =>
             /\ SameName /\ account'.status = "active"
             /\ Is(j, "add-device") => account' = account
    BY <1>1, <1>2, <2>1, FinalizeDoes
  <2>3. Finishes(j)
    BY <1>1, <1>2, <1>3, <2>1, <2>2 DEF Finishes
  <2>4. RowsStep
    <3>1. \A i \in DOMAIN jobs : RowStep(i)
      BY <1>4, <2>1, <2>3
    <3> QED BY <1>3, <2>1, <3>1 DEF RowsStep
  <2>5. /\ account'.name = account.name /\ account'.generation = account.generation
        /\ \/ UNCHANGED <<account, devices>>
           \/ /\ jobs[j].owned /\ jobs[j].op \in Credentialed /\ Matches(jobs[j])
              /\ account'.status = "active" /\ devices' = devices \cup {j}
              /\ account' # account => jobs[j].op = "provision"
           \/ UNCHANGED account /\ devices' = devices \ {jobs[j].token}
           \/ /\ jobs[j].owned /\ jobs[j].op = "disable-account" /\ Current(jobs[j])
              /\ account'.status = "disabled" /\ devices' = {}
    BY <1>1, <1>2, <2>1, FinalizeTyped
  <2>6. AccountStep
    BY <1>2, <2>3, <2>5 DEF AccountStep, SameName, Is
  <2>7. DevicesStep
    BY <1>2, <2>3, <2>5 DEF DevicesStep
  <2>8. NetworkStep /\ AttemptsStep
    <3>1. Idle.step = "idle"
      BY DEF Idle
    <3>2. \A b \in Attempts : attempts'[b] = attempts[b] \/ attempts'[b] = Idle
      BY <1>1, <2>1 DEF TypeOK
    <3> QED BY <2>1, <3>1, <3>2 DEF NetworkStep, AttemptsStep
  <2>9. CareStep
    <3>1. ASSUME Is(j, "disable-account"), Current(jobs[j]), InUse
          PROVE  Provisions(account.name) = {}
      <4> HIDE DEF j
      <4> QED BY <1>2, <3>1, NeverBegun
    <3>2. ASSUME InUse, account' = account \/ account'.status = "active"
          PROVE  Left(account.name)
      <4>1. InUse' /\ account'.name = account.name
        BY <2>5, <3>2 DEF InUse
      <4> QED BY <4>1 DEF Left
    <3>3. InUse => Left(account.name) \/ Provisions(account.name) = {}
      BY <2>5, <3>1, <3>2 DEF Is
    <3>4. \A q \in DOMAIN jobs : ~Fails(q)
      BY <1>3, <2>1 DEF Fails, Unfinished
    <3> QED BY <2>1, <3>3, <3>4 DEF CareStep
  <2> QED BY <1>1, <2>4, <2>6, <2>7, <2>8, <2>9 DEF Step
<1> QED BY <1>5, <1>6

LEMMA SupersedeStep ==
  ASSUME Typed, Sound, NEW a \in Attempts, Supersede(a)
  PROVE  Step
<1> DEFINE j == attempts[a].job
           undo == IF Is(j, "provision") THEN "disable-account" ELSE "revoke-device"
           r == [to |-> a, op |-> undo, name |-> jobs[j].name, label |-> None,
                 token |-> IF undo = "revoke-device" THEN j ELSE None]
<1>1. /\ TypeOK /\ attempts[a].step = "answered" /\ Stale(jobs[j]) /\ Holds(a)
      /\ network' = Append(network, r)
      /\ attempts' = [attempts EXCEPT ![a] = [attempts[a] EXCEPT !.step = "compensating"]]
      /\ UNCHANGED <<account, devices, jobs, remote, dropped>>
  BY DEF Supersede, Typed, Is, database, world
<1>2. j \in DOMAIN jobs /\ jobs[j].status = "processing" /\ jobs[j].op \in Credentialed
  BY <1>1 DEF Typed, Shape, Holds, Stale
<1>3. j \in Outdated
  BY <1>1, <1>2 DEF Sound, Ready, Unfinished, Stale, Outdated
<1>4. Undoes(r)
  <2>1. Is(j, "provision") \/ Is(j, "add-device")
    BY <1>2 DEF Credentialed, Is
  <2>2. /\ r.name = jobs[j].name /\ r.label = None
        /\ \/ Is(j, "add-device") /\ r.op = "revoke-device" /\ r.token = j
           \/ Is(j, "provision") /\ r.op = "disable-account"
    BY <2>1 DEF Is
  <2> HIDE DEF r
  <2> QED BY <1>2, <1>3, <2>2 DEF Undoes
<1>5. /\ attempts'[a].step = "compensating" /\ attempts'[a].job = j
      /\ attempts'[a].then = attempts[a].then
      /\ \A b \in Attempts : b # a => attempts'[b] = attempts[b]
  BY <1>1 DEF TypeOK, Attempt
<1>6. Aims(r)
  <2>1. r.to = a /\ r.name = jobs[j].name /\ (Is(j, "provision") => r.op = "disable-account")
    OBVIOUS
  <2> HIDE DEF r
  <2> QED BY <1>1, <1>5, <2>1 DEF Aims
<1> HIDE DEF r
<1>7. NetworkStep
  BY <1>1, <1>4, <1>6 DEF NetworkStep
<1>8. AttemptsStep
  BY <1>1, <1>3, <1>5 DEF AttemptsStep
<1>9. CareStep
  <2>1. InUse => InUse'
    BY <1>1 DEF InUse
  <2> QED BY <1>1, <2>1, SameCare
<1> QED BY <1>1, <1>7, <1>8, <1>9, SameRows, SameOwner DEF Step

LEMMA FailStep ==
  ASSUME Typed, Sound, NEW a \in Attempts, attempts[a].step # "idle",
         NEW rows \in Seq(Job), Len(rows) <= MaxJobs, Keeps(jobs, rows),
         NEW stale \in BOOLEAN, stale => jobs[attempts[a].job].op \in Credentialed,
         Fail(a, rows, stale), DOMAIN rows \subseteq DOMAIN jobs \cup {Len(jobs) + 1},
         \A i \in DOMAIN jobs : rows[i] = jobs[i],
         \A i \in DOMAIN rows \ DOMAIN jobs : NewRow(rows[i]),
         stale /\ Is(attempts[a].job, "provision") =>
           \/ attempts[a].step = "compensated"
           \/ \E d \in DOMAIN rows \ DOMAIN jobs :
                /\ rows[d].op = "disable-account" /\ rows[d].status = "pending"
                /\ rows[d].name = jobs[attempts[a].job].name
  PROVE  /\ RowsStep /\ AccountStep /\ DevicesStep /\ AttemptsStep /\ UNCHANGED remote
         /\ CareStep
<1> DEFINE j == attempts[a].job
           failed == stale \/ GivenUp(rows[j])
<1>1. FailedAs(a, rows, stale)
  BY FailTyped
<1>2. j \in DOMAIN jobs /\ j \in DOMAIN rows /\ rows[j] = jobs[j]
  BY <1>1 DEF Typed, Shape, FailedAs
<1>3. /\ jobs' \in Seq(Job) /\ Len(jobs') = Len(rows)
      /\ \A i \in DOMAIN rows : i # j => jobs'[i] = rows[i]
      /\ ~Holds(a) => jobs' = rows
      /\ Holds(a) => jobs'[j].status = IF failed THEN "failed" ELSE "pending"
  BY <1>1 DEF FailedAs
<1>4. /\ SameName
      /\ account' # account =>
           /\ Holds(a) /\ failed /\ ~stale /\ Is(j, "provision") /\ Matches(jobs[j])
           /\ account'.status = "error"
  BY <1>1, <1>2 DEF FailedAs, SameName, Is
<1>5. attempts'[a].step = "idle" /\ \A b \in Attempts : b # a => attempts'[b] = attempts[b]
  BY <1>1 DEF FailedAs, Idle
<1>6. Holds(a) => jobs[j].status = "processing"
  BY DEF Holds
<1>7. failed => jobs[j].op \in Credentialed
  BY <1>2 DEF GivenUp
<1> HIDE DEF failed
<1>8. RowStep(j)
  <2>1. CASE Holds(a)
    BY <1>3, <1>6, <1>7, <2>1 DEF RowStep, Unfinished
  <2>2. CASE ~Holds(a)
    BY <1>2, <1>3, <2>2 DEF RowStep
  <2> QED BY <2>1, <2>2
<1>9. RowsStep
  <2>1. \A i \in DOMAIN jobs : RowStep(i)
    <3> TAKE i \in DOMAIN jobs
    <3>1. i \in DOMAIN rows
      BY DEF Keeps, Typed, TypeOK
    <3>2. CASE i = j
      BY <1>8, <3>2
    <3>3. CASE i # j
      BY <1>3, <3>1, <3>3 DEF RowStep
    <3> QED BY <3>2, <3>3
  <2>2. DOMAIN jobs' = DOMAIN rows
    BY <1>3
  <2>3. \A i \in DOMAIN jobs' \ DOMAIN jobs : NewRow(jobs'[i])
    BY <1>2, <1>3, <2>2
  <2> QED BY <2>1, <2>2, <2>3 DEF RowsStep
<1>10. AccountStep
  <2>1. CASE account' = account
    BY <2>1 DEF AccountStep
  <2>2. CASE account' # account
    <3>1. /\ SameName /\ account'.status = "error" /\ Is(j, "provision") /\ Matches(jobs[j])
          /\ jobs'[j].status = "failed"
      BY <1>3, <1>4, <2>2
    <3> QED BY <1>2, <3>1 DEF AccountStep
  <2> QED BY <2>1, <2>2
<1>11. DevicesStep /\ UNCHANGED remote
  BY <1>1 DEF FailedAs, DevicesStep
<1>12. AttemptsStep
  BY <1>5 DEF AttemptsStep
<1>13. ASSUME NEW q \in DOMAIN jobs, Fails(q)
       PROVE  \/ Left(jobs[q].name)
              \/ attempts[a].job = q /\ Holds(a) /\ attempts[a].step = "compensated"
  <2>1. q \in DOMAIN rows
    BY DEF Keeps, Typed, TypeOK
  <2>2. q = j /\ Holds(a) /\ failed
    BY <1>2, <1>3, <1>13, <2>1 DEF Fails, Unfinished
  <2>3. Is(j, "provision")
    BY <1>13, <2>2 DEF Fails
  <2>4. CASE stale
    <3>1. ASSUME NEW d \in DOMAIN rows \ DOMAIN jobs, rows[d].op = "disable-account",
                 rows[d].status = "pending", rows[d].name = jobs[j].name
          PROVE  Left(jobs[j].name)
      <4>1. d \in DOMAIN jobs' /\ jobs'[d] = rows[d]
        BY <1>2, <1>3
      <4> QED BY <3>1, <4>1 DEF Left, NewRemoval
    <3> QED BY <2>2, <2>3, <2>4, <3>1
  <2>5. CASE ~stale /\ Stale(jobs[j])
    <3>1. GivenUp(rows[j])
      BY <2>2, <2>5 DEF failed
    <3>2. jobs[j].name \in dropped'
      BY <1>2, <2>2, <2>3, <2>5, <3>1 DEF Fail, Is
    <3> QED BY <2>2, <3>2 DEF Left
  <2>6. CASE ~stale /\ ~Stale(jobs[j])
    <3>1. Matches(jobs[j])
      BY <1>2, <2>3, <2>6 DEF Stale, Sound, Named, Is, Credentialed
    <3>2. account' = [account EXCEPT !.status = "error"]
      <4>1. failed = (stale \/ GivenUp(rows[j]))
        BY DEF failed
      <4> HIDE DEF j
      <4> QED BY <1>2, <2>2, <2>3, <2>6, <3>1, <4>1 DEF Fail, Is, j
    <3>3. account'.status = "error" /\ account'.name = jobs[j].name
      BY <1>4, <3>1, <3>2 DEF Matches, Current, SameName, Typed, TypeOK, Account
    <3> QED BY <2>2, <3>3 DEF Left, InUse
  <2> QED BY <2>4, <2>5, <2>6
<1>14. CareStep
  <2>1. dropped \subseteq dropped'
    BY DEF Fail
  <2>2. InUse => Left(account.name)
    BY <1>4 DEF InUse, Left, SameName
  <2> QED BY <1>13, <2>1, <2>2 DEF CareStep
<1> QED BY <1>9, <1>10, <1>11, <1>12, <1>14

LEMMA LostStep ==
  ASSUME Typed, Sound, NEW a \in Attempts, LoseLease(a) \/ GiveUp(a)
  PROVE  Step
<1>1. /\ attempts[a].step # "idle" /\ Fail(a, jobs, FALSE)
      /\ network' = network \/ network' = Abandoned({a})
  BY DEF LoseLease, GiveUp, Abandon
<1>2. jobs \in Seq(Job) /\ Len(jobs) <= MaxJobs /\ Keeps(jobs, jobs)
  BY KeepsSelf DEF Typed, TypeOK
<1>3. RowsStep /\ AccountStep /\ DevicesStep /\ AttemptsStep /\ UNCHANGED remote /\ CareStep
  BY <1>1, <1>2, FailStep
<1>4. NetworkStep
  BY <1>1 DEF NetworkStep
<1> QED BY <1>3, <1>4 DEF Step

LEMMA UndoneStep ==
  ASSUME Typed, Sound, NEW a \in Attempts, Undone(a)
  PROVE  Step
<1>1. /\ attempts[a].step = "compensated" /\ Fail(a, jobs, TRUE) /\ UNCHANGED network
  BY DEF Undone
<1>2. jobs \in Seq(Job) /\ Len(jobs) <= MaxJobs /\ Keeps(jobs, jobs)
  BY KeepsSelf DEF Typed, TypeOK
<1>3. jobs[attempts[a].job].op \in Credentialed
  BY <1>1 DEF Sound, Undoing, Outdated
<1>4. RowsStep /\ AccountStep /\ DevicesStep /\ AttemptsStep /\ UNCHANGED remote /\ CareStep
  BY <1>1, <1>2, <1>3, FailStep
<1>5. NetworkStep
  BY <1>1 DEF NetworkStep
<1> QED BY <1>4, <1>5 DEF Step

LEMMA GiveUpUndoStep ==
  ASSUME Typed, Sound, NEW a \in Attempts, GiveUpUndo(a)
  PROVE  Step
<1> DEFINE j == attempts[a].job
           rows == UndoLater(j)
           undo == IF jobs[j].op = "provision" THEN "disable-account" ELSE "revoke-device"
           token == IF undo = "revoke-device" THEN j ELSE None
           job == NewJob(undo, FALSE, jobs[j].name, None, token)
<1>1. /\ attempts[a].step = "compensating" /\ Len(rows) <= MaxJobs
      /\ Fail(a, rows, TRUE) /\ network' = Abandoned({a}) /\ TypeOK
  BY DEF GiveUpUndo, Abandon, Typed
<1>2. j \in DOMAIN jobs /\ jobs \in Seq(Job)
  BY <1>1 DEF Typed, TypeOK, Shape
<1>3. Added(jobs, job, rows)
  BY <1>1, <1>2, UndoLaterTyped
<1>4. j \in Outdated
  BY <1>1 DEF Sound, Undoing
<1>5. account' = account
  BY <1>1 DEF Fail
<1>6. NewRow(job)
  <2>1. jobs[j].op \in {"provision", "add-device"}
    BY <1>4 DEF Outdated, Credentialed
  <2>2. CASE Is(j, "provision")
    <3>1. /\ job.op = "disable-account" /\ job.generation = None /\ job.name = jobs[j].name
          /\ job.status = "pending"
      BY <2>2 DEF Is, NewJob
    <3> HIDE DEF job
    <3> QED BY <1>2, <1>4, <1>5, <2>2, <3>1 DEF NewRow
  <2>3. CASE ~Is(j, "provision")
    <3>1. /\ job.op = "revoke-device" /\ ~job.owned /\ job.token = j /\ job.name = jobs[j].name
          /\ job.status = "pending" /\ job.generation = None
      BY <2>3 DEF Is, NewJob
    <3> HIDE DEF job
    <3> QED BY <1>2, <1>4, <1>5, <3>1 DEF NewRow
  <2> QED BY <2>2, <2>3
<1> HIDE DEF rows, job
<1>7. /\ rows \in Seq(Job) /\ Keeps(jobs, rows)
      /\ DOMAIN rows \subseteq DOMAIN jobs \cup {Len(jobs) + 1}
      /\ \A i \in DOMAIN jobs : rows[i] = jobs[i]
      /\ \A i \in DOMAIN rows \ DOMAIN jobs : rows[i] = job
  BY <1>2, <1>3 DEF Added
<1>8. jobs[j].op \in Credentialed
  BY <1>4 DEF Outdated
<1>9. RowsStep /\ AccountStep /\ DevicesStep /\ AttemptsStep /\ UNCHANGED remote /\ CareStep
  <2>1. Is(j, "provision") =>
          job.op = "disable-account" /\ job.status = "pending" /\ job.name = jobs[j].name
    BY DEF Is, NewJob, job
  <2>2. Len(jobs) + 1 \in DOMAIN rows \ DOMAIN jobs
    BY <1>2, <1>3 DEF Added
  <2>3. Is(j, "provision") =>
          \E d \in DOMAIN rows \ DOMAIN jobs :
            /\ rows[d].op = "disable-account" /\ rows[d].status = "pending"
            /\ rows[d].name = jobs[j].name
    BY <1>7, <2>1, <2>2
  <2> QED BY <1>1, <1>6, <1>7, <1>8, <2>3, FailStep
<1>10. NetworkStep
  BY <1>1 DEF NetworkStep
<1> QED BY <1>9, <1>10 DEF Step

\* The job that removes an account, of the name and generation it has then.
LEMMA RemovalStep ==
  ASSUME Typed, InUse, NEW rows \in Seq(Job), Len(rows) = Len(jobs), DOMAIN rows = DOMAIN jobs,
         account' = DisabledAccount, devices' = {}, jobs' = WithRemoval(rows)
  PROVE  /\ AccountStep /\ DevicesStep
         /\ DOMAIN jobs' \subseteq DOMAIN jobs \cup {Len(jobs) + 1}
         /\ \A i \in DOMAIN jobs : jobs'[i] = rows[i]
         /\ \A i \in DOMAIN jobs' \ DOMAIN jobs : NewRow(jobs'[i])
         /\ NewRemoval(account.name)
<1> DEFINE job == NewJob("disable-account", TRUE, account.name, account.generation + 1, None)
<1>1. /\ account'.status = "disabled" /\ account'.name = account.name
      /\ account'.generation = account.generation + 1
  BY DisabledTyped DEF Typed
<1>2. Added(rows, job, jobs')
  BY RemovalTyped
<1>3. NewRow(job)
  <2>1. /\ job.status = "pending" /\ job.op = "disable-account" /\ job.name = account.name
        /\ job.generation = account.generation + 1
    BY DEF NewJob
  <2> HIDE DEF job
  <2> QED BY <1>1, <2>1 DEF NewRow
<1>5. job.op = "disable-account" /\ job.status = "pending" /\ job.name = account.name
  BY DEF NewJob
<1> HIDE DEF job
<1>6. NewRemoval(account.name)
  <2>1. Len(jobs) + 1 \in DOMAIN jobs' \ DOMAIN jobs /\ jobs'[Len(jobs) + 1] = job
    BY <1>2 DEF Added, Typed, TypeOK
  <2> QED BY <1>5, <2>1 DEF NewRemoval
<1>4. /\ DOMAIN jobs' \subseteq DOMAIN jobs \cup {Len(jobs) + 1}
      /\ \A i \in DOMAIN jobs : jobs'[i] = rows[i]
      /\ \A i \in DOMAIN jobs' \ DOMAIN jobs : jobs'[i] = job
  BY <1>2 DEF Added
<1> QED BY <1>1, <1>3, <1>4, <1>6 DEF AccountStep, DevicesStep

LEMMA DeleteNtfyStep ==
  ASSUME Typed, DeleteNtfy
  PROVE  Step
<1>1. /\ InUse /\ account' = DisabledAccount /\ devices' = {}
      /\ jobs' = WithRemoval(SupersededRows)
      /\ UNCHANGED <<attempts, network, remote>>
  BY DEF DeleteNtfy, SupersededRows
<1>2. /\ SupersededRows \in Seq(Job) /\ Len(SupersededRows) = Len(jobs)
      /\ DOMAIN SupersededRows = DOMAIN jobs
  BY SupersededTyped DEF Typed
<1>3. /\ AccountStep /\ DevicesStep
      /\ DOMAIN jobs' \subseteq DOMAIN jobs \cup {Len(jobs) + 1}
      /\ \A i \in DOMAIN jobs : jobs'[i] = SupersededRows[i]
      /\ \A i \in DOMAIN jobs' \ DOMAIN jobs : NewRow(jobs'[i])
      /\ NewRemoval(account.name)
  BY <1>1, <1>2, RemovalStep
<1>4. \A i \in DOMAIN jobs : RowStep(i)
  <2> TAKE i \in DOMAIN jobs
  <2>1. CASE jobs[i].op \in Credentialed /\ Unfinished(i)
    <3>1. jobs'[i].status = "failed"
      BY <1>3, <2>1, SupersededTyped DEF Typed
    <3> QED BY <2>1, <3>1 DEF RowStep
  <2>2. CASE ~(jobs[i].op \in Credentialed /\ Unfinished(i))
    <3>1. jobs'[i] = jobs[i]
      BY <1>3, <2>2 DEF SupersededRows
    <3> QED BY <3>1 DEF RowStep
  <2> QED BY <2>1, <2>2
<1>5. CareStep
  <2>1. dropped' = dropped \cup
          ({jobs[i].name : i \in {k \in DOMAIN jobs : jobs[k].op = "provision" /\ Unfinished(k)}}
             \ {account.name})
    BY DEF DeleteNtfy
  <2>2. ASSUME NEW q \in DOMAIN jobs, Fails(q)
        PROVE  Left(jobs[q].name)
    BY <1>3, <2>1, <2>2 DEF Fails, Is, Left
  <2> QED BY <1>3, <2>1, <2>2 DEF CareStep, Left
<1> QED BY <1>1, <1>3, <1>4, <1>5, SameCalls DEF Step, RowsStep

LEMMA PatchUserStep ==
  ASSUME Typed, NEW disabled \in BOOLEAN, PatchUser(disabled)
  PROVE  Step
<1>1. UNCHANGED <<attempts, network, remote, dropped>>
  BY DEF PatchUser, world
<1>2. CASE disabled /\ enabled /\ InUse
  <2>1. account' = DisabledAccount /\ devices' = {} /\ jobs' = WithRemoval(jobs) /\ jobs \in Seq(Job)
    BY <1>2 DEF PatchUser, Typed, TypeOK
  <2>2. /\ AccountStep /\ DevicesStep
        /\ DOMAIN jobs' \subseteq DOMAIN jobs \cup {Len(jobs) + 1}
        /\ \A i \in DOMAIN jobs : jobs'[i] = jobs[i]
        /\ \A i \in DOMAIN jobs' \ DOMAIN jobs : NewRow(jobs'[i])
        /\ NewRemoval(account.name)
    BY <1>2, <2>1, RemovalStep
  <2>3. CareStep
    BY <1>1, <2>2 DEF CareStep, Left, Fails, Unfinished
  <2> QED BY <1>1, <2>2, <2>3, SameCalls DEF Step, RowsStep, RowStep
<1>3. CASE ~(disabled /\ enabled /\ InUse)
  <2>1. UNCHANGED <<account, devices, jobs>> /\ (InUse => InUse')
    BY <1>3 DEF PatchUser, InUse
  <2>2. CareStep
    BY <1>1, <2>1, SameCare
  <2> QED BY <1>1, <2>1, <2>2, SameRows, SameOwner, SameCalls DEF Step
<1> QED BY <1>2, <1>3

LEMMA ResumeStep ==
  ASSUME Typed, NEW a \in Attempts, ~Waits(a), NEW j \in DOMAIN jobs, ResumeProvisionJob(a, j),
         jobs[j].op \in Credentialed, Current(jobs[j]),
         ~Is(j, "provision") => account.status = "active", UNCHANGED <<remote, dropped>>
  PROVE  Step
<1>1. /\ Process(a, Resumed(j), j, "nothing") /\ UNCHANGED devices
      /\ account' = IF jobs[j].op = "provision" THEN [account EXCEPT !.status = "pending"] ELSE account
      /\ jobs[j].op = "provision" => account.status \in {"pending", "error"}
      /\ jobs[j].status \in {"pending", "failed"}
  BY DEF ResumeProvisionJob, Resumed, Resumable
<1>2. TypeOK /\ account \in Account /\ Len(jobs) <= MaxJobs /\ jobs \in Seq(Job)
  BY DEF Typed, TypeOK
<1>3. /\ Resumed(j) \in Seq(Job) /\ Len(Resumed(j)) <= MaxJobs /\ Keeps(jobs, Resumed(j))
      /\ DOMAIN Resumed(j) = DOMAIN jobs /\ "nothing" \in Thens /\ Len(Resumed(j)) = Len(jobs)
      /\ \A i \in DOMAIN jobs : i # j => Resumed(j)[i] = jobs[i]
  BY <1>2, ResumedTyped DEF Thens
<1>4. /\ Sending(a, j) /\ NetworkStep /\ AttemptsStep
      /\ jobs' \in Seq(Job) /\ Len(jobs') = Len(Resumed(j)) /\ jobs'[j].status = "processing"
      /\ \A i \in DOMAIN Resumed(j) : i # j => jobs'[i] = Resumed(j)[i]
  BY <1>1, <1>3, SendStep
<1>5. SameName /\ account'.status = IF Is(j, "provision") THEN "pending" ELSE "active"
  BY <1>1, <1>2 DEF Account, SameName, Is
<1>6. RowsStep
  <2>1. Resumes(j)
    BY <1>1, <1>5 DEF Resumes
  <2>2. \A i \in DOMAIN jobs : RowStep(i)
    BY <1>3, <1>4, <2>1 DEF RowStep
  <2>3. DOMAIN jobs' = DOMAIN jobs
    BY <1>2, <1>3, <1>4
  <2> QED BY <2>2, <2>3 DEF RowsStep
<1>7. AccountStep
  <2>1. CASE Is(j, "provision")
    <3>1. SameName /\ account.status \in {"pending", "error"} /\ account'.status = "pending"
      BY <1>1, <1>5, <2>1 DEF Is
    <3> QED BY <1>1, <2>1, <3>1 DEF AccountStep
  <2>2. CASE ~Is(j, "provision")
    BY <1>1, <2>2 DEF AccountStep, Is
  <2> QED BY <2>1, <2>2
<1>8. CareStep
  <2>1. \A q \in DOMAIN jobs : jobs[q].status # "failed" => jobs'[q].status # "failed"
    BY <1>3, <1>4
  <2>2. InUse => InUse' /\ account'.name = account.name
    BY <1>5 DEF InUse, SameName
  <2> QED BY <2>1, <2>2, SameCare
<1> QED BY <1>1, <1>4, <1>6, <1>7, <1>8 DEF Step, DevicesStep

\* A row made by a route.
LEMMA CreateStep ==
  ASSUME Typed, NEW a \in Attempts, ~Waits(a), NEW op \in Operations, NEW name \in Names,
         NEW generation \in Nat, NEW token \in 0..MaxJobs, NEW then \in Thens,
         then = "enable" => op = "disable-account",
         CreateProvisionJob(a, op, name, generation, token, then),
         \A job : Made(job, op, TRUE, name, generation, token) => NewRow(job),
         UNCHANGED <<account, devices, remote, dropped>>
  PROVE  Step
<1>1. jobs \in Seq(Job) /\ Keeps(jobs, jobs)
  BY KeepsSelf DEF Typed, TypeOK
<1>2. /\ NetworkStep /\ AttemptsStep
      /\ DOMAIN jobs' \subseteq DOMAIN jobs \cup {Len(jobs) + 1}
      /\ \A i \in DOMAIN jobs : jobs'[i] = jobs[i]
      /\ \A i \in DOMAIN jobs' \ DOMAIN jobs : Made(jobs'[i], op, TRUE, name, generation, token)
  BY <1>1, MakeStep DEF CreateProvisionJob
<1>3. RowsStep
  BY <1>2 DEF RowsStep, RowStep
<1>4. CareStep
  <2>1. InUse => InUse'
    BY DEF InUse
  <2> QED BY <1>2, <2>1, SameCare
<1> QED BY <1>2, <1>3, <1>4, SameOwner DEF Step

\* The clean-up before a new name is for an account that has no job.
LEMMA Unbegun ==
  ASSUME Typed, Sound, account.status \in {"pending", "error"},
         \A j \in LatestJob("provision") : j \notin Resumable /\ ~Underway(j)
  PROVE  ~Begun
<1> SUFFICES ASSUME NEW p \in Provisions(account.name)
             PROVE  FALSE
  BY DEF Begun
<1>1. TypeOK /\ InUse /\ jobs \in Seq(Job)
  BY DEF Typed, TypeOK, InUse
<1>2. p \in DOMAIN jobs /\ Is(p, "provision") /\ jobs[p].name = account.name
  BY DEF Provisions, Is
<1>3. jobs[p].owned /\ Current(jobs[p])
  BY <1>1, <1>2 DEF Sound, Named, AccountSound, Is, Credentialed, Current
<1>4. p \in LatestJob("provision")
  <2>1. ASSUME NEW k \in (p + 1)..Len(jobs), Is(k, "provision"), Current(jobs[k])
        PROVE  FALSE
    <3>1. k \in DOMAIN jobs /\ k # p
      BY <1>1, <1>2
    <3> QED BY <1>2, <2>1, <3>1 DEF Sound, OneProvision, Current
  <2> QED BY <1>2, <1>3, <2>1 DEF LatestJob, Is
<1>5. jobs[p].status # "completed"
  BY <1>1 DEF Sound, AccountSound
<1>6. jobs[p].status \in {"pending", "processing", "completed", "failed"}
  <2>1. jobs[p] \in Job
    BY <1>1, <1>2
  <2> QED BY <2>1 DEF Job
<1> QED BY <1>2, <1>4, <1>5, <1>6 DEF Resumable, Underway

LEMMA PostEnableStep ==
  ASSUME Typed, Sound, NEW a \in Attempts, PostEnable(a)
  PROVE  Step
<1> DEFINE latest == LatestJob("provision")
<1>1. ~Waits(a) /\ UNCHANGED <<remote, dropped>> /\ TypeOK /\ jobs \in Seq(Job)
  BY DEF PostEnable, Waits, Idle, world, Typed, TypeOK
<1>2. ASSUME NEW j \in latest, ResumeProvisionJob(a, j)
      PROVE  Step
  <2>1. j \in DOMAIN jobs /\ Is(j, "provision") /\ Current(jobs[j]) /\ jobs[j].op \in Credentialed
    BY <1>2 DEF LatestJob, Is, Credentialed
  <2> QED BY <1>1, <1>2, <2>1, ResumeStep
<1>3. ASSUME account.status \in {"pending", "error"},
             \A j \in latest : j \notin Resumable /\ ~Underway(j),
             CreateProvisionJob(a, "disable-account", account.name, account.generation, None, "enable"),
             UNCHANGED <<account, devices>>
      PROVE  Step
  <2>1. /\ "disable-account" \in Operations /\ account.name \in Names /\ account.generation \in Nat
        /\ None \in 0..MaxJobs /\ "enable" \in Thens
    BY <1>1, <1>3, Bounds, AccountColumns DEF Typed, Shape, Operations, None, Thens
  <2>2. ~Begun
    BY <1>3, Unbegun
  <2>3. \A job : Made(job, "disable-account", TRUE, account.name, account.generation, None) =>
                   NewRow(job)
    BY <1>3, <2>2 DEF Made, NewRow
  <2> QED BY <1>1, <1>3, <2>1, <2>3, CreateStep
<1>4. ASSUME CanEnable(jobs), ThenEnable(a, account, jobs), UNCHANGED devices,
             account.status \in {"none", "disabled"}
      PROVE  Step
  <2> DEFINE row == Upsert(account)
             more == Queued(jobs, "provision", TRUE, account.name + 1, row.generation, None)
  <2>1. account' = row /\ Process(a, more, Len(more), "nothing")
    BY <1>4 DEF ThenEnable
  <2>2. /\ account.name + 1 \in Names /\ row.generation \in Nat /\ row.status = "pending"
        /\ row.name = account.name + 1 /\ None \in 0..MaxJobs /\ "provision" \in Operations
        /\ "nothing" \in Thens /\ TRUE \in BOOLEAN
    BY <1>1, <1>4, UpsertTyped, Bounds DEF CanEnable, None, Operations, Credentialed, Thens
  <2>3. Len(more) <= MaxJobs
    <3>1. Len(more) = Len(jobs) + 1
      <4>1. Added(jobs, NewJob("provision", TRUE, account.name + 1, row.generation, None), more)
        BY <1>1, <2>2, QueuedTyped
      <4> HIDE DEF more, row
      <4> QED BY <4>1 DEF Added
    <3>2. Len(jobs) < MaxJobs /\ Len(jobs) \in Nat /\ MaxJobs \in Nat
      BY <1>1, <1>4, AccountColumns DEF CanEnable
    <3> HIDE DEF more
    <3> QED BY <3>1, <3>2
  <2>4. /\ NetworkStep /\ AttemptsStep
        /\ DOMAIN jobs' \subseteq DOMAIN jobs \cup {Len(jobs) + 1}
        /\ \A i \in DOMAIN jobs : jobs'[i] = jobs[i]
        /\ \A i \in DOMAIN jobs' \ DOMAIN jobs :
             Made(jobs'[i], "provision", TRUE, account.name + 1, row.generation, None)
    <3>1. Keeps(jobs, jobs)
      BY <1>1, KeepsSelf
    <3> HIDE DEF row
    <3> QED BY <1>1, <2>1, <2>2, <2>3, <3>1, MakeStep
  <2> HIDE DEF row, more
  <2>5. \A i \in DOMAIN jobs' \ DOMAIN jobs : NewRow(jobs'[i])
    BY <2>1, <2>2, <2>4 DEF Made, NewRow
  <2>6. CareStep
    <3>1. ~InUse
      BY <1>4 DEF InUse
    <3> QED BY <1>1, <2>4, <3>1, SameCare
  <2> QED BY <1>1, <1>4, <2>1, <2>2, <2>4, <2>5, <2>6
         DEF Step, RowsStep, RowStep, AccountStep, DevicesStep
<1> QED BY <1>2, <1>3, <1>4 DEF PostEnable

LEMMA PostDeviceStep ==
  ASSUME Typed, NEW a \in Attempts, PostDevice(a)
  PROVE  Step
<1> DEFINE latest == LatestJob("add-device")
<1>1. ~Waits(a) /\ UNCHANGED <<remote, dropped>> /\ TypeOK /\ account.status = "active"
  BY DEF PostDevice, Waits, Idle, world, Typed
<1>2. ASSUME NEW j \in latest, ResumeProvisionJob(a, j)
      PROVE  Step
  <2>1. j \in DOMAIN jobs /\ Current(jobs[j]) /\ jobs[j].op \in Credentialed
    BY <1>2 DEF LatestJob, Credentialed
  <2> QED BY <1>1, <1>2, <2>1, ResumeStep
<1>3. ASSUME CreateProvisionJob(a, "add-device", account.name, account.generation, None, "nothing"),
             UNCHANGED <<account, devices>>
      PROVE  Step
  <2>1. /\ "add-device" \in Operations /\ account.name \in Names /\ account.generation \in Nat
        /\ None \in 0..MaxJobs /\ "nothing" \in Thens
    BY <1>1, Bounds, AccountColumns DEF Typed, Shape, Operations, Credentialed, None, Thens
  <2>2. \A job : Made(job, "add-device", TRUE, account.name, account.generation, None) =>
                   NewRow(job)
    BY <1>1, <1>3 DEF Made, NewRow
  <2> QED BY <1>1, <1>3, <2>1, <2>2, CreateStep
<1> QED BY <1>2, <1>3 DEF PostDevice

LEMMA DeleteDeviceStep ==
  ASSUME Typed, NEW a \in Attempts, DeleteDevice(a)
  PROVE  Step
<1>1. ~Waits(a) /\ UNCHANGED <<account, devices, remote, dropped>> /\ TypeOK
  BY DEF DeleteDevice, Waits, Idle, world, Typed
<1>2. PICK device \in devices :
        CreateProvisionJob(a, "revoke-device", account.name, None, device, "nothing")
  BY DEF DeleteDevice
<1>3. /\ "revoke-device" \in Operations /\ account.name \in Names /\ None \in Nat
      /\ device \in 0..MaxJobs /\ "nothing" \in Thens
  BY <1>1, Bounds DEF Typed, Shape, TypeOK, Operations, None, Thens, JobIds
<1>4. \A job : Made(job, "revoke-device", TRUE, account.name, None, device) => NewRow(job)
  BY <1>1 DEF Made, NewRow
<1> QED BY <1>1, <1>2, <1>3, <1>4, CreateStep

\* Every step but those of the provisioner.
Served == \E i \in DOMAIN network : Execute(i) \/ ExecutionFails(i)

LEMMA NextStep ==
  ASSUME Typed, Sound, Next, ~Served
  PROVE  Step
<1>1. ASSUME NEW a \in Attempts, Route(a) PROVE Step
  BY <1>1, PostEnableStep, PostDeviceStep, DeleteDeviceStep DEF Route
<1>2. ASSUME NEW a \in Attempts, Outcome(a) PROVE Step
  BY <1>2, CompleteStep, SupersedeStep, LostStep, GiveUpUndoStep, UndoneStep DEF Outcome
<1> QED
  BY <1>1, <1>2, TickStep, LeaseExpiresStep, AcknowledgeStep, DeleteNtfyStep, EnableDiesStep,
     CrashStep, PatchUserStep DEF Next, Served

-----------------------------------------------------------------------------
(* A step of the server keeps what is sound.                               *)

LEMMA OldRow ==
  ASSUME Typed, Moves, NEW j \in DOMAIN jobs
  PROVE  /\ j \in DOMAIN jobs' /\ Fixed(jobs[j], jobs'[j])
         /\ jobs[j] \in Job /\ jobs'[j] \in Job
<1>1. jobs \in Seq(Job) /\ jobs' \in Seq(Job) /\ Keeps(jobs, jobs')
  BY DEF Typed, TypeOK, Moves, JobsMove
<1> QED BY <1>1 DEF Keeps

LEMMA StaysCompleted ==
  ASSUME RowsStep, NEW j \in DOMAIN jobs, jobs[j].status = "completed"
  PROVE  jobs'[j].status = "completed"
BY DEF RowsStep, RowStep, Finishes, Resumes, Unfinished

LEMMA NowCompleted ==
  ASSUME RowsStep, NEW j \in DOMAIN jobs, jobs[j].status # "completed", jobs'[j].status = "completed"
  PROVE  Finishes(j)
BY DEF RowsStep, RowStep, Sending

\* The account never comes back to a name and a generation.
LEMMA CurrentBefore ==
  ASSUME Typed, Moves, Named, NEW j \in DOMAIN jobs, jobs'[j].name = account'.name
  PROVE  /\ account'.name = account.name /\ jobs[j].name = account.name
         /\ jobs'[j].generation = account'.generation => SameName /\ Current(jobs[j])
<1>1. /\ jobs'[j].name = jobs[j].name /\ jobs'[j].generation = jobs[j].generation
      /\ jobs[j].name \in Nat /\ jobs[j].generation \in Nat
  BY OldRow DEF Fixed, Job, Names
<1>2. jobs[j].name <= account.name /\ account.name \in Nat /\ account.generation \in Nat
      /\ account'.generation \in Nat
  BY AccountColumns DEF Named, Typed, Moves, AccountMoves, Account
<1>3. account'.name = account.name /\ account'.generation >= account.generation
  BY <1>1, <1>2 DEF Moves, AccountMoves
<1>4. jobs[j].name = account.name /\ jobs[j].generation <= account.generation
  BY <1>1, <1>3 DEF Named
<1> QED BY <1>1, <1>2, <1>3, <1>4 DEF SameName, Current

LEMMA OutdatedStays ==
  ASSUME Typed, Moves, Named, RowsStep
  PROVE  Outdated \subseteq Outdated'
<1> SUFFICES ASSUME NEW j \in DOMAIN jobs, j \in Outdated
             PROVE  j \in Outdated'
  BY DEF Outdated
<1>1. j \in DOMAIN jobs' /\ jobs'[j].op \in Credentialed
  BY OldRow DEF Outdated, Fixed
<1>2. ~Current(jobs[j])'
  BY CurrentBefore DEF Outdated, Current
<1>3. jobs'[j].status # "completed"
  <2>1. jobs[j].status # "completed" /\ jobs[j].owned
    BY DEF Outdated, Named
  <2>2. ~Finishes(j)
    BY <2>1 DEF Outdated, Finishes, Stale, Matches
  <2> QED BY <2>1, <2>2, NowCompleted
<1> QED BY <1>1, <1>2, <1>3 DEF Outdated

LEMMA NamedKept ==
  ASSUME Typed, Moves, Sound, RowsStep
  PROVE  Named'
<1>1. ASSUME NEW j \in DOMAIN jobs
      PROVE  /\ jobs'[j].name <= account'.name
             /\ jobs'[j].name = account'.name => jobs'[j].generation <= account'.generation
             /\ jobs'[j].op \in Credentialed => jobs'[j].owned
  <2>1. /\ Fixed(jobs[j], jobs'[j]) /\ jobs[j].name \in Nat /\ jobs[j].generation \in Nat
    BY OldRow DEF Job, Names
  <2>2. /\ jobs[j].name <= account.name
        /\ jobs[j].name = account.name => jobs[j].generation <= account.generation
        /\ jobs[j].op \in Credentialed => jobs[j].owned
    BY DEF Sound, Named
  <2>3. account.name \in Nat /\ account.generation \in Nat /\ account'.generation \in Nat
    BY AccountColumns DEF Typed, Moves, AccountMoves, Account
  <2> QED BY <2>1, <2>2, <2>3 DEF Fixed, Moves, AccountMoves
<1>2. ASSUME NEW j \in DOMAIN jobs' \ DOMAIN jobs
      PROVE  /\ jobs'[j].name <= account'.name
             /\ jobs'[j].name = account'.name => jobs'[j].generation <= account'.generation
             /\ jobs'[j].op \in Credentialed => jobs'[j].owned
  <2>1. NewRow(jobs'[j])
    BY DEF RowsStep
  <2>2. /\ account.name \in Nat /\ account.generation \in Nat
        /\ account'.name \in Nat /\ account'.generation \in Nat
    BY AccountColumns DEF Typed, Moves, AccountMoves, Account
  <2>3. \A k \in DOMAIN jobs : jobs[k].name <= account.name
    BY DEF Sound, Named
  <2> QED BY <2>1, <2>2, <2>3 DEF NewRow, Credentialed, None
<1> QED BY <1>1, <1>2 DEF Named

LEMMA OneProvisionKept ==
  ASSUME Typed, Moves, Sound, RowsStep
  PROVE  OneProvision'
<1>1. ASSUME NEW i \in DOMAIN jobs
      PROVE  /\ jobs'[i].op = jobs[i].op /\ jobs'[i].name = jobs[i].name
             /\ jobs[i].name \in Nat /\ jobs[i].name <= account.name
  BY OldRow DEF Fixed, Job, Names, Sound, Named
<1>2. ASSUME NEW i \in DOMAIN jobs' \ DOMAIN jobs, jobs'[i].op = "provision"
      PROVE  jobs'[i].name = account.name + 1 /\ i = Len(jobs) + 1
  BY <1>2 DEF RowsStep, NewRow
<1>3. account.name \in Nat
  BY AccountColumns DEF Typed
<1> SUFFICES ASSUME NEW i \in DOMAIN jobs', NEW j \in DOMAIN jobs', jobs'[i].op = "provision",
                    jobs'[j].op = "provision", jobs'[i].name = jobs'[j].name
             PROVE  i = j
  BY DEF OneProvision, Is
<1>4. CASE i \in DOMAIN jobs /\ j \in DOMAIN jobs
  BY <1>1, <1>4 DEF Sound, OneProvision, Is
<1>5. CASE i \in DOMAIN jobs /\ j \notin DOMAIN jobs
  BY <1>1, <1>2, <1>3, <1>5
<1>6. CASE i \notin DOMAIN jobs /\ j \in DOMAIN jobs
  BY <1>1, <1>2, <1>3, <1>6
<1>7. CASE i \notin DOMAIN jobs /\ j \notin DOMAIN jobs
  BY <1>2, <1>7
<1> QED BY <1>4, <1>5, <1>6, <1>7

\* Two provisions of the present name are one.
LEMMA TheProvision ==
  ASSUME Sound, NEW p \in DOMAIN jobs, NEW q \in DOMAIN jobs, Is(p, "provision"),
         Is(q, "provision"), jobs[p].name = account.name, jobs[q].name = account.name
  PROVE  p = q
BY DEF Sound, OneProvision

\* The account stays as the job expects it, until the job is done.
LEMMA StaysReady ==
  ASSUME Sound, AccountStep, SameName, account.name \in Nat, account.generation \in Nat,
         NEW j \in DOMAIN jobs, jobs[j].op \in Credentialed,
         Unfinished(j), Matches(jobs[j]), Unfinished(j)'
  PROVE  account'.status = IF Is(j, "provision") THEN "pending" ELSE "active"
<1>1. /\ account.status = IF Is(j, "provision") THEN "pending" ELSE "active"
      /\ jobs[j].name = account.name
  BY DEF Matches, Current, Is
<1>2. Begun
  BY <1>1 DEF Begun, InUse, Provisions, Is
<1>3. \A p \in DOMAIN jobs : Is(p, "provision") /\ Current(jobs[p]) /\ account.status # "active" => p = j
  BY <1>1, TheProvision DEF Current
<1>4. jobs'[j].status \notin {"completed", "failed"}
  BY DEF Unfinished
<1>5. ASSUME NEW p \in DOMAIN jobs, Is(p, "provision"), Matches(jobs[p])
      PROVE  p = j
  BY <1>3, <1>5 DEF Matches, Is
<1>6. ASSUME NEW d \in DOMAIN jobs, Is(d, "disable-account"), Current(jobs[d])
      PROVE  FALSE
  BY <1>2, <1>6 DEF Sound, AccountSound, NoJob, Current
<1>7. ASSUME account.status \in {"pending", "error"}, account'.status = "pending"
      PROVE  account'.status = IF Is(j, "provision") THEN "pending" ELSE "active"
  BY <1>1, <1>7
<1>8. \/ account' = account
      \/ account.status \in {"pending", "error"} /\ account'.status = "pending"
  BY <1>4, <1>5, <1>6 DEF AccountStep, SameName, Finishes
<1> QED BY <1>1, <1>7, <1>8

LEMMA ReadyKept ==
  ASSUME Typed, Moves, Sound, RowsStep, AccountStep
  PROVE  Ready'
<1> SUFFICES ASSUME NEW j \in DOMAIN jobs', Unfinished(j)', jobs'[j].op \in Credentialed,
                    Current(jobs[j])'
             PROVE  account'.status = IF jobs'[j].op = "provision" THEN "pending" ELSE "active"
  BY DEF Ready, Matches
<1>1. CASE j \in DOMAIN jobs
  <2>1. jobs'[j].op = jobs[j].op
    BY <1>1, OldRow DEF Fixed
  <2>2. SameName /\ Current(jobs[j])
    BY <1>1, CurrentBefore DEF Sound, Current
  <2>3. CASE Unfinished(j)
    <3>1. Matches(jobs[j])
      BY <1>1, <2>1, <2>2, <2>3 DEF Sound, Ready
    <3>2. account.name \in Nat /\ account.generation \in Nat
      BY AccountColumns DEF Typed
    <3> QED BY <1>1, <2>1, <2>2, <2>3, <3>1, <3>2, StaysReady DEF Is
  <2>4. CASE ~Unfinished(j)
    <3>1. Resumes(j)
      BY <1>1, <2>4 DEF RowsStep, RowStep, Unfinished, Finishes
    <3> QED BY <2>1, <3>1 DEF Resumes, Is
  <2> QED BY <2>3, <2>4
<1>2. CASE j \notin DOMAIN jobs
  <2>1. NewRow(jobs'[j])
    BY <1>2 DEF RowsStep
  <2> QED BY <2>1 DEF NewRow, Credentialed
<1> QED BY <1>1, <1>2

LEMMA RevokesKept ==
  ASSUME Typed, Moves, Sound, RowsStep, DevicesStep
  PROVE  Revokes'
<1> SUFFICES ASSUME NEW j \in DOMAIN jobs', jobs'[j].op = "revoke-device"
             PROVE  /\ jobs'[j].token \in DOMAIN jobs' /\ jobs'[j].status # "failed"
                    /\ jobs'[j].owned =>
                         /\ jobs'[jobs'[j].token].status = "completed"
                         /\ Unfinished(j)' \/ jobs'[j].token \notin devices'
                    /\ ~jobs'[j].owned => jobs'[j].token \in Outdated'
  BY DEF Revokes, Is
<1>1. CASE j \in DOMAIN jobs
  <2>1. /\ jobs[j].op = "revoke-device" /\ jobs'[j].token = jobs[j].token
        /\ jobs'[j].owned = jobs[j].owned
    BY <1>1, OldRow DEF Fixed
  <2>2. /\ jobs[j].token \in DOMAIN jobs /\ jobs[j].status # "failed"
        /\ jobs[j].owned =>
             jobs[jobs[j].token].status = "completed" /\ (Unfinished(j) \/ jobs[j].token \notin devices)
        /\ ~jobs[j].owned => jobs[j].token \in Outdated
    BY <1>1, <2>1 DEF Sound, Revokes, Is
  <2>3. jobs[j].token \in DOMAIN jobs'
    BY <2>2, OldRow
  <2>4. RowStep(j)
    BY <1>1 DEF RowsStep
  <2>5. jobs'[j].status # "failed"
    BY <2>1, <2>2, <2>4 DEF RowStep, Sending, Finishes, Credentialed
  <2>6. ASSUME jobs[j].owned
        PROVE  /\ jobs'[jobs[j].token].status = "completed"
               /\ Unfinished(j)' \/ jobs[j].token \notin devices'
    <3>1. jobs[jobs[j].token].status = "completed"
      BY <2>2, <2>6
    <3>2. jobs'[jobs[j].token].status = "completed"
      BY <2>2, <3>1, StaysCompleted
    <3>3. CASE jobs[j].token \notin devices
      BY <3>1, <3>2, <3>3 DEF DevicesStep, Finishes
    <3>4. CASE Unfinished(j)
      <4>1. Finishes(j) => jobs[j].token \notin devices'
        BY <2>1, <2>6 DEF Finishes, Is
      <4> QED BY <2>4, <2>5, <3>2, <3>4, <4>1 DEF RowStep, Sending, Unfinished
    <3> QED BY <2>2, <2>6, <3>2, <3>3, <3>4
  <2>7. ASSUME ~jobs[j].owned
        PROVE  jobs[j].token \in Outdated'
    <3>1. jobs[j].token \in Outdated
      BY <2>2, <2>7
    <3> QED BY <3>1, OutdatedStays DEF Sound
  <2> QED BY <2>1, <2>3, <2>5, <2>6, <2>7
<1>2. CASE j \notin DOMAIN jobs
  <2>1. /\ jobs'[j].status \in {"pending", "processing"}
        /\ \/ jobs'[j].owned /\ jobs'[j].token \in devices
           \/ /\ ~jobs'[j].owned /\ jobs'[j].token \in DOMAIN jobs
              /\ jobs'[j].token \in Outdated
    BY <1>2 DEF RowsStep, NewRow
  <2>2. CASE jobs'[j].owned /\ jobs'[j].token \in devices
    <3>1. jobs'[j].token \in DOMAIN jobs /\ jobs[jobs'[j].token].status = "completed"
      BY <2>2 DEF Typed, Shape, Sound, DevicesSound
    <3> QED BY <2>1, <2>2, <3>1, StaysCompleted, OldRow DEF Unfinished
  <2>3. CASE ~jobs'[j].owned /\ jobs'[j].token \in DOMAIN jobs /\ jobs'[j].token \in Outdated
    <3>1. Outdated \subseteq Outdated'
      BY OutdatedStays DEF Sound
    <3> QED BY <2>1, <2>3, <3>1, OldRow
  <2> QED BY <2>1, <2>2, <2>3
<1> QED BY <1>1, <1>2

LEMMA RequestsStay ==
  ASSUME Typed, Moves, Sound, RowsStep
  PROVE  Proper \subseteq Proper'
<1>1. \A j \in DOMAIN jobs :
        /\ j \in DOMAIN jobs' /\ jobs'[j].op = jobs[j].op /\ jobs'[j].name = jobs[j].name
        /\ jobs'[j].token = jobs[j].token
  BY OldRow DEF Fixed
<1>2. Outdated \subseteq Outdated'
  BY OutdatedStays DEF Sound
<1> SUFFICES ASSUME NEW r \in Labelled, Carries(r) \/ Undoes(r)
             PROVE  (Carries(r) \/ Undoes(r))'
  BY DEF Proper, Labelled, Request
<1>3. CASE Carries(r)
  BY <1>1, <1>3 DEF Carries
<1>4. CASE Undoes(r)
  BY <1>1, <1>2, <1>4 DEF Undoes, Is
<1> QED BY <1>3, <1>4

\* The last request that was sent.
LEMMA Sends ==
  ASSUME network \in Seq(Labelled), network' \in Seq(Labelled), NEW r, network' = Append(network, r)
  PROVE  /\ DOMAIN network = 1..Len(network) /\ DOMAIN network' = 1..(Len(network) + 1)
         /\ Len(network) \in Nat /\ network'[Len(network) + 1] = r /\ r \in Labelled
         /\ \A i \in DOMAIN network : i \in DOMAIN network' /\ network'[i] = network[i]
<1> DEFINE S == Labelled \cup {r}
<1>1. network \in Seq(S) /\ r \in S
  OBVIOUS
<1> HIDE DEF S
<1>2. /\ DOMAIN network' = 1..(Len(network) + 1) /\ network'[Len(network) + 1] = r
      /\ \A i \in DOMAIN network : network'[i] = network[i]
  BY <1>1, AppendTyped
<1>3. DOMAIN network = 1..Len(network) /\ Len(network) \in Nat
  OBVIOUS
<1> QED BY <1>2, <1>3

LEMMA LabelsKept ==
  ASSUME Typed, Typed', Moves, Sound, RowsStep, NetworkStep
  PROVE  Labels'
<1>1. Proper \subseteq Proper'
  BY RequestsStay
<1>2. \A i \in DOMAIN network : network[i] \in Proper /\ network[i] \in Proper'
  BY <1>1 DEF Sound, Labels
<1>3. network \in Seq(Labelled) /\ network' \in Seq(Labelled)
  BY DEF Typed, Shape
<1>4. ASSUME NEW r, network' = Append(network, r), r \in Labelled => r \in Proper'
      PROVE  \A i \in DOMAIN network' : network'[i] \in Proper'
  <2>1. \A i \in DOMAIN network' : i \in DOMAIN network \/ i = Len(network) + 1
    BY <1>3, <1>4, Sends
  <2> QED BY <1>2, <1>3, <1>4, <2>1, Sends
<1>5. ASSUME NEW A, network' = Abandoned(A), NEW i \in DOMAIN network'
      PROVE  network'[i] \in Proper'
  <2>1. network'[i] \in Labelled
    BY <1>3
  <2>2. i \in DOMAIN network
    BY <1>5 DEF Abandoned
  <2>3. network[i] \in Proper'
    BY <1>2, <2>2
  <2>4. /\ network'[i].label = network[i].label /\ network'[i].op = network[i].op
        /\ network'[i].name = network[i].name /\ network'[i].token = network[i].token
    BY <1>3, <1>5, <2>2 DEF Abandoned, Labelled, Request
  <2> QED BY <2>1, <2>3, <2>4 DEF Proper, Carries, Undoes, Labelled
<1>6. ASSUME NEW a, NEW j \in DOMAIN jobs', Sending(a, j)
      PROVE  \A i \in DOMAIN network' : network'[i] \in Proper'
  <2> DEFINE r == RequestOf(a, j, jobs'[j])
  <2>1. r \in Labelled => r \in Proper'
    BY DEF Proper, Carries, RequestOf, Labelled
  <2>2. network' = Append(network, r)
    BY <1>6 DEF Sending
  <2> HIDE DEF r
  <2> QED BY <1>4, <2>1, <2>2
<1>7. ASSUME NEW r, network' = Append(network, r), Undoes(r)
      PROVE  \A i \in DOMAIN network' : network'[i] \in Proper'
  BY <1>1, <1>4, <1>7 DEF Proper
<1>8. ASSUME network' = network
      PROVE  \A i \in DOMAIN network' : network'[i] \in Proper'
  BY <1>2, <1>8
<1>9. \A i \in DOMAIN network' : network'[i] \in Proper'
  BY <1>5, <1>6, <1>7, <1>8 DEF NetworkStep
<1> QED BY <1>9 DEF Labels

LEMMA UndoingKept ==
  ASSUME Typed, Moves, Sound, RowsStep, AttemptsStep
  PROVE  Undoing'
<1> SUFFICES ASSUME NEW a \in Attempts
             PROVE  /\ attempts'[a].step \in {"compensating", "compensated"} =>
                         attempts'[a].job \in Outdated'
                    /\ attempts'[a].step # "idle" /\ attempts'[a].then = "enable" =>
                         jobs'[attempts'[a].job].op = "disable-account"
  BY DEF Undoing, Is
<1>1. Outdated \subseteq Outdated'
  BY OutdatedStays DEF Sound
<1>2. \A j \in DOMAIN jobs : jobs'[j].op = jobs[j].op
  BY OldRow DEF Fixed
<1>3. attempts[a].step # "idle" => attempts[a].job \in DOMAIN jobs
  BY DEF Typed, Shape
<1>4. CASE attempts'[a] = attempts[a]
  BY <1>1, <1>2, <1>3, <1>4 DEF Sound, Undoing, Is, Outdated
<1>5. CASE attempts'[a].step = "idle"
  BY <1>5
<1>6. ASSUME NEW j \in DOMAIN jobs', Sending(a, j),
             attempts'[a].then = "enable" => jobs'[j].op = "disable-account"
      PROVE  /\ attempts'[a].step = "waiting"
             /\ attempts'[a].then = "enable" => jobs'[attempts'[a].job].op = "disable-account"
  BY <1>6 DEF Sending
<1>7. CASE /\ attempts[a].step = "answered" /\ attempts'[a].step = "compensating"
           /\ attempts'[a].job = attempts[a].job /\ attempts'[a].then = attempts[a].then
           /\ attempts[a].job \in Outdated
  BY <1>1, <1>2, <1>3, <1>7 DEF Sound, Undoing, Is, Outdated
<1> QED BY <1>4, <1>5, <1>6, <1>7 DEF AttemptsStep

LEMMA DevicesSoundKept ==
  ASSUME Typed, Moves, Sound, RowsStep, AccountStep, DevicesStep
  PROVE  DevicesSound'
<1> SUFFICES ASSUME NEW j \in devices'
             PROVE  /\ jobs'[j].op \in Credentialed /\ jobs'[j].status = "completed"
                    /\ jobs'[j].name = account'.name =>
                         account'.status = "active" /\ Current(jobs[j])'
  BY DEF DevicesSound
<1>1. CASE j \in devices
  <2>1. /\ j \in DOMAIN jobs /\ jobs[j].op \in Credentialed /\ jobs[j].status = "completed"
        /\ jobs[j].name = account.name => account.status = "active" /\ Current(jobs[j])
    BY <1>1 DEF Typed, Shape, Sound, DevicesSound
  <2>2. Fixed(jobs[j], jobs'[j]) /\ jobs'[j].status = "completed"
    BY <2>1, OldRow, StaysCompleted
  <2>3. ASSUME jobs'[j].name = account'.name
        PROVE  account'.status = "active" /\ Current(jobs[j])'
    <3>1. account'.name = account.name /\ jobs[j].name = account.name
      BY <2>1, <2>3, CurrentBefore DEF Sound
    <3>2. account.status = "active" /\ Current(jobs[j]) /\ account.name \in Nat
      BY <2>1, <3>1, AccountColumns DEF Typed
    <3>3. account' = account
      BY <3>1, <3>2 DEF AccountStep, Matches, Finishes, Is
    <3> QED BY <2>2, <3>2, <3>3 DEF Current, Fixed
  <2> QED BY <2>1, <2>2, <2>3 DEF Fixed
<1>2. CASE j \notin devices
  <2>1. j \in DOMAIN jobs /\ Finishes(j) /\ jobs[j].op \in Credentialed
    BY <1>2 DEF DevicesStep
  <2>2. jobs[j].owned
    BY <2>1 DEF Sound, Named
  <2>3. SameName /\ account'.status = "active" /\ Current(jobs[j])
    BY <2>1, <2>2 DEF Finishes, Stale, Matches
  <2>4. Fixed(jobs[j], jobs'[j]) /\ jobs'[j].status = "completed"
    BY <2>1, OldRow DEF Finishes
  <2> QED BY <2>1, <2>3, <2>4 DEF SameName, Current, Fixed
<1> QED BY <1>1, <1>2
LEMMA BegunBefore ==
  ASSUME Typed, Moves, Sound, RowsStep, AccountStep, account'.name = account.name, Begun'
  PROVE  Begun
<1>1. ASSUME NEW p \in DOMAIN jobs', jobs'[p].op = "provision", jobs'[p].name = account'.name
      PROVE  p \in Provisions(account.name)
  <2>1. account.name \in Nat
    BY AccountColumns DEF Typed
  <2>2. p \in DOMAIN jobs
    BY <1>1, <2>1 DEF RowsStep, NewRow
  <2>3. Fixed(jobs[p], jobs'[p])
    BY <2>2, OldRow
  <2> QED BY <1>1, <2>2, <2>3 DEF Provisions, Fixed
<1>2. account'.status = "active" \/ (InUse' /\ Provisions(account.name) # {})
  BY <1>1 DEF Begun, Provisions
<1>3. ASSUME NEW p \in DOMAIN jobs, Is(p, "provision"), Current(jobs[p]),
             account.status \in {"pending", "error"}
      PROVE  Begun
  BY <1>3 DEF Begun, InUse, Provisions, Current, Is
<1>4. CASE account' = account
  BY <1>2, <1>4 DEF Begun, InUse
<1>5. CASE account'.status = "disabled"
  BY <1>2, <1>5 DEF InUse
<1>6. ASSUME NEW p \in DOMAIN jobs, Is(p, "provision"), Matches(jobs[p])
      PROVE  Begun
  BY <1>3, <1>6 DEF Matches, Is
<1>7. account'.name # account.name + 1
  BY AccountColumns DEF Typed
<1> QED BY <1>3, <1>4, <1>5, <1>6, <1>7 DEF AccountStep

LEMMA AccountSoundKept ==
  ASSUME Typed, Moves, Sound, RowsStep, AccountStep
  PROVE  AccountSound'
<1>1. ASSUME InUse', NEW p \in DOMAIN jobs', jobs'[p].op = "provision",
             jobs'[p].name = account'.name
      PROVE  /\ jobs'[p].generation = account'.generation
             /\ jobs'[p].status = "completed" <=> account'.status = "active"
  <2>1. CASE p \notin DOMAIN jobs
    BY <1>1, <2>1 DEF RowsStep, NewRow
  <2>2. CASE p \in DOMAIN jobs
    <3>1. /\ account'.name = account.name /\ jobs[p].name = account.name
          /\ Is(p, "provision") /\ jobs'[p].generation = jobs[p].generation
      BY <1>1, <2>2, CurrentBefore, OldRow DEF Fixed, Is, Sound
    <3>2. Finishes(p) => Matches(jobs[p]) /\ account'.status = "active" /\ SameName
      BY <2>2, <3>1 DEF Finishes, Stale, Credentialed, Sound, Named, Is
    <3>3. Matches(jobs[p]) => account.status = "pending" /\ Current(jobs[p])
      BY <3>1 DEF Matches, Is
    <3>4. /\ jobs[p].status = "completed" => jobs'[p].status = "completed"
          /\ jobs[p].status # "completed" /\ jobs'[p].status = "completed" => Finishes(p)
      BY <2>2, StaysCompleted, NowCompleted
    <3>5. \A q \in DOMAIN jobs : Is(q, "provision") /\ Current(jobs[q]) => q = p
      BY <2>2, <3>1, TheProvision DEF Current
    <3>6. CASE account' = account
      <4>1. InUse
        BY <1>1, <3>6 DEF InUse
      <4>2. /\ jobs[p].generation = account.generation
            /\ jobs[p].status = "completed" <=> account.status = "active"
        BY <2>2, <3>1, <4>1 DEF Sound, AccountSound, Provisions, Is
      <4> QED BY <3>1, <3>2, <3>3, <3>4, <3>6, <4>2
    <3>7. ASSUME NEW q \in DOMAIN jobs, Is(q, "provision"), Matches(jobs[q]), Finishes(q)
          PROVE  /\ jobs'[p].generation = account'.generation
                 /\ jobs'[p].status = "completed" <=> account'.status = "active"
      <4>1. q = p
        BY <3>5, <3>7 DEF Matches
      <4> QED BY <3>1, <3>2, <3>3, <3>7, <4>1 DEF Finishes, SameName, Current
    <3>8. ASSUME SameName, account'.status = "error", NEW q \in DOMAIN jobs, Is(q, "provision"),
                 Matches(jobs[q]), jobs'[q].status = "failed"
          PROVE  /\ jobs'[p].generation = account'.generation
                 /\ jobs'[p].status = "completed" <=> account'.status = "active"
      <4>1. q = p
        BY <3>5, <3>8 DEF Matches
      <4> QED BY <3>1, <3>3, <3>8, <4>1 DEF SameName, Current
    <3>9. ASSUME SameName, account'.status = "pending", NEW q \in DOMAIN jobs, Is(q, "provision"),
                 Current(jobs[q]), jobs[q].status \in {"pending", "failed"}
          PROVE  /\ jobs'[p].generation = account'.generation
                 /\ jobs'[p].status = "completed" <=> account'.status = "active"
      <4>1. q = p
        BY <3>5, <3>9
      <4>2. ~Finishes(p)
        BY <3>9, <4>1 DEF Finishes
      <4> QED BY <3>1, <3>4, <3>9, <4>1, <4>2 DEF SameName, Current
    <3>10. account'.name # account.name + 1 /\ account'.status # "disabled"
      BY <1>1, <3>1, AccountColumns DEF Typed, InUse
    <3> QED BY <3>6, <3>7, <3>8, <3>9, <3>10 DEF AccountStep
  <2> QED BY <2>1, <2>2
<1>2. ASSUME Begun', NEW d \in DOMAIN jobs', jobs'[d].op = "disable-account",
             jobs'[d].name = account'.name
      PROVE  FALSE
  <2>1. CASE d \in DOMAIN jobs
    <3>1. account'.name = account.name /\ jobs[d].name = account.name /\ Is(d, "disable-account")
      BY <1>2, <2>1, CurrentBefore, OldRow DEF Fixed, Is, Sound
    <3>2. Begun
      BY <1>2, <3>1, BegunBefore
    <3> QED BY <2>1, <3>1, <3>2 DEF Sound, AccountSound, NoJob
  <2>2. CASE d \notin DOMAIN jobs
    <3>1. account'.status # "disabled"
      BY <1>2 DEF Begun, InUse
    <3>2. /\ account' = account
          /\ \/ ~Begun
             \/ \E k \in DOMAIN jobs :
                  k \in Outdated /\ Is(k, "provision") /\ jobs'[d].name = jobs[k].name
      BY <1>2, <2>2, <3>1 DEF RowsStep, NewRow
    <3>3. Begun
      BY <1>2, <3>2, BegunBefore
    <3>4. PICK k \in DOMAIN jobs :
            k \in Outdated /\ Is(k, "provision") /\ jobs'[d].name = jobs[k].name
      BY <3>2, <3>3
    <3>5. jobs[k].name = account.name /\ k \in Provisions(account.name)
      BY <1>2, <3>2, <3>4 DEF Provisions, Is
    <3>6. InUse
      BY <3>3 DEF Begun, InUse
    <3>7. Current(jobs[k])
      BY <3>5, <3>6 DEF Sound, AccountSound, Current
    <3> QED BY <3>4, <3>7 DEF Outdated
  <2> QED BY <2>1, <2>2
<1> QED BY <1>1, <1>2 DEF AccountSound, Provisions, NoJob, Is

LEMMA SoundKept ==
  ASSUME Typed, Typed', Moves, Sound, Step
  PROVE  Sound'
BY NamedKept, OneProvisionKept, ReadyKept, RevokesKept, LabelsKept, UndoingKept,
   AccountSoundKept, DevicesSoundKept DEF Step, Sound

\* A step of the provisioner takes a request away, and may answer who waits.
Serves(i) ==
  /\ network' = RemoveAt(network, i) /\ UNCHANGED database
  /\ attempts' \in {attempts, Answered(network[i].to)}

LEMMA ServedServes ==
  ASSUME NEW i \in DOMAIN network, Execute(i) \/ ExecutionFails(i)
  PROVE  Serves(i) /\ overtaken' = (overtaken \/ Overtakes(i))
BY DEF Execute, ExecutionFails, Serves, database

\* What is left on its way was on its way, in the same order.
LEMMA ServedLeaves ==
  ASSUME Typed, NEW i \in DOMAIN network, Serves(i)
  PROVE  /\ \A k \in DOMAIN network' :
              Before(i, k) \in DOMAIN network \ {i} /\ network'[k] = network[Before(i, k)]
         /\ \A k, m \in DOMAIN network' : k < m <=> Before(i, k) < Before(i, m)
         /\ DOMAIN network \subseteq Int /\ DOMAIN network' \subseteq Int
<1>1. network \in Seq(Labelled)
  BY DEF Typed, Shape
<1> DEFINE left == RemoveAt(network, i)
<1>2. /\ left \in Seq(Labelled)
      /\ \A k \in DOMAIN left :
           Before(i, k) \in DOMAIN network \ {i} /\ left[k] = network[Before(i, k)]
  BY <1>1, RemovedElements
<1>3. network' = left
  BY DEF Serves
<1> HIDE DEF left
<1>4. DOMAIN network \subseteq Int /\ DOMAIN network' \subseteq Int
  BY <1>1, <1>2, <1>3
<1>5. \A k, m \in DOMAIN network' : k < m <=> Before(i, k) < Before(i, m)
  BY <1>4 DEF Before
<1> QED BY <1>2, <1>3, <1>4, <1>5

\* The attempt that is answered waited; the others do not move.
LEMMA ServedAnswers ==
  ASSUME Typed, Awaited, NEW i \in DOMAIN network, Serves(i), NEW a \in Attempts
  PROVE  \/ attempts'[a] = attempts[a]
         \/ /\ network[i].to = a /\ attempts'[a].job = attempts[a].job
            /\ attempts'[a].then = attempts[a].then
            /\ \/ /\ attempts[a].step = "waiting" /\ attempts'[a].step = "answered"
                  /\ network[i].label = attempts[a].job
               \/ attempts[a].step = "compensating" /\ attempts'[a].step = "compensated"
<1>1. attempts \in [Attempts -> Attempt] /\ attempts[a] \in Attempt
  BY DEF Typed, TypeOK
<1>2. CASE attempts' = attempts
  BY <1>2
<1>3. CASE attempts' = Answered(network[i].to) /\ network[i].to # Nobody
  <2> DEFINE to == network[i].to
  <2>1. to \in Attempts
    BY <1>3, RequestColumns
  <2>2. \/ attempts[to].step = "waiting" /\ network[i].label = attempts[to].job
        \/ attempts[to].step = "compensating"
    BY <1>3 DEF Awaited
  <2>3. attempts' = [attempts EXCEPT ![to].step = IF @ = "waiting" THEN "answered" ELSE "compensated"]
    BY <1>3 DEF Answered
  <2>4. attempts[to] \in Attempt
    BY <1>1, <2>1
  <2> HIDE DEF to
  <2>5. CASE a = to
    BY <1>1, <2>1, <2>2, <2>3, <2>4, <2>5 DEF Attempt, to
  <2>6. CASE a # to
    BY <1>1, <2>1, <2>3, <2>6
  <2> QED BY <2>5, <2>6
<1>4. CASE attempts' = Answered(network[i].to) /\ network[i].to = Nobody
  BY <1>4 DEF Answered
<1> QED BY <1>2, <1>3, <1>4 DEF Serves

LEMMA ServedSound ==
  ASSUME Typed, Awaited, Sound, NEW i \in DOMAIN network, Serves(i)
  PROVE  Sound'
<1>1. UNCHANGED <<account, devices, jobs>>
  BY DEF Serves, database
<1>2. /\ Named' /\ OneProvision' /\ Ready' /\ Revokes' /\ AccountSound' /\ DevicesSound'
      /\ Outdated' = Outdated /\ Proper' = Proper
  BY <1>1 DEF Sound, Named, OneProvision, Ready, Revokes, AccountSound, DevicesSound, Outdated,
              Proper, Carries, Undoes, Is, Unfinished, Current, Matches, InUse, Provisions, Begun, NoJob
<1>3. Labels'
  BY <1>2, ServedLeaves DEF Sound, Labels
<1>4. Undoing'
  BY <1>1, <1>2, ServedAnswers DEF Sound, Undoing, Is
<1> QED BY <1>2, <1>3, <1>4 DEF Sound
-----------------------------------------------------------------------------
(* The devices work, as long as no request overtakes an earlier one of its *)
(* name.                                                                   *)

\* Names that are made, once and for all: nothing is left to replace or remove them.
Settled ==
  {n \in Names :
     /\ \A p \in Provisions(n) : jobs[p].status = "completed"
     /\ NoRequest("provision", n) /\ NoJob("disable-account", n)}

Settling ==
  /\ \A j \in devices : jobs[j].name \in Settled
  /\ account.status = "active" => account.name \in Settled

\* Who waits for a name to be made is the last to have asked for it.
Order ==
  \A a \in Attempts :
    attempts[a].step \in {"waiting", "answered"} /\ Holds(a) /\ Is(attempts[a].job, "provision") =>
      \A k \in DOMAIN network :
        network[k].op = "provision" /\ network[k].name = jobs[attempts[a].job].name =>
          /\ attempts[a].step = "waiting"
          /\ \A i \in DOMAIN network : network[i].to = a => k <= i

\* An answer that still counts is true: ntfy knows the token.
Answers ==
  \A a \in Attempts :
    LET j == attempts[a].job
    IN attempts[a].step = "answered" /\ Holds(a) /\ jobs[j].op \in Credentialed /\ Current(jobs[j]) =>
         <<jobs[j].name, j>> \in tokens

Known ==
  \A j \in devices :
    \/ <<jobs[j].name, j>> \in tokens
    \/ \E k \in DOMAIN jobs : Unfinished(k) /\ jobs[k].op = "revoke-device" /\ jobs[k].token = j

Working == Settling /\ Order /\ Answers /\ Known

\* A settled name of the account, or of a device, stays so.
LEMMA SettledStays ==
  ASSUME Typed, Typed', Moves, Sound, RowsStep, NetworkStep, NEW n \in Settled, n <= account.name,
         n = account.name => account.status = "active",
         devices' # {} \/ account'.status = "active"
  PROVE  n \in Settled'
<1>1. n \in Nat /\ account.name \in Nat /\ n \in Names
  BY AccountColumns DEF Typed, Settled, Names
<1>2. /\ \A p \in DOMAIN jobs : Is(p, "provision") /\ jobs[p].name = n => jobs[p].status = "completed"
      /\ NoRequest("provision", n) /\ NoJob("disable-account", n)
  BY DEF Settled, Provisions, Is
<1>3. \A j \in DOMAIN jobs' \ DOMAIN jobs : NewRow(jobs'[j])
  BY DEF RowsStep
<1>4. ASSUME NEW p \in DOMAIN jobs', jobs'[p].op = "provision", jobs'[p].name = n
      PROVE  p \in DOMAIN jobs /\ jobs[p].status = "completed" /\ jobs'[p].status = "completed"
  <2>1. p \in DOMAIN jobs
    BY <1>1, <1>3, <1>4 DEF NewRow
  <2>2. Is(p, "provision") /\ jobs[p].name = n
    BY <1>4, <2>1, OldRow DEF Fixed, Is
  <2> QED BY <1>2, <2>1, <2>2, StaysCompleted
<1>5. ASSUME NEW d \in DOMAIN jobs', jobs'[d].op = "disable-account", jobs'[d].name = n
      PROVE  FALSE
  <2>1. CASE d \in DOMAIN jobs
    <3>1. Is(d, "disable-account") /\ jobs[d].name = n
      BY <1>5, <2>1, OldRow DEF Fixed, Is
    <3> QED BY <1>2, <2>1, <3>1 DEF NoJob
  <2>2. CASE d \notin DOMAIN jobs
    <3>1. \/ account'.status = "disabled" /\ devices' = {}
          \/ ~Begun /\ jobs'[d].name = account.name
          \/ \E k \in DOMAIN jobs :
               k \in Outdated /\ Is(k, "provision") /\ jobs'[d].name = jobs[k].name
      BY <1>3, <1>5, <2>2 DEF NewRow
    <3>2. ~(~Begun /\ jobs'[d].name = account.name)
      BY <1>5 DEF Begun
    <3>3. ASSUME NEW k \in DOMAIN jobs, k \in Outdated, Is(k, "provision"), jobs[k].name = n
          PROVE  FALSE
      BY <1>2, <3>3 DEF Outdated
    <3> QED BY <1>5, <3>1, <3>2, <3>3
  <2> QED BY <2>1, <2>2
<1>6. ASSUME NEW i \in DOMAIN network', network'[i].op = "provision", network'[i].name = n
      PROVE  FALSE
  <2>1. network \in Seq(Labelled) /\ network' \in Seq(Labelled)
    BY DEF Typed, Shape
  <2>2. \A k \in DOMAIN network : ~(network[k].op = "provision" /\ network[k].name = n)
    BY <1>2 DEF NoRequest
  <2>3. CASE network' = network
    BY <1>6, <2>2, <2>3
  <2>4. ASSUME NEW A, network' = Abandoned(A)
        PROVE  FALSE
    <3>1. i \in DOMAIN network
      BY <2>4 DEF Abandoned
    <3>2. network'[i].op = network[i].op /\ network'[i].name = network[i].name
      BY <2>1, <2>4, <3>1 DEF Abandoned, Labelled, Request
    <3> QED BY <1>6, <2>2, <3>1, <3>2
  <2>5. ASSUME NEW r, network' = Append(network, r), ~(r.op = "provision" /\ r.name = n)
        PROVE  FALSE
    <3>1. i \in DOMAIN network \/ i = Len(network) + 1
      BY <2>1, <2>5, Sends
    <3> QED BY <1>6, <2>1, <2>2, <2>5, <3>1, Sends
  <2>6. ASSUME NEW a \in Attempts, NEW j \in DOMAIN jobs', Sending(a, j),
               j \in DOMAIN jobs => jobs[j].status # "completed"
        PROVE  FALSE
    <3> DEFINE r == RequestOf(a, j, jobs'[j])
    <3>1. network' = Append(network, r) /\ r.op = jobs'[j].op /\ r.name = jobs'[j].name
      BY <2>6 DEF Sending, RequestOf
    <3>2. ~(jobs'[j].op = "provision" /\ jobs'[j].name = n)
      BY <1>4, <2>6
    <3> HIDE DEF r
    <3> QED BY <2>5, <3>1, <3>2
  <2>7. ASSUME NEW r, network' = Append(network, r), Undoes(r)
        PROVE  FALSE
    <3>1. r.op # "provision"
      BY <2>7 DEF Undoes
    <3> QED BY <2>5, <2>7, <3>1
  <2> QED BY <2>3, <2>4, <2>6, <2>7 DEF NetworkStep
<1> QED BY <1>1, <1>4, <1>5, <1>6 DEF Settled, Provisions, NoRequest, NoJob, Is
\* No request to make a name is sent while the job that made it is recorded.
LEMMA MadeUnasked ==
  ASSUME Typed, Typed', Moves, Sound, Order, RowsStep, NetworkStep,
         NEW p \in DOMAIN jobs, Is(p, "provision"), Finishes(p),
         NEW i \in DOMAIN network', network'[i].op = "provision", network'[i].name = jobs[p].name
  PROVE  FALSE
<1>1. PICK a \in Attempts : attempts[a].step = "answered" /\ attempts[a].job = p /\ Holds(a)
  BY DEF Finishes
<1>2. \A k \in DOMAIN network : ~(network[k].op = "provision" /\ network[k].name = jobs[p].name)
  BY <1>1 DEF Order
<1>3. network \in Seq(Labelled) /\ network' \in Seq(Labelled)
  BY DEF Typed, Shape
<1>4. CASE network' = network
  BY <1>2, <1>4
<1>5. ASSUME NEW A, network' = Abandoned(A)
      PROVE  FALSE
  <2>1. i \in DOMAIN network
    BY <1>5 DEF Abandoned
  <2>2. network'[i].op = network[i].op /\ network'[i].name = network[i].name
    BY <1>3, <1>5, <2>1 DEF Abandoned, Labelled, Request
  <2> QED BY <1>2, <2>1, <2>2
<1>6. ASSUME NEW r, network' = Append(network, r), ~(r.op = "provision" /\ r.name = jobs[p].name)
      PROVE  FALSE
  <2>1. i \in DOMAIN network \/ i = Len(network) + 1
    BY <1>3, <1>6, Sends
  <2> QED BY <1>2, <1>3, <1>6, <2>1, Sends
<1>7. ASSUME NEW b \in Attempts, NEW j \in DOMAIN jobs', Sending(b, j)
      PROVE  FALSE
  <2> DEFINE r == RequestOf(b, j, jobs'[j])
  <2>1. network' = Append(network, r) /\ r.op = jobs'[j].op /\ r.name = jobs'[j].name
    BY <1>7 DEF Sending, RequestOf
  <2>2. ASSUME jobs'[j].op = "provision", jobs'[j].name = jobs[p].name
        PROVE  FALSE
    <3>1. CASE j \in DOMAIN jobs
      <4>1. Is(j, "provision") /\ jobs[j].name = jobs[p].name
        BY <2>2, <3>1, OldRow DEF Fixed, Is
      <4>2. j = p
        BY <3>1, <4>1 DEF Sound, OneProvision
      <4> QED BY <1>7, <4>2 DEF Sending, Finishes
    <3>2. CASE j \notin DOMAIN jobs
      <4>1. jobs'[j].name = account.name + 1
        BY <2>2, <3>2 DEF RowsStep, NewRow
      <4>2. jobs[p].name \in Nat /\ jobs[p].name <= account.name /\ account.name \in Nat
        BY OldRow, AccountColumns DEF Sound, Named, Job, Names, Typed
      <4> QED BY <2>2, <4>1, <4>2
    <3> QED BY <3>1, <3>2
  <2> HIDE DEF r
  <2> QED BY <1>6, <2>1, <2>2
<1>8. ASSUME NEW r, network' = Append(network, r), Undoes(r)
      PROVE  FALSE
  BY <1>6, <1>8 DEF Undoes
<1> QED BY <1>4, <1>5, <1>7, <1>8 DEF NetworkStep

LEMMA SettlingKept ==
  ASSUME Typed, Typed', Moves, Sound, Sound', Settling, Order, Step
  PROVE  Settling'
<1>1. RowsStep /\ AccountStep /\ DevicesStep /\ NetworkStep
  BY DEF Step
<1>2. ASSUME account'.status = "active"
      PROVE  account'.name \in Settled'
  <2>1. CASE account' = account
    BY <1>1, <1>2, <2>1, AccountColumns, SettledStays DEF Settling, Typed
  <2>2. ASSUME SameName, NEW p \in DOMAIN jobs, Is(p, "provision"), Matches(jobs[p]), Finishes(p)
        PROVE  account'.name \in Settled'
    <3>1. account'.name = jobs[p].name /\ account.name = jobs[p].name /\ jobs[p].name \in Names
      BY <2>2, OldRow DEF Matches, Current, SameName, Job
    <3>2. ASSUME NEW q \in DOMAIN jobs', jobs'[q].op = "provision", jobs'[q].name = jobs[p].name
          PROVE  jobs'[q].status = "completed"
      <4>1. InUse'
        BY <1>2 DEF InUse
      <4> QED BY <1>2, <3>1, <3>2, <4>1 DEF Sound, AccountSound, Provisions
    <3>3. \A i \in DOMAIN network' :
            ~(network'[i].op = "provision" /\ network'[i].name = jobs[p].name)
      BY <1>1, <2>2, MadeUnasked
    <3>4. \A d \in DOMAIN jobs' :
            ~(jobs'[d].op = "disable-account" /\ jobs'[d].name = jobs[p].name)
      BY <1>2, <3>1 DEF Sound, AccountSound, Begun, NoJob, Is
    <3> QED BY <3>1, <3>2, <3>3, <3>4 DEF Settled, Provisions, NoRequest, NoJob, Is
  <2> QED BY <1>1, <1>2, <2>1, <2>2 DEF AccountStep
<1>3. ASSUME NEW j \in devices'
      PROVE  jobs'[j].name \in Settled'
  <2>1. CASE j \in devices
    <3>1. /\ j \in DOMAIN jobs /\ jobs'[j].name = jobs[j].name /\ jobs[j].name <= account.name
          /\ jobs[j].name = account.name => account.status = "active"
      BY <2>1, OldRow DEF Typed, Shape, Sound, Named, DevicesSound, Fixed
    <3>2. jobs[j].name \in Settled /\ devices' # {}
      BY <1>3, <2>1 DEF Settling
    <3> QED BY <1>1, <3>1, <3>2, SettledStays
  <2>2. CASE j \notin devices
    <3>1. j \in DOMAIN jobs /\ Finishes(j) /\ jobs[j].op \in Credentialed
      BY <1>1, <1>3, <2>2 DEF DevicesStep
    <3>2. jobs[j].owned
      BY <3>1 DEF Sound, Named
    <3>3. SameName /\ account'.status = "active" /\ Current(jobs[j])
      BY <3>1, <3>2 DEF Finishes, Stale, Matches
    <3>4. jobs'[j].name = account'.name
      BY <3>1, <3>3, OldRow DEF Fixed, SameName, Current
    <3> QED BY <1>2, <3>3, <3>4
  <2> QED BY <2>1, <2>2
<1> QED BY <1>2, <1>3 DEF Settling

\* Who holds a job and does not move, held it.
LEMMA HeldBefore ==
  ASSUME Typed, Moves, RowsStep, NEW a \in Attempts, attempts'[a] = attempts[a],
         attempts[a].step # "idle", Holds(a)'
  PROVE  Holds(a)
<1>1. attempts[a].job \in DOMAIN jobs
  BY DEF Typed, Shape
<1>2. jobs'[attempts[a].job].status = "processing" /\ jobs'[attempts[a].job].holder = a
  BY DEF Holds
<1>3. ~(\E b \in Attempts : Sending(b, attempts[a].job))
  BY <1>2 DEF Sending, Waits
<1> QED BY <1>1, <1>2, <1>3 DEF RowsStep, RowStep, Finishes, Holds

LEMMA OrderKept ==
  ASSUME Typed, Typed', Awaited, Moves, Sound, Sound', Order, Step
  PROVE  Order'
<1>1. RowsStep /\ NetworkStep /\ AttemptsStep
  BY DEF Step
<1>2. network \in Seq(Labelled) /\ network' \in Seq(Labelled)
  BY DEF Typed, Shape
<1> SUFFICES ASSUME NEW a \in Attempts, attempts'[a].step \in {"waiting", "answered"}, Holds(a)',
                    jobs'[attempts'[a].job].op = "provision",
                    NEW k \in DOMAIN network', network'[k].op = "provision",
                    network'[k].name = jobs'[attempts'[a].job].name
             PROVE  /\ attempts'[a].step = "waiting"
                    /\ \A i \in DOMAIN network' : network'[i].to = a => k <= i
  BY DEF Order, Is
<1>3. ASSUME NEW j \in DOMAIN jobs', Sending(a, j)
      PROVE  /\ attempts'[a].step = "waiting"
             /\ \A i \in DOMAIN network' : network'[i].to = a => k <= i
  <2> DEFINE r == RequestOf(a, j, jobs'[j])
  <2>1. network' = Append(network, r) /\ attempts'[a].step = "waiting" /\ ~Waits(a)
    BY <1>3 DEF Sending
  <2> HIDE DEF r
  <2>2. \A i \in DOMAIN network : network[i].to # a
    <3>1. a # Nobody
      BY ProvisioningAssumption DEF ProvisioningAssumption
    <3> QED BY <2>1, <3>1, Unaddressed
  <2>3. /\ \A i \in DOMAIN network' : i \in 1..(Len(network) + 1)
        /\ \A i \in DOMAIN network' : i \in DOMAIN network \/ i = Len(network) + 1
        /\ \A i \in DOMAIN network : network'[i] = network[i]
        /\ Len(network) \in Nat
    BY <1>2, <2>1, Sends
  <2>4. \A i \in DOMAIN network' : network'[i].to = a => i = Len(network) + 1
    BY <2>2, <2>3
  <2> QED BY <2>1, <2>3, <2>4
<1>4. ASSUME attempts'[a] = attempts[a]
      PROVE  /\ attempts'[a].step = "waiting"
             /\ \A i \in DOMAIN network' : network'[i].to = a => k <= i
  <2> DEFINE j == attempts[a].job
  <2>1. attempts[a].step # "idle" /\ j \in DOMAIN jobs /\ Holds(a)
    BY <1>1, <1>4, HeldBefore DEF Typed, Shape
  <2>2. Is(j, "provision") /\ jobs'[j].name = jobs[j].name /\ jobs'[j].holder = a
    BY <1>4, <2>1, OldRow DEF Fixed, Is, Holds
  <2>3. \A m \in DOMAIN network :
          network[m].op = "provision" /\ network[m].name = jobs[j].name =>
            /\ attempts[a].step = "waiting"
            /\ \A i \in DOMAIN network : network[i].to = a => m <= i
    BY <1>4, <2>1, <2>2 DEF Order
  <2>4. CASE network' = network
    BY <1>4, <2>2, <2>3, <2>4
  <2>5. ASSUME NEW A, network' = Abandoned(A)
        PROVE  /\ attempts'[a].step = "waiting"
               /\ \A i \in DOMAIN network' : network'[i].to = a => k <= i
    <3>1. DOMAIN network' = DOMAIN network
      BY <2>5 DEF Abandoned
    <3>2. a # Nobody
      BY ProvisioningAssumption DEF ProvisioningAssumption
    <3>3. \A i \in DOMAIN network :
            /\ network'[i].op = network[i].op /\ network'[i].name = network[i].name
            /\ network'[i].to = a => network[i].to = a
      <4> TAKE i \in DOMAIN network
      <4>1. network[i] \in Request
        BY <1>2 DEF Labelled
      <4> QED BY <2>5, <3>2, <4>1 DEF Abandoned, Request
    <3> QED BY <1>4, <2>2, <2>3, <3>1, <3>3
  <2>6. ASSUME NEW r, network' = Append(network, r), ~(r.op = "provision" /\ r.name = jobs[j].name)
        PROVE  /\ attempts'[a].step = "waiting"
               /\ \A i \in DOMAIN network' : network'[i].to = a => k <= i
    <3>1. /\ \A i \in DOMAIN network' : i \in DOMAIN network \/ i = Len(network) + 1
          /\ \A i \in DOMAIN network : network'[i] = network[i]
          /\ network'[Len(network) + 1] = r
          /\ DOMAIN network = 1..Len(network) /\ Len(network) \in Nat
      BY <1>2, <2>6, Sends
    <3>2. k \in DOMAIN network
      BY <1>4, <2>2, <2>6, <3>1
    <3> QED BY <1>4, <2>2, <2>3, <3>1, <3>2
  <2>7. ASSUME NEW b \in Attempts, NEW m \in DOMAIN jobs', Sending(b, m)
        PROVE  /\ attempts'[a].step = "waiting"
               /\ \A i \in DOMAIN network' : network'[i].to = a => k <= i
    <3> DEFINE r == RequestOf(b, m, jobs'[m])
    <3>1. network' = Append(network, r) /\ r.op = jobs'[m].op /\ r.name = jobs'[m].name
      BY <2>7 DEF Sending, RequestOf
    <3>2. ASSUME jobs'[m].op = "provision", jobs'[m].name = jobs[j].name
          PROVE  b = a
      <4>1. m = j
        BY <1>4, <2>1, <2>2, <3>2, OldRow DEF Sound, OneProvision, Is
      <4> QED BY <2>2, <2>7, <4>1 DEF Sending
    <3>3. b = a =>
            /\ attempts'[a].step = "waiting"
            /\ \A i \in DOMAIN network' : network'[i].to = a => k <= i
      BY <1>3, <2>7
    <3> HIDE DEF r
    <3> QED BY <2>6, <3>1, <3>2, <3>3
  <2>8. ASSUME NEW r, network' = Append(network, r), Undoes(r)
        PROVE  /\ attempts'[a].step = "waiting"
               /\ \A i \in DOMAIN network' : network'[i].to = a => k <= i
    <3>1. r.op # "provision"
      BY <2>8 DEF Undoes
    <3> QED BY <2>6, <2>8, <3>1
  <2> QED BY <1>1, <2>4, <2>5, <2>7, <2>8 DEF NetworkStep
<1> QED BY <1>1, <1>3, <1>4 DEF AttemptsStep

LEMMA AnswersKept ==
  ASSUME Typed, Moves, Sound, Answers, Step
  PROVE  Answers'
<1>1. RowsStep /\ AttemptsStep /\ tokens' = tokens
  BY DEF Step, remote
<1> SUFFICES ASSUME NEW a \in Attempts, attempts'[a].step = "answered", Holds(a)',
                    jobs'[attempts'[a].job].op \in Credentialed,
                    Current(jobs[attempts[a].job])'
             PROVE  <<jobs'[attempts'[a].job].name, attempts'[a].job>> \in tokens
  BY <1>1 DEF Answers
<1>2. attempts'[a] = attempts[a]
  BY <1>1 DEF AttemptsStep, Sending
<1> DEFINE j == attempts[a].job
<1>3. attempts[a].step = "answered" /\ j \in DOMAIN jobs /\ Holds(a)
  BY <1>1, <1>2, HeldBefore DEF Typed, Shape
<1>4. jobs'[j].name = jobs[j].name /\ jobs'[j].op = jobs[j].op
  BY <1>3, OldRow DEF Fixed
<1>5. Current(jobs[j])
  <2>1. jobs'[j].name = account'.name /\ jobs'[j].generation = account'.generation
    BY <1>2 DEF Current
  <2> HIDE DEF j
  <2> QED BY <1>3, <2>1, CurrentBefore DEF Sound
<1> QED BY <1>2, <1>3, <1>4, <1>5 DEF Answers

LEMMA KnownKept ==
  ASSUME Typed, Moves, Sound, Answers, Known, Step
  PROVE  Known'
<1>1. RowsStep /\ DevicesStep /\ tokens' = tokens
  BY DEF Step, remote
<1> SUFFICES ASSUME NEW j \in devices'
             PROVE  \/ <<jobs'[j].name, j>> \in tokens
                    \/ \E k \in DOMAIN jobs' :
                         Unfinished(k)' /\ jobs'[k].op = "revoke-device" /\ jobs'[k].token = j
  BY <1>1 DEF Known
<1>2. CASE j \in devices
  <2>1. j \in DOMAIN jobs /\ jobs'[j].name = jobs[j].name /\ jobs[j].status = "completed"
    BY <1>2, OldRow DEF Typed, Shape, Fixed, Sound, DevicesSound
  <2>2. ASSUME NEW k \in DOMAIN jobs, Unfinished(k), jobs[k].op = "revoke-device", jobs[k].token = j
        PROVE  k \in DOMAIN jobs' /\ Unfinished(k)' /\ jobs'[k].op = "revoke-device" /\ jobs'[k].token = j
    <3>1. k \in DOMAIN jobs' /\ jobs'[k].op = "revoke-device" /\ jobs'[k].token = j
      BY <2>2, OldRow DEF Fixed
    <3>2. jobs[k].owned
      BY <2>1, <2>2 DEF Sound, Revokes, Is, Outdated
    <3>3. ~Finishes(k)
      BY <2>2, <3>2 DEF Finishes, Is
    <3>4. RowStep(k)
      BY <1>1 DEF RowsStep
    <3>5. Unfinished(k)'
      BY <2>2, <3>3, <3>4 DEF RowStep, Sending, Unfinished, Credentialed
    <3> QED BY <3>1, <3>5
  <2> QED BY <1>2, <2>1, <2>2 DEF Known
<1>3. CASE j \notin devices
  <2>1. j \in DOMAIN jobs /\ Finishes(j) /\ jobs[j].op \in Credentialed
    BY <1>1, <1>3 DEF DevicesStep
  <2>2. jobs[j].owned
    BY <2>1 DEF Sound, Named
  <2>3. Current(jobs[j])
    BY <2>1, <2>2 DEF Finishes, Stale, Matches
  <2>4. PICK a \in Attempts : attempts[a].step = "answered" /\ attempts[a].job = j /\ Holds(a)
    BY <2>1 DEF Finishes
  <2>5. jobs'[j].name = jobs[j].name
    BY <2>1, OldRow DEF Fixed
  <2> QED BY <2>1, <2>3, <2>4, <2>5 DEF Answers
<1> QED BY <1>2, <1>3
\* A token goes only with its name, or when it is revoked.
LEMMA TokensGo ==
  ASSUME Typed, NEW i \in DOMAIN network, Execute(i) \/ ExecutionFails(i),
         NEW n, NEW j, <<n, j>> \in tokens, <<n, j>> \notin tokens'
  PROVE  /\ network[i].name = n
         /\ \/ network[i].op \in {"provision", "disable-account"}
            \/ network[i].op = "revoke-device" /\ network[i].token = j
<1> DEFINE r == network[i]
<1>1. Executed(r) \/ PartlyExecuted(r)
  BY DEF Execute, ExecutionFails
<1>2. r.op \in Operations
  BY RequestColumns
<1> HIDE DEF r
<1>3. <<n, j>> \in TokensOf(r.name) => r.name = n
  BY DEF TokensOf
<1>4. <<n, j>> = <<r.name, r.token>> => r.name = n /\ r.token = j
  OBVIOUS
<1> DEFINE t == <<n, j>>
<1>5. t \in tokens /\ t \notin tokens'
  OBVIOUS
<1> HIDE DEF t, r
<1>6. CASE Executed(r)
  <2>1. CASE r.op = "provision"
    <3>1. tokens' = tokens \/ tokens' = (tokens \ TokensOf(r.name)) \cup {<<r.name, r.label>>}
      BY <1>6, <2>1 DEF Executed
    <3>2. t \in TokensOf(r.name)
      BY <1>5, <3>1
    <3> QED BY <1>3, <2>1, <3>2 DEF t, r
  <2>2. CASE r.op = "add-device"
    <3>1. tokens' = tokens \cup {<<r.name, r.label>>}
      BY <1>6, <2>2 DEF Executed
    <3> QED BY <1>5, <3>1
  <2>3. CASE r.op = "revoke-device"
    <3>1. tokens' = tokens \ {<<r.name, r.token>>}
      BY <1>6, <2>3 DEF Executed
    <3>2. t = <<r.name, r.token>>
      BY <1>5, <3>1
    <3> QED BY <1>4, <2>3, <3>2 DEF t, r
  <2>4. CASE r.op = "disable-account"
    <3>1. tokens' = tokens \ TokensOf(r.name)
      BY <1>6, <2>4 DEF Executed
    <3>2. t \in TokensOf(r.name)
      BY <1>5, <3>1
    <3> QED BY <1>3, <2>4, <3>2 DEF t, r
  <2> QED BY <1>2, <2>1, <2>2, <2>3, <2>4 DEF Operations, Credentialed
<1>7. CASE PartlyExecuted(r)
  <2>1. tokens' = tokens \/ (r.op = "provision" /\ tokens' = tokens \ TokensOf(r.name))
    BY <1>7 DEF PartlyExecuted
  <2>2. r.op = "provision" /\ t \in TokensOf(r.name)
    BY <1>5, <2>1
  <2> QED BY <1>3, <2>2 DEF t, r
<1> QED BY <1>1, <1>6, <1>7 DEF r

\* What a request may be about: a job there is, or an outdated one.
LEMMA Requested ==
  ASSUME Sound, NEW i \in DOMAIN network
  PROVE  Carries(network[i]) \/ Undoes(network[i])
BY DEF Sound, Labels, Proper

\* A settled name keeps the tokens it has, but for those that are revoked.
LEMMA SettledTokens ==
  ASSUME Typed, Sound, NEW i \in DOMAIN network, Execute(i) \/ ExecutionFails(i),
         NEW n \in Settled, NEW j, <<n, j>> \in tokens, <<n, j>> \notin tokens'
  PROVE  network[i].op = "revoke-device" /\ network[i].token = j
<1>1. network[i].name = n
  BY TokensGo
<1>2. network[i].op # "provision"
  BY <1>1 DEF Settled, NoRequest
<1>3. ASSUME network[i].op = "disable-account"
      PROVE  FALSE
  <2>1. CASE Carries(network[i])
    BY <1>1, <1>3, <2>1 DEF Carries, Settled, NoJob, Is
  <2>2. CASE Undoes(network[i])
    BY <1>1, <1>3, <2>2 DEF Undoes, Settled, Provisions, Outdated, Is
  <2> QED BY <2>1, <2>2, Requested
<1> QED BY <1>2, <1>3, TokensGo

\* Only a job that is under way revokes a device that counts.
LEMMA RevokesKnown ==
  ASSUME Sound, NEW i \in DOMAIN network, network[i].op = "revoke-device",
         NEW j, j = network[i].token
  PROVE  \/ j \in Outdated
         \/ /\ jobs[j].status = "completed"
            /\ \/ j \notin devices
               \/ \E k \in DOMAIN jobs :
                    Unfinished(k) /\ jobs[k].op = "revoke-device" /\ jobs[k].token = j
<1>1. CASE Undoes(network[i])
  BY <1>1 DEF Undoes
<1>2. CASE Carries(network[i])
  <2> DEFINE k == network[i].label
  <2>1. k \in DOMAIN jobs /\ Is(k, "revoke-device") /\ jobs[k].token = j
    BY <1>2 DEF Carries, Is
  <2> HIDE DEF k
  <2> QED BY <2>1 DEF Sound, Revokes, Is
<1> QED BY <1>1, <1>2, Requested

LEMMA SettlingServed ==
  ASSUME Typed, Settling, NEW i \in DOMAIN network, Serves(i)
  PROVE  Settling'
<1>1. UNCHANGED <<account, devices, jobs>>
  BY DEF Serves, database
<1>2. \A n : NoRequest("provision", n) => NoRequest("provision", n)'
  BY ServedLeaves DEF NoRequest
<1>3. Settled \subseteq Settled'
  BY <1>1, <1>2 DEF Settled, Provisions, NoJob, Is
<1> QED BY <1>1, <1>3 DEF Settling

\* Requests of a name are executed in the order they were sent.
LEMMA NothingEarlier ==
  ASSUME Typed, NEW i \in DOMAIN network, ~Overtakes(i), NEW k \in DOMAIN network, k <= i,
         network[k].name = network[i].name
  PROVE  k = i
<1>1. DOMAIN network = 1..Len(network) /\ Len(network) \in Nat
  BY DEF Typed, Shape
<1> QED BY <1>1 DEF Overtakes

\* The request an attempt waits for, is for its job.
LEMMA AnsweredCarries ==
  ASSUME Typed, Sound, NEW a \in Attempts, attempts[a].step = "waiting", NEW i \in DOMAIN network,
         network[i].label = attempts[a].job
  PROVE  Carries(network[i]) /\ attempts[a].job \in DOMAIN jobs
<1>1. attempts[a].job \in DOMAIN jobs /\ DOMAIN jobs = 1..Len(jobs)
  BY DEF Typed, Shape, TypeOK
<1>2. network[i].label # None
  BY <1>1 DEF None
<1> QED BY <1>1, <1>2, Requested DEF Undoes

LEMMA OrderServed ==
  ASSUME Typed, Awaited, Sound, Order, NEW i \in DOMAIN network, Serves(i), ~Overtakes(i)
  PROVE  Order'
<1>1. UNCHANGED <<account, devices, jobs>>
  BY DEF Serves, database
<1> SUFFICES ASSUME NEW a \in Attempts, attempts'[a].step \in {"waiting", "answered"}, Holds(a)',
                    jobs[attempts'[a].job].op = "provision",
                    NEW k \in DOMAIN network', network'[k].op = "provision",
                    network'[k].name = jobs[attempts'[a].job].name
             PROVE  /\ attempts'[a].step = "waiting"
                    /\ \A m \in DOMAIN network' : network'[m].to = a => k <= m
  BY <1>1 DEF Order, Is
<1> DEFINE j == attempts[a].job
           b(m) == Before(i, m)
<1>2. /\ \A m \in DOMAIN network' : b(m) \in DOMAIN network \ {i} /\ network'[m] = network[b(m)]
      /\ DOMAIN network' \subseteq Int /\ DOMAIN network \subseteq Int
  BY ServedLeaves
<1>3. attempts'[a].job = j /\ attempts[a].step \in {"waiting", "answered"} /\ Holds(a)
  <2>1. attempts'[a].job = j /\ attempts[a].step \in {"waiting", "answered"}
    BY ServedAnswers
  <2> QED BY <1>1, <2>1 DEF Holds
<1>4. /\ attempts[a].step = "waiting"
      /\ \A m \in DOMAIN network : network[m].to = a => b(k) <= m
  BY <1>2, <1>3 DEF Order, Is
<1>5. CASE attempts'[a] = attempts[a]
  <2>1. ASSUME NEW m \in DOMAIN network', network'[m].to = a
        PROVE  k <= m
    <3>1. b(k) <= b(m)
      BY <1>2, <1>4, <2>1
    <3> QED BY <1>2, <3>1 DEF Before
  <2> QED BY <1>4, <1>5, <2>1
<1>6. CASE network[i].to = a /\ network[i].label = j
  <2>1. b(k) <= i
    BY <1>4, <1>6
  <2>2. network[i].name = jobs[j].name
    BY <1>4, <1>6, AnsweredCarries DEF Carries
  <2>3. b(k) \in DOMAIN network /\ network[b(k)].name = jobs[j].name
    BY <1>2, <1>3
  <2> HIDE DEF b, j
  <2>4. b(k) = i
    BY <2>1, <2>2, <2>3, NothingEarlier
  <2> QED BY <1>2, <2>4
<1> QED BY <1>4, <1>5, <1>6, ServedAnswers
\* What an attempt was answered, nobody takes back while it counts.
LEMMA AnswersServed ==
  ASSUME Typed, Awaited, Sound, Settling, Order, Answers,
         NEW i \in DOMAIN network, Execute(i) \/ ExecutionFails(i)
  PROVE  Answers'
<1>1. Serves(i) /\ UNCHANGED <<account, devices, jobs>>
  BY ServedServes DEF Serves, database
<1> SUFFICES ASSUME NEW a \in Attempts, attempts'[a].step = "answered", Holds(a)',
                    jobs[attempts'[a].job].op \in Credentialed, Current(jobs[attempts[a].job])'
             PROVE  <<jobs[attempts'[a].job].name, attempts'[a].job>> \in tokens'
  BY <1>1 DEF Answers
<1> DEFINE j == attempts[a].job
<1>2. attempts'[a].job = j /\ attempts[a].step \in {"waiting", "answered"}
  BY <1>1, ServedAnswers
<1>3. /\ Holds(a) /\ j \in DOMAIN jobs /\ jobs[j].op \in Credentialed /\ jobs[j].status = "processing"
      /\ Current(jobs[j]) /\ jobs[j].name = account.name
  BY <1>1, <1>2 DEF Holds, Typed, Shape, Current
<1>4. j \notin Outdated
  BY <1>3 DEF Outdated
<1>5. CASE attempts[a].step = "waiting"
  <2>1. network[i].label = j /\ attempts'[a] # attempts[a] /\ network[i].to = a
    BY <1>1, <1>5, ServedAnswers
  <2>2. network[i].op = jobs[j].op /\ network[i].name = jobs[j].name
    BY <1>5, <2>1, AnsweredCarries DEF Carries
  <2>3. Executed(network[i])
    BY <2>1 DEF Execute, ExecutionFails
  <2>4. <<network[i].name, network[i].label>> \in tokens'
    BY <1>3, <2>2, <2>3 DEF Executed, Found, Credentialed
  <2> QED BY <1>2, <2>1, <2>2, <2>4
<1>6. CASE attempts[a].step = "answered"
  <2>1. <<jobs[j].name, j>> \in tokens
    BY <1>3, <1>6 DEF Answers
  <2>2. Matches(jobs[j])
    BY <1>3 DEF Sound, Ready, Unfinished
  <2>3. Begun /\ InUse
    BY <1>3, <2>2 DEF Matches, Begun, InUse, Provisions
  <2> SUFFICES ASSUME <<jobs[j].name, j>> \notin tokens'
               PROVE  FALSE
    BY <1>2
  <2>4. /\ network[i].name = account.name
        /\ \/ network[i].op \in {"provision", "disable-account"}
           \/ network[i].op = "revoke-device" /\ network[i].token = j
    BY <1>3, <2>1, TokensGo
  <2>5. CASE network[i].op = "provision"
    <3>1. CASE Is(j, "provision")
      BY <1>3, <1>6, <2>4, <2>5, <3>1 DEF Order
    <3>2. CASE ~Is(j, "provision")
      <4>1. account.name \in Settled
        BY <2>2, <3>2 DEF Settling, Matches, Is
      <4> QED BY <2>4, <2>5, <4>1 DEF Settled, NoRequest
    <3> QED BY <3>1, <3>2
  <2>6. CASE network[i].op = "disable-account"
    <3>1. CASE Carries(network[i])
      BY <2>3, <2>4, <2>6, <3>1 DEF Carries, Sound, AccountSound, NoJob, Is
    <3>2. CASE Undoes(network[i])
      <4>1. PICK k \in DOMAIN jobs :
              k \in Outdated /\ network[i].name = jobs[k].name /\ Is(k, "provision")
        BY <2>6, <3>2 DEF Undoes
      <4>2. Current(jobs[k])
        BY <2>3, <2>4, <4>1 DEF Sound, AccountSound, Provisions, Current, Is
      <4> QED BY <4>1, <4>2 DEF Outdated
    <3> QED BY <3>1, <3>2, Requested
  <2>7. CASE network[i].op = "revoke-device" /\ network[i].token = j
    BY <1>3, <1>4, <2>7, RevokesKnown
  <2> QED BY <2>4, <2>5, <2>6, <2>7
<1> QED BY <1>2, <1>5, <1>6

LEMMA KnownServed ==
  ASSUME Typed, Sound, Settling, Known, NEW i \in DOMAIN network, Execute(i) \/ ExecutionFails(i)
  PROVE  Known'
<1>1. UNCHANGED <<account, devices, jobs>>
  BY ServedServes DEF Serves, database
<1> SUFFICES ASSUME NEW j \in devices
             PROVE  \/ <<jobs[j].name, j>> \in tokens'
                    \/ \E k \in DOMAIN jobs :
                         Unfinished(k) /\ jobs[k].op = "revoke-device" /\ jobs[k].token = j
  BY <1>1 DEF Known, Unfinished
<1>2. jobs[j].name \in Settled /\ jobs[j].status = "completed" /\ j \notin Outdated
  BY DEF Settling, Sound, DevicesSound, Outdated
<1>3. CASE <<jobs[j].name, j>> \in tokens /\ <<jobs[j].name, j>> \notin tokens'
  <2>1. network[i].op = "revoke-device" /\ network[i].token = j
    BY <1>2, <1>3, SettledTokens
  <2> QED BY <1>2, <2>1, RevokesKnown
<1> QED BY <1>3 DEF Known

\* The state is sound from the start.
LEMMA InitSound ==
  ASSUME Init
  PROVE  Sound /\ Working
<1>1. /\ jobs = <<>> /\ network = <<>> /\ devices = {} /\ account.status = "none"
      /\ \A a \in Attempts : attempts[a].step = "idle"
  BY DEF Init, Idle
<1>2. DOMAIN jobs = {} /\ DOMAIN network = {}
  BY <1>1
<1>3. ~InUse /\ ~Begun
  BY <1>1 DEF InUse, Begun
<1>4. Sound
  BY <1>1, <1>2, <1>3 DEF Sound, Named, OneProvision, Ready, Revokes, Labels, Undoing, AccountSound,
                          DevicesSound
<1>5. Working
  BY <1>1, <1>2 DEF Working, Settling, Order, Answers, Known
<1> QED BY <1>4, <1>5

LEMMA NextWorks ==
  ASSUME Typed, Typed', Awaited, Moves, Sound, ~overtaken => Working, Next
  PROVE  Sound' /\ (~overtaken' => Working')
<1>1. CASE ~Served
  <2>1. Step /\ overtaken' = overtaken
    BY <1>1, NextStep DEF Step, remote
  <2>2. Sound'
    BY <2>1, SoundKept
  <2> QED BY <2>1, <2>2, SettlingKept, OrderKept, AnswersKept, KnownKept DEF Working
<1>2. ASSUME NEW i \in DOMAIN network, Execute(i) \/ ExecutionFails(i)
      PROVE  Sound' /\ (~overtaken' => Working')
  <2>1. Serves(i) /\ overtaken' = (overtaken \/ Overtakes(i))
    BY <1>2, ServedServes
  <2>2. Sound'
    BY <2>1, ServedSound
  <2>3. ~overtaken' => ~overtaken /\ ~Overtakes(i)
    BY <2>1, Zenon
  <2> QED BY <1>2, <2>1, <2>2, <2>3, SettlingServed, OrderServed, AnswersServed, KnownServed DEF Working
<1> QED BY <1>1, <1>2 DEF Served

LEMMA StutterWorks ==
  ASSUME Sound, ~overtaken => Working, UNCHANGED vars
  PROVE  Sound' /\ (~overtaken' => Working')
<1>1. UNCHANGED <<account, devices, jobs, attempts, network, tokens, overtaken>>
  BY DEF vars
<1>2. Sound'
  BY <1>1 DEF Sound, Named, OneProvision, Ready, Revokes, Labels, Proper, Carries, Undoes, Undoing,
              AccountSound, DevicesSound, Outdated, Is, Unfinished, Current, Matches, InUse,
              Provisions, Begun, NoJob
<1>3. Working' = Working
  BY <1>1 DEF Working, Settling, Settled, Order, Answers, Known, Holds, Is, Unfinished, Current,
              Provisions, NoJob, NoRequest
<1> QED BY <1>1, <1>2, <1>3

\* The devices of the settings work (notification-provisioning.ts and the
\* provisioner): as long as no request overtakes an earlier one of its name, ntfy
\* knows the token of each, unless a job that revokes it is under way, however
\* leases run out, answers come late and both sides die.
THEOREM ProvisioningDevicesWork == Spec => []DevicesWork
<1> DEFINE Inv == Typed /\ Awaited /\ Sound /\ (~overtaken => Working)
<1>1. Init => Inv
  BY InitTyped, InitSound
<1>2. Inv /\ [Next]_vars => Inv'
  <2> SUFFICES ASSUME Typed, Awaited, Sound, ~overtaken => Working, [Next]_vars PROVE Inv'
    OBVIOUS
  <2>1. CASE Next
    BY <2>1, NextKept, NextWorks DEF Kept
  <2>2. CASE UNCHANGED vars
    BY <2>2, StutterKept, StutterWorks DEF Kept
  <2> QED BY <2>1, <2>2
<1>3. Inv => DevicesWork
  BY DEF Working, Known, DevicesWork
<1> HIDE DEF Inv
<1> QED BY <1>1, <1>2, <1>3, PTL DEF Spec
-----------------------------------------------------------------------------
(* Nobody is forgotten at ntfy, as long as no request overtakes an earlier *)
(* one of its name.                                                        *)

\* The steps of an attempt that lead to the removal of the user of job q: by
\* undoing what it provided, or by carrying it out.
Ends(q) ==
  IF Is(q, "provision") THEN <<"compensating", "compensated">> ELSE <<"waiting", "answered">>

\* Job q will see to it that its user is removed after the first k requests: its
\* removal has not been answered, nor been asked for before request k.
Removes(q, k) ==
  /\ Unfinished(q) /\ jobs[q].op \in {"provision", "disable-account"}
  /\ \A a \in Attempts : attempts[a].job = q /\ Holds(a) =>
       /\ attempts[a].step # Ends(q)[2]
       /\ attempts[a].step = Ends(q)[1] => \A i \in DOMAIN network : network[i].to = a => k <= i

Cares(n, k) ==
  \/ n \in dropped
  \/ InUse /\ account.name = n
  \/ \E q \in DOMAIN jobs : jobs[q].name = n /\ Removes(q, k)

\* User n exists, or request k is to make it.
Asked(n, k) ==
  IF k = 0 THEN n \in users ELSE network[k].op = "provision" /\ network[k].name = n

Times == {0} \cup DOMAIN network

Covered == \A n \in Names : \A k \in Times : Asked(n, k) => Cares(n, k)

\* A user who exists was asked for by a job.
Wanted == \A n \in users : Provisions(n) # {}

\* A request that undoes a job is about its user, and removes what it provided.
Aimed ==
  \A a \in Attempts, i \in DOMAIN network :
    network[i].to = a /\ attempts[a].step = "compensating" =>
      /\ network[i].name = jobs[attempts[a].job].name
      /\ Is(attempts[a].job, "provision") => network[i].op = "disable-account"

\* A request was on its way already, or is the last one and was sent just now.
LEMMA OldOrSent ==
  ASSUME Typed, Typed', NetworkStep, NEW i \in DOMAIN network'
  PROVE  \/ /\ i \in DOMAIN network
            /\ network'[i].op = network[i].op /\ network'[i].name = network[i].name
            /\ network'[i].to \in Attempts => network[i].to = network'[i].to
         \/ /\ i = Len(network) + 1
            /\ \/ \E a \in Attempts, j \in DOMAIN jobs' :
                    Sending(a, j) /\ network'[i] = RequestOf(a, j, jobs'[j])
               \/ \E r : network'[i] = r /\ Undoes(r) /\ Aims(r)
<1>1. network \in Seq(Labelled) /\ network' \in Seq(Labelled)
  BY DEF Typed, Shape
<1>2. ASSUME NEW r, network' = Append(network, r)
      PROVE  \/ i \in DOMAIN network /\ network'[i] = network[i]
             \/ i = Len(network) + 1 /\ network'[i] = r
  <2>1. i \in DOMAIN network \/ i = Len(network) + 1
    BY <1>1, <1>2, Sends
  <2> QED BY <1>1, <1>2, <2>1, Sends
<1>3. CASE network' = network
  BY <1>3
<1>4. ASSUME NEW A, network' = Abandoned(A)
      PROVE  /\ i \in DOMAIN network
             /\ network'[i].op = network[i].op /\ network'[i].name = network[i].name
             /\ network'[i].to \in Attempts => network[i].to = network'[i].to
  <2>1. i \in DOMAIN network
    BY <1>4 DEF Abandoned
  <2>2. network[i] \in Request /\ Nobody \notin Attempts
    BY <1>1, <2>1, ProvisioningAssumption DEF Labelled, ProvisioningAssumption
  <2> QED BY <1>4, <2>1, <2>2 DEF Abandoned, Request
<1>5. ASSUME NEW a \in Attempts, NEW j \in DOMAIN jobs', Sending(a, j)
      PROVE  \/ i \in DOMAIN network /\ network'[i] = network[i]
             \/ i = Len(network) + 1 /\ network'[i] = RequestOf(a, j, jobs'[j])
  <2> DEFINE r == RequestOf(a, j, jobs'[j])
  <2>1. network' = Append(network, r)
    BY <1>5 DEF Sending
  <2> HIDE DEF r
  <2> QED BY <1>2, <2>1 DEF r
<1>6. CASE \E a \in Attempts, j \in DOMAIN jobs' : Sending(a, j)
  BY <1>5, <1>6
<1>7. CASE \E r : network' = Append(network, r) /\ Undoes(r) /\ Aims(r)
  <2> PICK r : network' = Append(network, r) /\ Undoes(r) /\ Aims(r)
    BY <1>7
  <2> QED BY <1>2
<1> QED BY <1>3, <1>4, <1>6, <1>7 DEF NetworkStep

\* The requests of an attempt do not move to the front.
LEMMA LaterRequests ==
  ASSUME Typed, Typed', NetworkStep, NEW a \in Attempts, NEW k \in Times,
         \A i \in DOMAIN network : network[i].to = a => k <= i,
         NEW i \in DOMAIN network', network'[i].to = a
  PROVE  k <= i
<1>1. DOMAIN network = 1..Len(network) /\ Len(network) \in Nat
  BY DEF Typed, Shape
<1>2. CASE i \in DOMAIN network /\ network[i].to = a
  BY <1>2
<1>3. CASE i = Len(network) + 1
  BY <1>1, <1>3 DEF Times
<1> QED BY <1>2, <1>3, OldOrSent

LEMMA AimedKept ==
  ASSUME Typed, Typed', Awaited, Moves, Sound, Aimed, Step
  PROVE  Aimed'
<1>1. NetworkStep /\ AttemptsStep
  BY DEF Step
<1> SUFFICES ASSUME NEW a \in Attempts, NEW i \in DOMAIN network', network'[i].to = a,
                    attempts'[a].step = "compensating"
             PROVE  /\ network'[i].name = jobs'[attempts'[a].job].name
                    /\ jobs'[attempts'[a].job].op = "provision" => network'[i].op = "disable-account"
  BY DEF Aimed, Is
<1>2. a # Nobody
  BY ProvisioningAssumption DEF ProvisioningAssumption
<1>3. CASE /\ i \in DOMAIN network /\ network[i].to = a
           /\ network'[i].op = network[i].op /\ network'[i].name = network[i].name
  <2>1. Waits(a)
    BY <1>2, <1>3, Unaddressed
  <2>2. attempts'[a] = attempts[a]
    BY <1>1, <2>1 DEF AttemptsStep, Sending, Waits
  <2>3. attempts[a].job \in DOMAIN jobs
    BY <2>2 DEF Typed, Shape
  <2>4. jobs'[attempts[a].job].name = jobs[attempts[a].job].name
        /\ jobs'[attempts[a].job].op = jobs[attempts[a].job].op
    BY <2>3, OldRow DEF Fixed
  <2> QED BY <1>3, <2>2, <2>4 DEF Aimed, Is
<1>4. ASSUME NEW b \in Attempts, NEW j \in DOMAIN jobs', Sending(b, j),
             network'[i] = RequestOf(b, j, jobs'[j])
      PROVE  FALSE
  BY <1>4 DEF Sending, RequestOf
<1>5. ASSUME NEW r, network'[i] = r, Aims(r)
      PROVE  /\ network'[i].name = jobs'[attempts'[a].job].name
             /\ jobs'[attempts'[a].job].op = "provision" => network'[i].op = "disable-account"
  <2>1. /\ attempts[a].step = "answered" /\ attempts'[a].job = attempts[a].job
        /\ r.name = jobs[attempts[a].job].name
        /\ Is(attempts[a].job, "provision") => r.op = "disable-account"
    BY <1>5 DEF Aims
  <2>2. attempts[a].job \in DOMAIN jobs
    BY <2>1 DEF Typed, Shape
  <2>3. jobs'[attempts[a].job].name = jobs[attempts[a].job].name
        /\ jobs'[attempts[a].job].op = jobs[attempts[a].job].op
    BY <2>2, OldRow DEF Fixed
  <2> QED BY <1>5, <2>1, <2>3 DEF Is
<1> QED BY <1>1, <1>3, <1>4, <1>5, OldOrSent
LEMMA WantedKept ==
  ASSUME Typed, Moves, Wanted, Step
  PROVE  Wanted'
<1> SUFFICES ASSUME NEW n \in users
             PROVE  Provisions(n)' # {}
  BY DEF Step, Wanted, remote
<1>1. PICK p \in DOMAIN jobs : jobs[p].op = "provision" /\ jobs[p].name = n
  BY DEF Wanted, Provisions
<1>2. p \in DOMAIN jobs' /\ jobs'[p].op = "provision" /\ jobs'[p].name = n
  BY <1>1, OldRow DEF Fixed
<1> QED BY <1>2 DEF Provisions

\* Who asks for a user has a job to provision it.
LEMMA AskedFor ==
  ASSUME Sound, Wanted, NEW k \in Times, NEW n, Asked(n, k)
  PROVE  Provisions(n) # {}
<1>1. CASE k = 0
  BY <1>1 DEF Asked, Wanted
<1>2. CASE k # 0
  <2>1. k \in DOMAIN network /\ network[k].op = "provision" /\ network[k].name = n
    BY <1>2 DEF Asked, Times
  <2>2. Carries(network[k])
    BY <2>1, Requested DEF Undoes
  <2> QED BY <2>1, <2>2 DEF Carries, Provisions
<1> QED BY <1>1, <1>2

\* A job that is left to do will still remove its user.
LEMMA RemovesStays ==
  ASSUME Typed, Typed', Awaited, Moves, Sound, Step, NEW q \in DOMAIN jobs, NEW k \in Times,
         Removes(q, k), Unfinished(q)'
  PROVE  Removes(q, k)'
<1>1. RowsStep /\ NetworkStep /\ AttemptsStep
  BY DEF Step
<1>2. jobs'[q].op = jobs[q].op
  BY OldRow DEF Fixed
<1>3. Ends(q)' = Ends(q)
  BY <1>2 DEF Ends, Is
<1> SUFFICES ASSUME NEW a \in Attempts, attempts'[a].job = q, Holds(a)'
             PROVE  /\ attempts'[a].step # Ends(q)[2]
                    /\ attempts'[a].step = Ends(q)[1] =>
                         \A i \in DOMAIN network' : network'[i].to = a => k <= i
  BY <1>2, <1>3 DEF Removes
<1>4. a # Nobody
  BY ProvisioningAssumption DEF ProvisioningAssumption
<1>5. CASE attempts'[a].step = "idle"
  BY <1>5 DEF Ends
<1>6. CASE attempts'[a] = attempts[a] /\ attempts[a].step # "idle"
  <2>1. attempts[a].job = q /\ Holds(a)
    BY <1>1, <1>6, HeldBefore
  <2>2. /\ attempts[a].step # Ends(q)[2]
        /\ attempts[a].step = Ends(q)[1] => \A i \in DOMAIN network : network[i].to = a => k <= i
    BY <2>1 DEF Removes
  <2> QED BY <1>1, <1>6, <2>2, LaterRequests
<1>7. CASE ~Waits(a) /\ attempts'[a].step \in {"waiting", "compensating"}
  <2>1. \A i \in DOMAIN network : network[i].to # a
    BY <1>4, <1>7, Unaddressed
  <2>2. attempts'[a].step # Ends(q)[2]
    BY <1>7 DEF Ends
  <2> QED BY <1>1, <2>1, <2>2, LaterRequests
<1>8. ASSUME NEW j \in DOMAIN jobs', Sending(a, j)
      PROVE  ~Waits(a) /\ attempts'[a].step \in {"waiting", "compensating"}
  BY <1>8 DEF Sending
<1>9. CASE attempts[a].step = "answered" /\ attempts'[a].step = "compensating"
  BY <1>7, <1>9 DEF Waits
<1> QED BY <1>1, <1>5, <1>6, <1>7, <1>8, <1>9 DEF AttemptsStep

\* A job that was to remove its user and is over, has left the user to somebody.
LEMMA RemovesLeaves ==
  ASSUME Typed, Moves, Sound, Step, NEW q \in DOMAIN jobs, NEW k, Removes(q, k), ~Unfinished(q)'
  PROVE  Left(jobs[q].name)
<1>1. RowsStep /\ CareStep
  BY DEF Step
<1>2. /\ Unfinished(q) /\ jobs[q].op \in {"provision", "disable-account"}
      /\ \A a \in Attempts : attempts[a].job = q /\ Holds(a) => attempts[a].step # Ends(q)[2]
  BY DEF Removes
<1>3. jobs'[q].status \in {"completed", "failed"}
  <2>1. jobs'[q] \in Job
    BY OldRow
  <2> QED BY <2>1 DEF Unfinished, Job
<1>4. CASE jobs'[q].status = "completed"
  <2>1. Finishes(q)
    BY <1>1, <1>2, <1>4, NowCompleted DEF Unfinished
  <2>2. ~Is(q, "disable-account")
    BY <1>2, <2>1 DEF Finishes, Ends, Is
  <2>3. Is(q, "provision") /\ jobs[q].op \in Credentialed /\ jobs[q].owned
    BY <1>2, <2>2 DEF Is, Credentialed, Sound, Named
  <2>4. SameName /\ account'.status = "active" /\ Current(jobs[q])
    BY <2>1, <2>3 DEF Finishes, Stale, Matches
  <2> QED BY <2>4 DEF Left, InUse, SameName, Current
<1>5. CASE jobs'[q].status = "failed"
  <2>1. RowStep(q)
    BY <1>1 DEF RowsStep
  <2>2. jobs[q].op \in Credentialed
    BY <1>2, <1>5, <2>1 DEF RowStep, Finishes, Sending, Unfinished
  <2>3. Is(q, "provision")
    BY <1>2, <2>2 DEF Credentialed, Is
  <2>4. Fails(q)
    BY <1>2, <1>5, <2>3 DEF Fails
  <2>5. \A a \in Attempts : attempts[a].job = q /\ Holds(a) => attempts[a].step # "compensated"
    BY <1>2, <2>3 DEF Ends
  <2> QED BY <1>1, <2>4, <2>5 DEF CareStep
<1> QED BY <1>3, <1>4, <1>5

LEMMA LeftCares ==
  ASSUME NEW n, NEW k, Left(n)
  PROVE  Cares(n, k)'
<1>1. CASE n \in dropped' \/ (InUse' /\ account'.name = n)
  BY <1>1 DEF Cares
<1>2. CASE NewRemoval(n)
  <2>1. PICK d \in DOMAIN jobs' :
          jobs'[d].op = "disable-account" /\ jobs'[d].name = n /\ jobs'[d].status = "pending"
    BY <1>2 DEF NewRemoval
  <2>2. Unfinished(d)'
    BY <2>1 DEF Unfinished
  <2>3. ASSUME NEW a \in Attempts, attempts'[a].job = d
        PROVE  ~Holds(a)'
    BY <2>1, <2>3 DEF Holds
  <2>4. Removes(d, k)'
    BY <2>1, <2>2, <2>3 DEF Removes
  <2> QED BY <2>1, <2>4 DEF Cares
<1> QED BY <1>1, <1>2 DEF Left

LEMMA CaresStays ==
  ASSUME Typed, Typed', Awaited, Moves, Sound, Wanted, Step, NEW n, NEW k \in Times,
         Asked(n, k), Cares(n, k)
  PROVE  Cares(n, k)'
<1>1. CareStep
  BY DEF Step
<1>2. CASE n \in dropped
  BY <1>1, <1>2 DEF CareStep, Cares
<1>3. CASE InUse /\ account.name = n
  <2>1. Left(n)
    BY <1>1, <1>3, AskedFor DEF CareStep
  <2> QED BY <2>1, LeftCares
<1>4. ASSUME NEW q \in DOMAIN jobs, jobs[q].name = n, Removes(q, k)
      PROVE  Cares(n, k)'
  <2>1. CASE Unfinished(q)'
    <3>1. Removes(q, k)'
      BY <1>4, <2>1, RemovesStays
    <3>2. q \in DOMAIN jobs' /\ jobs'[q].name = n
      BY <1>4, OldRow DEF Fixed
    <3> QED BY <3>1, <3>2 DEF Cares
  <2>2. CASE ~Unfinished(q)'
    BY <1>4, <2>2, RemovesLeaves, LeftCares
  <2> QED BY <2>1, <2>2
<1> QED BY <1>2, <1>3, <1>4 DEF Cares

LEMMA CoveredKept ==
  ASSUME Typed, Typed', Awaited, Moves, Sound, Wanted, Covered, Step
  PROVE  Covered'
<1>1. NetworkStep /\ users' = users
  BY DEF Step, remote
<1> SUFFICES ASSUME NEW n \in Names, NEW k \in {0} \cup DOMAIN network', Asked(n, k)'
             PROVE  Cares(n, k)'
  BY DEF Covered, Times
<1>2. CASE k \in Times /\ Asked(n, k)
  BY <1>2, CaresStays DEF Covered
<1>3. CASE k = 0
  BY <1>1, <1>2, <1>3 DEF Asked, Times
<1>4. CASE k # 0
  <2>1. k \in DOMAIN network' /\ network'[k].op = "provision" /\ network'[k].name = n
    BY <1>4 DEF Asked
  <2>2. CASE k \in DOMAIN network /\ network'[k].op = network[k].op /\ network'[k].name = network[k].name
    BY <1>2, <1>4, <2>1, <2>2 DEF Asked, Times
  <2>3. ASSUME NEW a \in Attempts, NEW j \in DOMAIN jobs', Sending(a, j),
               network'[k] = RequestOf(a, j, jobs'[j])
        PROVE  Cares(n, k)'
    <3>1. jobs'[j].op = "provision" /\ jobs'[j].name = n
      BY <2>1, <2>3 DEF RequestOf
    <3>2. Unfinished(j)' /\ attempts'[a].step = "waiting" /\ jobs'[j].holder = a
      BY <2>3 DEF Sending, Unfinished
    <3>3. Ends(j)' = <<"compensating", "compensated">>
      BY <3>1 DEF Ends, Is
    <3>4. ASSUME NEW b \in Attempts, attempts'[b].job = j, Holds(b)'
          PROVE  b = a
      BY <3>2, <3>4 DEF Holds
    <3>5. Removes(j, k)'
      BY <3>1, <3>2, <3>3, <3>4 DEF Removes
    <3> QED BY <3>1, <3>5 DEF Cares
  <2>4. ASSUME NEW r, network'[k] = r, Undoes(r)
        PROVE  FALSE
    BY <2>1, <2>4 DEF Undoes
  <2> QED BY <1>1, <2>1, <2>2, <2>3, <2>4, OldOrSent
<1> QED BY <1>3, <1>4
\* Users are made by the requests that are to make them.
LEMMA UsersMade ==
  ASSUME Typed, NEW i \in DOMAIN network, Execute(i) \/ ExecutionFails(i),
         NEW n \in users', n \notin users
  PROVE  network[i].op = "provision" /\ network[i].name = n
<1> DEFINE r == network[i]
<1>1. CASE Executed(r)
  <2>1. \/ r.op = "provision" /\ users' = users \cup {r.name}
        \/ users' \subseteq users
    <3>1. r.op \in {"provision", "add-device", "revoke-device", "disable-account"}
      BY RequestColumns DEF Operations, Credentialed
    <3> HIDE DEF r
    <3>2. r.op = "provision" => users' = users \cup {r.name}
      BY <1>1 DEF Executed
    <3>3. r.op = "disable-account" => users' = users \ {r.name}
      BY <1>1 DEF Executed
    <3>4. r.op \in {"add-device", "revoke-device"} => users' = users
      BY <1>1 DEF Executed
    <3> QED BY <3>1, <3>2, <3>3, <3>4
  <2> QED BY <2>1
<1>2. CASE PartlyExecuted(r)
  <2> HIDE DEF r
  <2>1. \/ users' = users
        \/ r.op = "provision" /\ users' \in {users \ {r.name}, users \cup {r.name}}
    BY <1>2 DEF PartlyExecuted
  <2> QED BY <2>1 DEF r
<1> QED BY <1>1, <1>2 DEF Execute, ExecutionFails

LEMMA WantedServed ==
  ASSUME Typed, Sound, Wanted, NEW i \in DOMAIN network, Execute(i) \/ ExecutionFails(i)
  PROVE  Wanted'
<1>1. UNCHANGED jobs
  BY ServedServes DEF Serves, database
<1> SUFFICES ASSUME NEW n \in users'
             PROVE  Provisions(n) # {}
  BY <1>1 DEF Wanted, Provisions
<1>2. CASE n \in users
  BY <1>2 DEF Wanted
<1>3. CASE n \notin users
  <2>1. Asked(n, i) /\ i \in Times
    <3>1. i # 0
      BY DEF Typed, Shape
    <3> QED BY <1>3, <3>1, UsersMade DEF Asked, Times
  <2> QED BY <2>1, AskedFor
<1> QED BY <1>2, <1>3

LEMMA AimedServed ==
  ASSUME Typed, Awaited, Aimed, NEW i \in DOMAIN network, Serves(i)
  PROVE  Aimed'
<1>1. UNCHANGED jobs
  BY DEF Serves, database
<1> SUFFICES ASSUME NEW a \in Attempts, NEW k \in DOMAIN network', network'[k].to = a,
                    attempts'[a].step = "compensating"
             PROVE  /\ network'[k].name = jobs[attempts'[a].job].name
                    /\ Is(attempts'[a].job, "provision") => network'[k].op = "disable-account"
  BY <1>1 DEF Aimed, Is
<1>2. Before(i, k) \in DOMAIN network /\ network'[k] = network[Before(i, k)]
  BY ServedLeaves
<1>3. attempts'[a] = attempts[a]
  BY ServedAnswers
<1> QED BY <1>2, <1>3 DEF Aimed

\* Request k that is left was request m before; or users who exist, existed or
\* were made by the request that was served.
Follows(n, m, k, i) ==
  \/ k \in DOMAIN network' /\ m = Before(i, k)
  \/ k = 0 /\ m = i
  \/ k = 0 /\ m = 0 /\ n \in users'

LEMMA AskedBefore ==
  ASSUME Typed, NEW i \in DOMAIN network, Execute(i) \/ ExecutionFails(i),
         NEW n, NEW k \in {0} \cup DOMAIN network', Asked(n, k)'
  PROVE  \E m \in Times : Asked(n, m) /\ Follows(n, m, k, i)
<1>1. DOMAIN network = 1..Len(network)
  BY DEF Typed, Shape
<1>2. CASE k = 0
  <2>1. n \in users'
    BY <1>2 DEF Asked
  <2>2. CASE n \in users
    BY <1>2, <2>1, <2>2 DEF Asked, Times, Follows
  <2>3. CASE n \notin users
    <3>1. Asked(n, i) /\ i \in Times
      BY <1>1, <2>1, <2>3, UsersMade DEF Asked, Times
    <3> QED BY <1>2, <3>1 DEF Follows
  <2> QED BY <2>2, <2>3
<1>3. CASE k # 0
  <2> DEFINE m == Before(i, k)
  <2>1. k \in DOMAIN network' /\ network'[k].op = "provision" /\ network'[k].name = n
    BY <1>3 DEF Asked
  <2>2. m \in DOMAIN network /\ network'[k] = network[m]
    BY <2>1, ServedServes, ServedLeaves
  <2>3. Follows(n, m, k, i)
    BY <2>1 DEF Follows
  <2> HIDE DEF m
  <2>4. m # 0
    BY <1>1, <2>2
  <2> QED BY <2>1, <2>2, <2>3, <2>4 DEF Asked, Times
<1> QED BY <1>2, <1>3

\* No request that removes a user is answered before a request that makes it, or
\* while the user goes on to exist.
LEMMA NotRemoved ==
  ASSUME Typed, NEW i \in DOMAIN network, Execute(i), ~Overtakes(i),
         network[i].op = "disable-account", NEW n, network[i].name = n,
         NEW m \in Times, NEW k, Asked(n, m), m <= i, Follows(n, m, k, i)
  PROVE  FALSE
<1>1. CASE m # 0
  <2>1. m \in DOMAIN network /\ network[m].op = "provision" /\ network[m].name = n
    BY <1>1 DEF Asked, Times
  <2>2. m = i
    BY <2>1, NothingEarlier
  <2> QED BY <2>1, <2>2
<1>2. CASE m = 0
  <2>1. Executed(network[i])
    BY DEF Execute
  <2>2. n \notin users'
    BY <2>1 DEF Executed
  <2>3. 0 \notin DOMAIN network
    BY DEF Typed, Shape
  <2>4. \A x \in DOMAIN network' : Before(i, x) \in DOMAIN network
    BY ServedServes, ServedLeaves
  <2> QED BY <1>2, <2>2, <2>3, <2>4 DEF Follows
<1> QED BY <1>1, <1>2

LEMMA RemovesServed ==
  ASSUME Typed, Awaited, Sound, Aimed, NEW i \in DOMAIN network, Execute(i) \/ ExecutionFails(i),
         ~Overtakes(i), NEW q \in DOMAIN jobs, NEW m \in Times, NEW k \in {0} \cup DOMAIN network',
         Removes(q, m), Asked(jobs[q].name, m), Follows(jobs[q].name, m, k, i)
  PROVE  Removes(q, k)'
<1>1. Serves(i) /\ UNCHANGED jobs
  BY ServedServes DEF Serves, database
<1>2. Ends(q)' = Ends(q) /\ Unfinished(q)' = Unfinished(q)
  BY <1>1 DEF Ends, Is, Unfinished
<1> SUFFICES ASSUME NEW a \in Attempts, attempts'[a].job = q, Holds(a)'
             PROVE  /\ attempts'[a].step # Ends(q)[2]
                    /\ attempts'[a].step = Ends(q)[1] =>
                         \A x \in DOMAIN network' : network'[x].to = a => k <= x
  BY <1>1, <1>2 DEF Removes
<1>3. attempts[a].job = q /\ Holds(a)
  <2>1. attempts[a].job = q
    BY <1>1, ServedAnswers
  <2> QED BY <1>1, <2>1 DEF Holds
<1>4. /\ jobs[q].op \in {"provision", "disable-account"} /\ attempts[a].step # Ends(q)[2]
      /\ attempts[a].step = Ends(q)[1] => \A x \in DOMAIN network : network[x].to = a => m <= x
  BY <1>3 DEF Removes
<1>5. CASE attempts'[a] = attempts[a]
  <2>1. ASSUME NEW x \in DOMAIN network', network'[x].to = a, attempts[a].step = Ends(q)[1]
        PROVE  k <= x
    <3>1. Before(i, x) \in DOMAIN network /\ network[Before(i, x)].to = a
      BY <1>1, <2>1, ServedLeaves
    <3>2. m <= Before(i, x)
      BY <1>4, <2>1, <3>1
    <3>3. DOMAIN network \subseteq Int /\ DOMAIN network' \subseteq Int
      BY <1>1, ServedLeaves
    <3>4. x \in Nat
      <4>1. DOMAIN network = 1..Len(network)
        BY DEF Typed, Shape
      <4> QED BY <3>1, <3>3, <4>1 DEF Before
    <3>5. CASE k = 0
      BY <3>4, <3>5
    <3>6. CASE k \in DOMAIN network' /\ m = Before(i, k)
      BY <3>2, <3>3, <3>6 DEF Before
    <3> QED BY <3>5, <3>6 DEF Follows
  <2> QED BY <1>4, <1>5, <2>1
<1>6. ASSUME attempts'[a] # attempts[a]
      PROVE  attempts'[a].step \notin {Ends(q)[1], Ends(q)[2]}
  <2>1. /\ network[i].to = a
        /\ \/ /\ attempts[a].step = "waiting" /\ attempts'[a].step = "answered"
              /\ network[i].label = q
           \/ attempts[a].step = "compensating" /\ attempts'[a].step = "compensated"
    BY <1>1, <1>3, <1>6, ServedAnswers
  <2>2. Execute(i)
    BY <1>6 DEF ExecutionFails
  <2>3. ASSUME attempts[a].step = Ends(q)[1], network[i].op = "disable-account",
               network[i].name = jobs[q].name
        PROVE  FALSE
    <3>1. m <= i
      BY <1>4, <2>1, <2>3
    <3> QED BY <2>2, <2>3, <3>1, NotRemoved
  <2>4. CASE Is(q, "provision")
    <3>1. Ends(q) = <<"compensating", "compensated">>
      BY <2>4 DEF Ends
    <3>2. attempts[a].step = "compensating" =>
            network[i].op = "disable-account" /\ network[i].name = jobs[q].name
      BY <1>3, <2>1, <2>4 DEF Aimed
    <3>3. attempts[a].step # "compensating"
      BY <2>3, <3>1, <3>2
    <3> QED BY <2>1, <3>1, <3>3
  <2>5. CASE ~Is(q, "provision")
    <3>1. Ends(q) = <<"waiting", "answered">> /\ jobs[q].op = "disable-account"
      BY <1>4, <2>5 DEF Ends, Is
    <3>2. attempts[a].step = "waiting" => Carries(network[i])
      BY <1>3, <2>1, AnsweredCarries
    <3>3. attempts[a].step # "waiting"
      BY <2>1, <2>3, <3>1, <3>2 DEF Carries
    <3> QED BY <2>1, <3>1, <3>3
  <2> QED BY <2>4, <2>5
<1> QED BY <1>5, <1>6

LEMMA CoveredServed ==
  ASSUME Typed, Awaited, Sound, Aimed, Covered, NEW i \in DOMAIN network,
         Execute(i) \/ ExecutionFails(i), ~Overtakes(i)
  PROVE  Covered'
<1>1. UNCHANGED <<account, jobs, dropped>>
  BY DEF Execute, ExecutionFails, database
<1> SUFFICES ASSUME NEW n \in Names, NEW k \in {0} \cup DOMAIN network', Asked(n, k)'
             PROVE  Cares(n, k)'
  BY DEF Covered, Times
<1>2. PICK m \in Times : Asked(n, m) /\ Follows(n, m, k, i)
  BY AskedBefore
<1>3. Cares(n, m)
  BY <1>2 DEF Covered
<1>4. CASE n \in dropped \/ (InUse /\ account.name = n)
  BY <1>1, <1>4 DEF Cares, InUse
<1>5. ASSUME NEW q \in DOMAIN jobs, jobs[q].name = n, Removes(q, m)
      PROVE  Cares(n, k)'
  <2>1. Removes(q, k)'
    BY <1>2, <1>5, RemovesServed
  <2> QED BY <1>1, <1>5, <2>1 DEF Cares
<1> QED BY <1>3, <1>4, <1>5 DEF Cares

\* Whoever exists or was asked for, is cared for; the other two are what keeps it so.
Caring == Wanted /\ Aimed /\ (~overtaken => Covered)

LEMMA NextCares ==
  ASSUME Typed, Typed', Awaited, Moves, Sound, Caring, Next
  PROVE  Caring'
<1>1. CASE ~Served
  <2>1. Step /\ overtaken' = overtaken
    BY <1>1, NextStep DEF Step, remote
  <2> QED BY <2>1, WantedKept, AimedKept, CoveredKept DEF Caring
<1>2. ASSUME NEW i \in DOMAIN network, Execute(i) \/ ExecutionFails(i)
      PROVE  Caring'
  <2>1. Serves(i) /\ overtaken' = (overtaken \/ Overtakes(i))
    BY <1>2, ServedServes
  <2>2. ~overtaken' => ~overtaken /\ ~Overtakes(i)
    BY <2>1, Zenon
  <2> QED BY <1>2, <2>1, <2>2, WantedServed, AimedServed, CoveredServed DEF Caring
<1> QED BY <1>1, <1>2 DEF Served

LEMMA StutterCares ==
  ASSUME Caring, UNCHANGED vars
  PROVE  Caring'
<1>1. UNCHANGED <<account, jobs, attempts, network, users, dropped, overtaken>>
  BY DEF vars
<1> QED BY <1>1 DEF Caring, Wanted, Aimed, Covered, Times, Asked, Cares, Removes, Ends, Provisions,
                    Holds, Is, Unfinished, InUse

\* Nobody is forgotten at ntfy (notification-provisioning.ts and the
\* provisioner): as long as no request overtakes an earlier one of its name, a
\* user name that exists there, and that is none of the three exceptions, is the
\* account's, or a job is left that removes it, however leases run out, answers
\* come late and both sides die.
THEOREM ProvisioningNobodyForgotten == Spec => []NobodyForgotten
<1> DEFINE Inv == Typed /\ Awaited /\ Sound /\ (~overtaken => Working) /\ Caring
<1>1. Init => Inv
  <2> SUFFICES ASSUME Init PROVE Inv
    OBVIOUS
  <2>1. users = {} /\ DOMAIN network = {}
    BY DEF Init
  <2>2. Caring
    BY <2>1 DEF Caring, Wanted, Aimed, Covered, Times, Asked
  <2> QED BY <2>2, InitTyped, InitSound
<1>2. Inv /\ [Next]_vars => Inv'
  <2> SUFFICES ASSUME Typed, Awaited, Sound, ~overtaken => Working, Caring, [Next]_vars PROVE Inv'
    OBVIOUS
  <2>1. CASE Next
    <3>1. Typed' /\ Moves /\ Awaited'
      BY <2>1, NextKept DEF Kept
    <3> QED BY <2>1, <3>1, NextWorks, NextCares
  <2>2. CASE UNCHANGED vars
    BY <2>2, StutterKept, StutterWorks, StutterCares DEF Kept
  <2> QED BY <2>1, <2>2
<1>3. Inv => NobodyForgotten
  <2> SUFFICES ASSUME Typed, Caring, ~overtaken, NEW n \in users \ dropped
               PROVE  \/ n = account.name /\ InUse
                      \/ \E j \in DOMAIN jobs :
                           /\ jobs[j].name = n /\ jobs[j].op \in {"provision", "disable-account"}
                           /\ Unfinished(j)
    BY DEF NobodyForgotten
  <2>1. n \in Names /\ Asked(n, 0) /\ 0 \in Times
    BY DEF Typed, TypeOK, Asked, Times
  <2>2. Cares(n, 0)
    BY <2>1 DEF Caring, Covered
  <2> QED BY <2>2 DEF Cares, Removes
<1> HIDE DEF Inv
<1> QED BY <1>1, <1>2, <1>3, PTL DEF Spec
=============================================================================
