----------------------------- MODULE Monitoring -----------------------------
(***************************************************************************)
(* Probes of endpoints and AI targets by the server and by the agents of   *)
(* nodes, the routes that create, edit and delete monitors and nodes, the  *)
(* agent protocol, and which alerts are open.  What opening and resolving  *)
(* an alert publishes is the subject of module Alerts.                     *)
(*                                                                         *)
(* An alert belongs to a location of a monitor (the server or a node) or   *)
(* to a node; it is judged from the newest two results of its location, so *)
(* only these are kept.  Handlers of the server run without interruption   *)
(* between awaits; their statements are commits of their own, and the      *)
(* process may die between two of them.  Time stamps of equal value are    *)
(* ordered by insertion.                                                   *)
(***************************************************************************)
EXTENDS Integers, Sequences, FiniteSets

CONSTANTS Endpoints, AiTargets, Nodes,
          Server,           \* the location of results whose node_id is NULL
          Interval,         \* interval_seconds of every monitor
          OfflineAfter,     \* offline_after_seconds of every node
          MaxTime, MaxTokens, MaxCrashes  \* bounds: clock, rotations, crashes

Monitors == Endpoints \cup AiTargets
Locations == Nodes \cup {Server}

ASSUME MonitoringAssumption ==
  /\ Endpoints \cap AiTargets = {} /\ Server \notin Nodes
  /\ Nodes \cap (Monitors \X Locations) = {}   \* no alert of one is the other's
  /\ {Interval, OfflineAfter, MaxTime, MaxTokens, MaxCrashes} \subseteq Nat /\ MaxTokens > 0

VARIABLES
  now,
  monitor,    \* endpoints, ai_targets: the status of each row
  node,       \* nodes
  assigned,   \* monitor_assignments
  checks,     \* endpoint_checks, ai_checks: newest two results per location
  alerts,     \* the sources of the open alerts
  active,     \* activeChecks, and when each running check started
  agent,      \* the agent of each node: its token and its place in its loop
  reachable,  \* the targets that answer, by location
  crashes,    \* how often the server process died
  late        \* history: the results recorded since a monitor was disabled

vars == <<now, monitor, node, assigned, checks, alerts, active, agent, reachable,
          crashes, late>>

Time == 0..MaxTime
Never == -1  \* last_seen_at IS NULL

Check == [at : Time, ok : BOOLEAN, by : Locations]  \* by: history, who probed

Node == [status : {"absent", "enabled", "disabled", "deleted"},
         token : 1..MaxTokens, last_seen : Time \cup {Never}, alert_on_offline : BOOLEAN]

NewNode == [status |-> "absent", token |-> 1, last_seen |-> Never, alert_on_offline |-> TRUE]

Agent == [token : 1..MaxTokens, step : {"report", "fetch", "work"},
          todo : SUBSET Monitors, probing : SUBSET Monitors]

Sources == (Monitors \X Locations) \cup Nodes

Enabled == {m \in Monitors : monitor[m] = "enabled"}
Existing == {m \in Monitors : monitor[m] \in {"enabled", "disabled"}}
ExistingNodes == {n \in Nodes : node[n].status \in {"enabled", "disabled"}}

-----------------------------------------------------------------------------
(* Results and their judgement.                                            *)

\* The order is not descending: the oldest two.
FaultyWithResult(rows, row) ==
  IF Len(rows) < 2 THEN Append(rows, row) ELSE rows

\* The rows with one more, newest first: ORDER BY checked_at DESC LIMIT 2
WithResult(rows, row) ==
  IF rows = <<>> THEN <<row>>
  ELSE IF row.at >= rows[1].at THEN <<row, rows[1]>>
  ELSE <<rows[1], IF Len(rows) = 2 /\ rows[2].at > row.at THEN rows[2] ELSE row>>

\* recent.length >= 2 && recent.every((item) => !item.success)
Failing(rows) == Len(rows) = 2 /\ \A i \in 1..2 : ~rows[i].ok

\* The last results are taken of every location.
FaultyJudged(m, l, cs) ==
  IF \E k \in Locations : Failing(cs[m][k])
  THEN alerts \cup {<<m, l>>} ELSE alerts \ {<<m, l>>}

\* updateAlertState for location l of monitor m, after the results cs.
Judged(m, l, cs) ==
  IF Failing(cs[m][l]) THEN alerts \cup {<<m, l>>} ELSE alerts \ {<<m, l>>}

\* The process dies: what it was doing is forgotten, the database stays.
Forget == active' = [m \in Monitors |-> {}] /\ crashes' = crashes + 1

\* A result is inserted, and judged unless the process dies in between.
Record(m, l, row) ==
  /\ checks' = [checks EXCEPT ![m][l] = WithResult(@, row)]
  /\ late' = [late EXCEPT ![m][l] = IF monitor[m] = "disabled" THEN @ + 1 ELSE 0]

-----------------------------------------------------------------------------
(* The scheduler and the probes of the server.                             *)

Due(last, interval) == last = {} \/ \E t \in last : now - t >= interval

LastChecked(m) == IF checks[m][Server] = <<>> THEN {} ELSE {checks[m][Server][1].at}

DueEndpoints == {e \in Endpoints \cap Enabled : Due(LastChecked(e), Interval)}
DueAiTargets == {t \in AiTargets \cap Enabled : Due(LastChecked(t), Interval)}

\* A check starts though the previous one of its monitor is still running.
FaultyStarting == DueEndpoints \cup DueAiTargets

Starting == {m \in DueEndpoints \cup DueAiTargets : active[m] = {}}

Offline(n) == node[n].last_seen = Never \/ now - node[n].last_seen > OfflineAfter
Watched == {n \in Nodes : node[n].status = "enabled" /\ node[n].alert_on_offline}
CheckOfflineNodes ==
  (alerts \ {n \in Watched : ~Offline(n)}) \cup {n \in Watched : Offline(n)}

SchedulerTick ==
  /\ active' = [m \in Monitors |->
                  IF m \in Starting THEN active[m] \cup {now} ELSE active[m]]
  /\ alerts' = CheckOfflineNodes
  /\ UNCHANGED <<now, monitor, node, assigned, checks, agent, reachable, crashes, late>>

\* The answer, or the timeout, arrives.  An insert for a deleted monitor
\* violates its foreign key, and the rejection nobody handles ends the process.
\* The row of a deleted monitor is judged all the same: no foreign key.
FaultyFinishCheck(m, started) ==
  LET row == [at |-> started, ok |-> <<m, Server>> \in reachable, by |-> Server]
  IN /\ Record(m, Server, row)
     /\ alerts' = Judged(m, Server, checks')
     /\ active' = [active EXCEPT ![m] = @ \ {started}]
     /\ UNCHANGED <<now, monitor, node, assigned, agent, reachable, crashes>>

FinishCheck(m, started) ==
  LET row == [at |-> started, ok |-> <<m, Server>> \in reachable, by |-> Server]
  IN /\ m \in Existing
     /\ Record(m, Server, row)
     /\ alerts' = Judged(m, Server, checks')
     /\ active' = [active EXCEPT ![m] = @ \ {started}]
     /\ UNCHANGED <<now, monitor, node, assigned, agent, reachable, crashes>>

CheckDies(m, started) ==
  /\ crashes < MaxCrashes
  /\ IF m \in Existing
     THEN Record(m, Server, [at |-> started, ok |-> <<m, Server>> \in reachable, by |-> Server])
     ELSE UNCHANGED <<checks, late>>
  /\ Forget
  /\ UNCHANGED <<now, monitor, node, assigned, alerts, agent, reachable>>

RunEndpointCheck(e) ==
  /\ e \in Endpoints
  /\ \E started \in active[e] : FinishCheck(e, started) \/ CheckDies(e, started)

RunAiCheck(t) ==
  /\ t \in AiTargets
  /\ \E started \in active[t] : FinishCheck(t, started) \/ CheckDies(t, started)

-----------------------------------------------------------------------------
(* Routes of the administrator.                                            *)

\* One transaction: a node that does not exist leaves the assignments as
\* they were, whatever the handler has stored before.
ReplaceAssignments(m, nodes) ==
  assigned' = IF nodes \subseteq ExistingNodes
              THEN {a \in assigned : a[1] # m} \cup ({m} \X nodes)
              ELSE assigned

CreateMonitor(m, nodes) ==
  /\ monitor[m] = "absent"
  /\ monitor' = [monitor EXCEPT ![m] = "enabled"]
  /\ ReplaceAssignments(m, nodes)
  /\ UNCHANGED <<now, node, checks, alerts, active, agent, reachable, crashes, late>>

PatchMonitor(m, status, nodes) ==
  /\ m \in Existing
  /\ monitor' = [monitor EXCEPT ![m] = status]
  /\ ReplaceAssignments(m, nodes)
  /\ late' = IF status = "enabled" THEN [late EXCEPT ![m] = [l \in Locations |-> 0]] ELSE late
  /\ UNCHANGED <<now, node, checks, alerts, active, agent, reachable, crashes>>

OfMonitor(m) == {s \in Sources \ Nodes : s[1] = m}

\* Three statements, of which the process survives the first `done`; only the
\* deletion of the row takes the results along.
DeleteMonitor(m, done) ==
  /\ m \in Existing
  /\ done < 3 => crashes < MaxCrashes
  /\ assigned' = {a \in assigned : a[1] # m}
  /\ alerts' = IF done > 1 THEN alerts \ OfMonitor(m) ELSE alerts
  /\ IF done = 3
     THEN /\ monitor' = [monitor EXCEPT ![m] = "deleted"]
          /\ checks' = [checks EXCEPT ![m] = [l \in Locations |-> <<>>]]
          /\ late' = [late EXCEPT ![m] = [l \in Locations |-> 0]]
          /\ UNCHANGED <<active, crashes>>
     ELSE UNCHANGED <<monitor, checks, late>> /\ Forget
  /\ UNCHANGED <<now, node, agent, reachable>>

PostEndpoint(e, nodes) == e \in Endpoints /\ CreateMonitor(e, nodes)
PatchEndpoint(e, status, nodes) == e \in Endpoints /\ PatchMonitor(e, status, nodes)
DeleteEndpoint(e, done) == e \in Endpoints /\ DeleteMonitor(e, done)

PostAiTarget(t, nodes) == t \in AiTargets /\ CreateMonitor(t, nodes)
PatchAiTarget(t, status, nodes) == t \in AiTargets /\ PatchMonitor(t, status, nodes)
DeleteAiTarget(t, done) == t \in AiTargets /\ DeleteMonitor(t, done)

\* The enrollment token is shown once; installing the agent with it is
\* InstallAgent.
PostNode(n) ==
  /\ node[n].status = "absent"
  /\ \E watch \in BOOLEAN :
       node' = [node EXCEPT ![n].status = "enabled", ![n].alert_on_offline = watch]
  /\ UNCHANGED <<now, monitor, assigned, checks, alerts, active, agent, reachable,
                 crashes, late>>

PatchNode(n, status, watch) ==
  /\ n \in ExistingNodes
  /\ node' = [node EXCEPT ![n].status = status, ![n].alert_on_offline = watch]
  /\ UNCHANGED <<now, monitor, assigned, checks, alerts, active, agent, reachable,
                 crashes, late>>

RotateToken(n) ==
  /\ n \in ExistingNodes /\ node[n].token < MaxTokens
  /\ node' = [node EXCEPT ![n].token = @ + 1]
  /\ UNCHANGED <<now, monitor, assigned, checks, alerts, active, agent, reachable,
                 crashes, late>>

OfNode(n) == {s \in Sources \ Nodes : s[2] = n} \cup {n}

\* ON DELETE SET NULL: the results of the node become results of the server.
Inherited(rows, more) ==
  LET one == IF more = <<>> THEN rows ELSE WithResult(rows, more[Len(more)])
  IN IF Len(more) < 2 THEN one ELSE WithResult(one, more[1])

\* The alerts of the node, then the node and by its foreign keys the rest;
\* the process may die in between.
DeleteNode(n, done) ==
  /\ n \in ExistingNodes
  /\ done < 2 => crashes < MaxCrashes
  /\ alerts' = alerts \ OfNode(n)
  /\ IF done = 2
     THEN /\ node' = [node EXCEPT ![n] = [NewNode EXCEPT !.status = "deleted"]]
          /\ assigned' = {a \in assigned : a[2] # n}
          /\ checks' = [m \in Monitors |->
                          [checks[m] EXCEPT ![Server] = Inherited(@, checks[m][n]),
                                            ![n] = <<>>]]
          /\ UNCHANGED <<active, crashes>>
     ELSE UNCHANGED <<node, assigned, checks>> /\ Forget
  /\ UNCHANGED <<now, monitor, agent, reachable, late>>

-----------------------------------------------------------------------------
(* The agent: report, fetch the tasks, probe each that is due, submit.  A  *)
(* request may get lost on its way (`delivered`); nothing is sent again.   *)

\* The node is found by an identifier the agent sends, not by its token.
FaultyAuthorised(n) == node[n].status = "enabled"

Authorised(n) == node[n].status = "enabled" /\ agent[n].token = node[n].token

Goto(n, step, todo, probing) ==
  agent' = [agent EXCEPT ![n].step = step, ![n].todo = todo, ![n].probing = probing]

\* POST /api/agent/report
PostReport(n) ==
  node' = IF Authorised(n) THEN [node EXCEPT ![n].last_seen = now] ELSE node

ReportOnce(n, delivered) ==
  /\ agent[n].step = "report"
  /\ IF delivered THEN PostReport(n) ELSE UNCHANGED node
  /\ Goto(n, "fetch", {}, {})
  /\ UNCHANGED <<now, monitor, assigned, checks, alerts, active, reachable, crashes, late>>

\* GET /api/agent/tasks
TasksOf(n) == {m \in Enabled : <<m, n>> \in assigned}

FetchTasks(n, delivered) ==
  /\ agent[n].step = "fetch"
  /\ IF delivered /\ Authorised(n)
     THEN Goto(n, "work", TasksOf(n), {}) ELSE Goto(n, "report", {}, {})
  /\ UNCHANGED <<now, monitor, node, assigned, checks, alerts, active, reachable,
                 crashes, late>>

\* The task is probed though its monitor may have been edited since the tasks
\* were fetched; a task whose interval has not passed since its entry in
\* lastRuns is left out (isDue; the agent's clock is not modelled).
ProbeTask(n, m, isDue) ==
  /\ agent[n].step = "work" /\ agent[n].probing = {} /\ m \in agent[n].todo
  /\ Goto(n, "work", agent[n].todo \ {m}, IF isDue THEN {m} ELSE {})
  /\ UNCHANGED <<now, monitor, node, assigned, checks, alerts, active, reachable,
                 crashes, late>>

Accepted(n, m) == Authorised(n) /\ <<m, n>> \in assigned /\ m \in Existing

\* POST /api/agent/result
PostResult(n, m) ==
  IF Accepted(n, m)
  THEN /\ Record(m, n, [at |-> now, ok |-> <<m, n>> \in reachable, by |-> n])
       /\ alerts' = Judged(m, n, checks')
  ELSE UNCHANGED <<checks, alerts, late>>

\* The agent keeps a task until its result was accepted.
FaultyAfterSubmit(n, m) ==
  Goto(n, "work", IF m \in Existing THEN agent[n].todo \cup {m} ELSE agent[n].todo, {})

AfterSubmit(n, m) == Goto(n, "work", agent[n].todo, {})

\* The answer of the server is only logged.
SubmitProbeResult(n, m, delivered) ==
  /\ m \in agent[n].probing
  /\ AfterSubmit(n, m)
  /\ IF delivered THEN PostResult(n, m) ELSE UNCHANGED <<checks, alerts, late>>
  /\ UNCHANGED <<now, monitor, node, assigned, active, reachable, crashes>>

\* The server dies between the result and its judgement.
ResultDies(n, m) ==
  /\ m \in agent[n].probing /\ Accepted(n, m) /\ crashes < MaxCrashes
  /\ Record(m, n, [at |-> now, ok |-> <<m, n>> \in reachable, by |-> n])
  /\ AfterSubmit(n, m)
  /\ Forget
  /\ UNCHANGED <<now, monitor, node, assigned, alerts, reachable>>

EndCycle(n) ==
  /\ agent[n].step = "work" /\ agent[n].todo = {} /\ agent[n].probing = {}
  /\ Goto(n, "report", {}, {})
  /\ UNCHANGED <<now, monitor, node, assigned, checks, alerts, active, reachable,
                 crashes, late>>

NewAgent(token) == [token |-> token, step |-> "report", todo |-> {}, probing |-> {}]

\* The agent is installed with the token now valid.
InstallAgent(n) ==
  /\ agent' = [agent EXCEPT ![n] = NewAgent(node[n].token)]
  /\ UNCHANGED <<now, monitor, node, assigned, checks, alerts, active, reachable,
                 crashes, late>>

\* Its service manager restarts it; what it held in memory is lost.
RestartAgent(n) ==
  /\ agent' = [agent EXCEPT ![n] = NewAgent(agent[n].token)]
  /\ UNCHANGED <<now, monitor, node, assigned, checks, alerts, active, reachable,
                 crashes, late>>

-----------------------------------------------------------------------------
(* The world, and the whole.                                               *)

Crash ==
  /\ crashes < MaxCrashes /\ \E m \in Monitors : active[m] # {}
  /\ Forget
  /\ UNCHANGED <<now, monitor, node, assigned, checks, alerts, agent, reachable, late>>

\* A target stops answering at a location it is probed from, or answers again.
Turn(m, l) ==
  /\ m \in Existing /\ (l = Server \/ <<m, l>> \in assigned)
  /\ reachable' = IF <<m, l>> \in reachable THEN reachable \ {<<m, l>>}
                  ELSE reachable \cup {<<m, l>>}
  /\ UNCHANGED <<now, monitor, node, assigned, checks, alerts, active, agent, crashes, late>>

Advance ==
  /\ now < MaxTime
  /\ now' = now + 1
  /\ UNCHANGED <<monitor, node, assigned, checks, alerts, active, agent, reachable,
                 crashes, late>>

Init ==
  /\ now = 0
  /\ monitor = [m \in Monitors |-> "absent"]
  /\ node = [n \in Nodes |-> NewNode]
  /\ assigned = {} /\ alerts = {} /\ crashes = 0
  /\ checks = [m \in Monitors |-> [l \in Locations |-> <<>>]]
  /\ active = [m \in Monitors |-> {}]
  /\ agent = [n \in Nodes |-> NewAgent(1)]
  /\ reachable = Monitors \X Locations
  /\ late = [m \in Monitors |-> [l \in Locations |-> 0]]

Administrate ==
  \/ \E m \in Monitors, nodes \in SUBSET Nodes :
       \/ PostEndpoint(m, nodes) \/ PostAiTarget(m, nodes)
       \/ \E status \in {"enabled", "disabled"} :
            PatchEndpoint(m, status, nodes) \/ PatchAiTarget(m, status, nodes)
  \/ \E m \in Monitors, done \in 1..3 : DeleteEndpoint(m, done) \/ DeleteAiTarget(m, done)
  \/ \E n \in Nodes :
       \/ PostNode(n) \/ RotateToken(n)
       \/ \E status \in {"enabled", "disabled"}, watch \in BOOLEAN : PatchNode(n, status, watch)
       \/ \E done \in 1..2 : DeleteNode(n, done)

AgentStep(n) ==
  \/ \E delivered \in BOOLEAN :
       \/ ReportOnce(n, delivered) \/ FetchTasks(n, delivered)
       \/ \E m \in Monitors : SubmitProbeResult(n, m, delivered)
  \/ \E m \in Monitors : ResultDies(n, m) \/ \E isDue \in BOOLEAN : ProbeTask(n, m, isDue)
  \/ EndCycle(n)
  \/ InstallAgent(n) \/ RestartAgent(n)

Next ==
  \/ SchedulerTick
  \/ \E m \in Monitors : RunEndpointCheck(m) \/ RunAiCheck(m)
  \/ Administrate
  \/ \E n \in Nodes : AgentStep(n)
  \/ Crash
  \/ \E m \in Monitors, l \in Locations : Turn(m, l)
  \/ Advance

Spec == Init /\ [][Next]_vars

-----------------------------------------------------------------------------
TypeOK ==
  /\ now \in Time /\ crashes \in 0..MaxCrashes
  /\ monitor \in [Monitors -> {"absent", "enabled", "disabled", "deleted"}]
  /\ node \in [Nodes -> Node]
  /\ assigned \subseteq Monitors \X Nodes
  /\ checks \in [Monitors -> [Locations -> UNION {[1..k -> Check] : k \in 0..2}]]
  /\ alerts \subseteq Sources
  /\ active \in [Monitors -> SUBSET Time]
  /\ agent \in [Nodes -> Agent]
  /\ reachable \subseteq Monitors \X Locations
  /\ late \in [Monitors -> [Locations -> Nat]]

\* Whatever is deleted, and whenever the process dies on the way: no alert is
\* open, no result kept and no assignment left of a monitor or a node that is
\* gone, although probes and agents may still deliver results of it.  All
\* variables have their types.
NothingOfTheDeleted ==
  /\ TypeOK
  /\ \A m \in Monitors \ Existing :
       /\ alerts \cap OfMonitor(m) = {}
       /\ \A l \in Locations : checks[m][l] = <<>>
  /\ \A n \in Nodes \ ExistingNodes :
       /\ alerts \cap OfNode(n) = {}
       /\ \A m \in Monitors : checks[m][n] = <<>>
  /\ assigned \subseteq Existing \X ExistingNodes

\* Scheduler ticks overlap with probes that outlast them, and with restarts;
\* still two results of the server are at least the interval apart.
ProbesSpaced ==
  \A m \in Monitors :
    LET rows == checks[m][Server]
    IN Len(rows) = 2 /\ rows[1].by = Server /\ rows[2].by = Server
         => rows[1].at - rows[2].at >= Interval

\* Probes under way and tasks fetched before a monitor was disabled may still
\* yield a result, but at most one for each location.
DrainsWhenDisabled == \A m \in Monitors, l \in Locations : late[m][l] <= 1

Opened(s) == s \notin alerts /\ s \in alerts'

\* Both results an alert of a location is opened upon failed and were its own:
\* docs/architecture.md's two consecutive failures for the same target and
\* location.  The exception: the server may have inherited results of a node
\* that was deleted.
OpensUponOwnFailures ==
  [][\A m \in Monitors, l \in Locations :
       Opened(<<m, l>>) =>
         LET rows == checks'[m][l]
         IN /\ Failing(rows)
            /\ \A i \in 1..2 : rows[i].by = l \/ (l = Server /\ node[rows[i].by].status = "deleted")]_vars

\* README: rotating the token of a node puts existing installations out of
\* action at once; whatever their agent still holds, no report, result or task
\* list passes any more until it is installed again.
RotatedOut ==
  [][\A n \in Nodes :
       agent[n].token # node[n].token =>
         /\ node'[n].last_seen # node[n].last_seen => node'[n].status = "deleted"
         /\ agent'[n].todo \subseteq agent[n].todo
         /\ \A m \in Monitors : checks'[m][n] # checks[m][n] => checks'[m][n] = <<>>]_vars

-----------------------------------------------------------------------------
\* The timer of the scheduler recurs, a probe ends by its timeout, an agent is
\* restarted by its service manager and goes on; requests are not lost for
\* ever, and a task is due again and again.
Fairness ==
  /\ WF_vars(SchedulerTick)
  /\ \A m \in Monitors : WF_vars(\E started \in active[m] : FinishCheck(m, started))
  /\ \A n \in Nodes :
       /\ WF_vars(\E delivered \in BOOLEAN : ReportOnce(n, delivered))
       /\ SF_vars(FetchTasks(n, TRUE)) /\ WF_vars(EndCycle(n))
       /\ \A m \in Monitors :
            /\ WF_vars(\E isDue \in BOOLEAN : ProbeTask(n, m, isDue)) /\ SF_vars(ProbeTask(n, m, TRUE))
            /\ SF_vars(SubmitProbeResult(n, m, TRUE))
            /\ WF_vars(\E delivered \in BOOLEAN : SubmitProbeResult(n, m, delivered))

FairSpec == Spec /\ Fairness

\* A monitor that stays enabled and reachable ends without an alert of the
\* server, whatever crashed, overlapped or was deleted before.
ServerAlertsClear ==
  \A m \in Monitors :
    <>[](monitor[m] = "enabled" /\ <<m, Server>> \in reachable) => <>[](<<m, Server>> \notin alerts)

\* So does each node it is assigned to, as long as its agent holds the token.
NodeAlertsClear ==
  \A m \in Monitors, n \in Nodes :
    <>[](/\ m \in TasksOf(n) /\ Authorised(n) /\ <<m, n>> \in reachable)
      => <>[](<<m, n>> \notin alerts)

\* No alert outlives its cause for ever, at the server or at a node.
AlertsClear == ServerAlertsClear /\ NodeAlertsClear
=============================================================================
