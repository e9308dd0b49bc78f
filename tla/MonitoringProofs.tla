-------------------------- MODULE MonitoringProofs --------------------------
(***************************************************************************)
(* Proofs about probes, monitors, nodes and agents, for any number of      *)
(* them, any interval, and any number of rotations and crashes.            *)
(***************************************************************************)
EXTENDS Monitoring, TLAPS

-----------------------------------------------------------------------------
(* The inductive invariant: TypeOK and the five parts.                     *)

Living == ExistingNodes \cup {Server}

\* Nothing is left of what was deleted.
NothingLeft ==
  /\ alerts \subseteq ExistingNodes \cup (Existing \X Living)
  /\ \A m \in Monitors, l \in Locations : checks[m][l] # <<>> => m \in Existing /\ l \in Living
  /\ assigned \subseteq Existing \X ExistingNodes

NewestFirst(rows) == Len(rows) = 2 => rows[1].at >= rows[2].at

\* The results of a location are its own; those of the server may stem from a node
\* that was deleted.
OwnRow(l, row, ns) ==
  row.by = l \/ (l = Server /\ row.by \in Nodes /\ ns[row.by].status = "deleted")

ResultsSound ==
  \A m \in Monitors, l \in Locations :
    /\ NewestFirst(checks[m][l])
    /\ \A i \in DOMAIN checks[m][l] : OwnRow(l, checks[m][l][i], node)

\* One probe runs at a time, and started an interval after every result.
Spaced(rows) ==
  Len(rows) = 2 /\ rows[1].by = Server /\ rows[2].by = Server
    => rows[1].at - rows[2].at >= Interval

StartedAfter(t, rows) ==
  \A i \in DOMAIN rows : rows[i].by = Server => t - rows[i].at >= Interval

ProbesSound ==
  \A m \in Monitors :
    /\ Spaced(checks[m][Server])
    /\ \A t, u \in active[m] : t = u
    /\ \A t \in active[m] : StartedAfter(t, checks[m][Server])

\* An agent has no task twice, and none outside its work.
AgentSound(a) ==
  /\ a.step # "work" => a.todo = {} /\ a.probing = {}
  /\ a.todo \cap a.probing = {}

AgentsSound == \A n \in Nodes : AgentSound(agent[n])

\* Where a disabled monitor has yielded its last result, no probe of it is left.
DrainsSound ==
  \A m \in Monitors :
    /\ monitor[m] # "disabled" => \A l \in Locations : late[m][l] = 0
    /\ \A l \in Locations : late[m][l] <= 1
    /\ late[m][Server] # 0 => active[m] = {}
    /\ \A n \in Nodes : late[m][n] # 0 => m \notin agent[n].todo \cup agent[n].probing

IInv ==
  TypeOK /\ NothingLeft /\ ResultsSound /\ ProbesSound /\ AgentsSound /\ DrainsSound

-----------------------------------------------------------------------------
(* Rows of results.                                                        *)

Rows == UNION {[1..k -> Check] : k \in 0..2}

LEMMA RowsAre ==
  ASSUME NEW rows
  PROVE  rows \in Rows <=> rows \in Seq(Check) /\ Len(rows) \in 0..2
<1>1. ASSUME rows \in Rows
      PROVE  rows \in Seq(Check) /\ Len(rows) \in 0..2
  <2>1. PICK k \in 0..2 : rows \in [1..k -> Check]
    BY <1>1 DEF Rows
  <2> QED BY <2>1
<1>2. ASSUME rows \in Seq(Check), Len(rows) \in 0..2
      PROVE  rows \in Rows
  <2>1. rows \in [1..Len(rows) -> Check]
    BY <1>2
  <2> QED BY <1>2, <2>1 DEF Rows
<1> QED BY <1>1, <1>2

LEMMA CheckColumns ==
  ASSUME NEW row \in Check
  PROVE  row.at \in Int /\ row.by \in Locations /\ row.ok \in BOOLEAN
BY MonitoringAssumption DEF Check, Time

LEMMA ShortRows ==
  ASSUME NEW a \in Check, NEW b \in Check
  PROVE  <<>> \in Rows /\ <<a>> \in Rows /\ <<a, b>> \in Rows
<1>1. <<>> \in [1..0 -> Check]
  OBVIOUS
<1>2. <<a>> \in [1..1 -> Check]
  OBVIOUS
<1>3. <<a, b>> \in [1..2 -> Check]
  OBVIOUS
<1>4. 0 \in 0..2 /\ 1 \in 0..2 /\ 2 \in 0..2
  OBVIOUS
<1> QED BY <1>1, <1>2, <1>3, <1>4 DEF Rows

\* The newest two of the rows and one more.
LEMMA WithResultRows ==
  ASSUME NEW rows \in Rows, NEW row \in Check, NewestFirst(rows)
  PROVE  LET new == WithResult(rows, row)
         IN /\ new \in Rows /\ new # <<>> /\ NewestFirst(new)
            /\ \A i \in DOMAIN new : new[i] = row \/ \E j \in DOMAIN rows : new[i] = rows[j]
<1>1. rows \in Seq(Check) /\ Len(rows) \in 0..2
  BY RowsAre
<1>2. CASE rows = <<>>
  <2>1. WithResult(rows, row) = <<row>>
    BY <1>2 DEF WithResult
  <2>2. <<row>> \in Rows
    BY ShortRows
  <2> QED BY <2>1, <2>2 DEF NewestFirst
<1>3. CASE rows # <<>> /\ row.at >= rows[1].at
  <2>1. WithResult(rows, row) = <<row, rows[1]>>
    BY <1>3 DEF WithResult
  <2>2. rows[1] \in Check /\ 1 \in DOMAIN rows
    BY <1>1, <1>3
  <2>3. <<row, rows[1]>> \in Rows
    BY <2>2, ShortRows
  <2> QED BY <1>3, <2>1, <2>2, <2>3 DEF NewestFirst
<1>4. CASE rows # <<>> /\ ~(row.at >= rows[1].at)
  <2> DEFINE second == IF Len(rows) = 2 /\ rows[2].at > row.at THEN rows[2] ELSE row
  <2>1. WithResult(rows, row) = <<rows[1], second>>
    BY <1>4 DEF WithResult
  <2>2. rows[1] \in Check /\ 1 \in DOMAIN rows
    BY <1>1, <1>4
  <2>3. second \in Check /\ (second = row \/ (second = rows[2] /\ 2 \in DOMAIN rows))
    BY <1>1
  <2>4. rows[1].at >= second.at
    <3>1. row.at \in Int /\ rows[1].at \in Int
      BY <2>2, CheckColumns
    <3> QED BY <1>4, <3>1 DEF NewestFirst
  <2> HIDE DEF second
  <2>5. <<rows[1], second>> \in Rows
    BY <2>2, <2>3, ShortRows
  <2>6. \A i \in DOMAIN <<rows[1], second>> :
          <<rows[1], second>>[i] = row \/ \E j \in DOMAIN rows : <<rows[1], second>>[i] = rows[j]
    BY <2>2, <2>3
  <2> QED BY <2>1, <2>4, <2>5, <2>6 DEF NewestFirst
<1> QED BY <1>2, <1>3, <1>4

\* Ours: the server's own result of a probe that started an interval after them.
LEMMA SpacedWithOwn ==
  ASSUME NEW rows \in Rows, NEW row \in Check, NewestFirst(rows), row.by = Server,
         StartedAfter(row.at, rows)
  PROVE  Spaced(WithResult(rows, row))
<1>1. rows \in Seq(Check) /\ Len(rows) \in 0..2 /\ Interval \in Nat /\ row.at \in Int
  BY RowsAre, MonitoringAssumption, CheckColumns
<1>2. CASE rows = <<>>
  BY <1>2 DEF WithResult, Spaced
<1>3. CASE rows # <<>>
  <2>1. 1 \in DOMAIN rows /\ rows[1] \in Check
    BY <1>1, <1>3
  <2>2. rows[1].at \in Int /\ (rows[1].by = Server => row.at - rows[1].at >= Interval)
    BY <2>1, CheckColumns DEF StartedAfter
  <2>3. CASE row.at >= rows[1].at
    <3>1. WithResult(rows, row) = <<row, rows[1]>>
      BY <1>3, <2>3 DEF WithResult
    <3> QED BY <2>2, <3>1 DEF Spaced
  <2>4. CASE ~(row.at >= rows[1].at)
    <3>1. WithResult(rows, row)[1] = rows[1]
      BY <1>3, <2>4 DEF WithResult
    <3>2. rows[1].by # Server
      BY <1>1, <2>2, <2>4
    <3> QED BY <3>1, <3>2 DEF Spaced
  <2> QED BY <2>3, <2>4
<1> QED BY <1>2, <1>3

\* Another's.
LEMMA SpacedWithOther ==
  ASSUME NEW rows \in Rows, NEW row \in Check, row.by # Server, Spaced(rows)
  PROVE  Spaced(WithResult(rows, row))
<1>1. rows \in Seq(Check) /\ Len(rows) \in 0..2
  BY RowsAre
<1>2. CASE rows = <<>>
  BY <1>2 DEF WithResult, Spaced
<1>3. CASE rows # <<>> /\ row.at >= rows[1].at
  <2>1. WithResult(rows, row) = <<row, rows[1]>>
    BY <1>3 DEF WithResult
  <2> QED BY <2>1 DEF Spaced
<1>4. CASE rows # <<>> /\ ~(row.at >= rows[1].at)
  <2>1. WithResult(rows, row) =
          <<rows[1], IF Len(rows) = 2 /\ rows[2].at > row.at THEN rows[2] ELSE row>>
    BY <1>4 DEF WithResult
  <2> QED BY <2>1 DEF Spaced
<1> QED BY <1>2, <1>3, <1>4

\* The results of a node are taken over one after the other.
LEMMA InheritedRows ==
  ASSUME NEW rows \in Rows, NEW more \in Rows, NewestFirst(rows), Spaced(rows),
         \A i \in DOMAIN more : more[i].by # Server
  PROVE  LET new == Inherited(rows, more)
         IN /\ new \in Rows /\ NewestFirst(new) /\ Spaced(new)
            /\ \A i \in DOMAIN new : \/ \E j \in DOMAIN rows : new[i] = rows[j]
                                     \/ \E j \in DOMAIN more : new[i] = more[j]
            /\ new # <<>> => rows # <<>> \/ more # <<>>
<1> DEFINE one == IF more = <<>> THEN rows ELSE WithResult(rows, more[Len(more)])
           From(new) ==
             \A i \in DOMAIN new : \/ \E j \in DOMAIN rows : new[i] = rows[j]
                                   \/ \E j \in DOMAIN more : new[i] = more[j]
<1>1. more \in Seq(Check) /\ Len(more) \in 0..2
  BY RowsAre
<1>2. one \in Rows /\ NewestFirst(one) /\ Spaced(one) /\ From(one)
  <2>1. CASE more = <<>>
    BY <2>1
  <2>2. CASE more # <<>>
    <3>1. Len(more) \in DOMAIN more /\ more[Len(more)] \in Check
      BY <1>1, <2>2
    <3> QED BY <2>2, <3>1, WithResultRows, SpacedWithOther
  <2> QED BY <2>1, <2>2
<1>3. CASE Len(more) < 2
  <2>1. Inherited(rows, more) = one
    BY <1>3 DEF Inherited
  <2>2. one # <<>> => rows # <<>> \/ more # <<>>
    OBVIOUS
  <2> HIDE DEF one
  <2> QED BY <1>2, <2>1, <2>2
<1>4. CASE ~(Len(more) < 2)
  <2>1. Inherited(rows, more) = WithResult(one, more[1]) /\ more # <<>>
    BY <1>4 DEF Inherited
  <2>2. 1 \in DOMAIN more /\ more[1] \in Check
    BY <1>1, <1>4
  <2> HIDE DEF one
  <2>3. /\ WithResult(one, more[1]) \in Rows /\ NewestFirst(WithResult(one, more[1]))
        /\ Spaced(WithResult(one, more[1]))
        /\ \A i \in DOMAIN WithResult(one, more[1]) :
             \/ WithResult(one, more[1])[i] = more[1]
             \/ \E j \in DOMAIN one : WithResult(one, more[1])[i] = one[j]
    BY <1>2, <2>2, WithResultRows, SpacedWithOther
  <2>4. From(WithResult(one, more[1]))
    BY <1>2, <2>2, <2>3
  <2> HIDE DEF From
  <2> QED BY <2>1, <2>3, <2>4 DEF From
<1> QED BY <1>3, <1>4

-----------------------------------------------------------------------------
(* One result.                                                             *)

LEMMA ChecksTyped ==
  ASSUME TypeOK, NEW m \in Monitors, NEW l \in Locations
  PROVE  checks \in [Monitors -> [Locations -> Rows]] /\ checks[m][l] \in Rows
BY DEF TypeOK, Rows

LEMMA RecordRows ==
  ASSUME TypeOK, ResultsSound, NEW m \in Monitors, NEW l \in Locations, NEW row \in Check,
         OwnRow(l, row, node), Record(m, l, row), node' = node
  PROVE  /\ checks' \in [Monitors -> [Locations -> Rows]]
         /\ checks'[m][l] = WithResult(checks[m][l], row) /\ checks'[m][l] # <<>>
         /\ \A k \in Monitors, j \in Locations :
              k # m \/ j # l => checks'[k][j] = checks[k][j]
         /\ ResultsSound'
<1> DEFINE new == WithResult(checks[m][l], row)
<1>1. checks \in [Monitors -> [Locations -> Rows]] /\ checks[m][l] \in Rows
  BY ChecksTyped
<1>2. NewestFirst(checks[m][l]) /\ \A i \in DOMAIN checks[m][l] : OwnRow(l, checks[m][l][i], node)
  BY DEF ResultsSound
<1>3. /\ new \in Rows /\ new # <<>> /\ NewestFirst(new)
      /\ \A i \in DOMAIN new : new[i] = row \/ \E j \in DOMAIN checks[m][l] : new[i] = checks[m][l][j]
  BY <1>1, <1>2, WithResultRows
<1>4. \A i \in DOMAIN new : OwnRow(l, new[i], node)
  BY <1>2, <1>3
<1>5. checks' = [checks EXCEPT ![m][l] = new]
  BY DEF Record
<1> HIDE DEF new
<1>6. /\ checks' \in [Monitors -> [Locations -> Rows]] /\ checks'[m][l] = new
      /\ \A k \in Monitors, j \in Locations : k # m \/ j # l => checks'[k][j] = checks[k][j]
  BY <1>1, <1>3, <1>5
<1>7. ResultsSound'
  <2> SUFFICES ASSUME NEW k \in Monitors, NEW j \in Locations
               PROVE  /\ NewestFirst(checks'[k][j])
                      /\ \A i \in DOMAIN checks'[k][j] : OwnRow(j, checks'[k][j][i], node)
    BY DEF ResultsSound, NewestFirst
  <2>1. CASE k = m /\ j = l
    BY <1>3, <1>4, <1>6, <2>1
  <2>2. CASE k # m \/ j # l
    BY <1>6, <2>2 DEF ResultsSound
  <2> QED BY <2>1, <2>2
<1> QED BY <1>3, <1>6, <1>7 DEF new

LEMMA RecordLate ==
  ASSUME TypeOK, NEW m \in Monitors, NEW l \in Locations, NEW row, Record(m, l, row)
  PROVE  /\ late' \in [Monitors -> [Locations -> Nat]]
         /\ late'[m][l] = IF monitor[m] = "disabled" THEN late[m][l] + 1 ELSE 0
         /\ \A k \in Monitors, j \in Locations : k # m \/ j # l => late'[k][j] = late[k][j]
<1> DEFINE new == IF monitor[m] = "disabled" THEN late[m][l] + 1 ELSE 0
<1>1. late \in [Monitors -> [Locations -> Nat]] /\ new \in Nat
  BY DEF TypeOK
<1>2. late' = [late EXCEPT ![m][l] = new]
  BY DEF Record
<1> HIDE DEF new
<1>3. /\ late' \in [Monitors -> [Locations -> Nat]] /\ late'[m][l] = new
      /\ \A k \in Monitors, j \in Locations : k # m \/ j # l => late'[k][j] = late[k][j]
  BY <1>1, <1>2
<1> QED BY <1>3 DEF new

\* An alert is judged for an existing location of an existing monitor.
LEMMA JudgedLives ==
  ASSUME TypeOK, NothingLeft, NEW m \in Existing, NEW l \in Locations, l \in Living, NEW cs
  PROVE  /\ Judged(m, l, cs) \subseteq Sources
         /\ Judged(m, l, cs) \subseteq ExistingNodes \cup (Existing \X Living)
         /\ \A s \in Judged(m, l, cs) : s \in alerts \/ (s = <<m, l>> /\ Failing(cs[m][l]))
BY DEF TypeOK, NothingLeft, Judged, Existing, Sources

LEMMA RecordLives ==
  ASSUME TypeOK, NothingLeft, ResultsSound, NEW m \in Existing, NEW l \in Locations, l \in Living,
         NEW row \in Check, OwnRow(l, row, node), Record(m, l, row),
         UNCHANGED <<monitor, node, assigned>>,
         alerts' = alerts \/ alerts' = Judged(m, l, checks')
  PROVE  NothingLeft' /\ alerts' \subseteq Sources
<1>1. m \in Monitors
  BY DEF Existing
<1>2. \A k \in Monitors, j \in Locations : k # m \/ j # l => checks'[k][j] = checks[k][j]
  BY <1>1, RecordRows
<1>3. Existing' = Existing /\ ExistingNodes' = ExistingNodes /\ Living' = Living
  BY DEF Existing, ExistingNodes, Living
<1>4. alerts' \subseteq Sources /\ alerts' \subseteq ExistingNodes \cup (Existing \X Living)
  BY JudgedLives DEF TypeOK, NothingLeft
<1>5. \A k \in Monitors, j \in Locations : checks'[k][j] # <<>> => k \in Existing /\ j \in Living
  BY <1>2 DEF NothingLeft
<1> QED BY <1>3, <1>4, <1>5 DEF NothingLeft

\* The server's own result, after which no probe of the monitor is left.
LEMMA ServerResult ==
  ASSUME IInv, NEW m \in Existing, NEW t \in active[m], NEW row \in Check,
         row.at = t, row.by = Server, Record(m, Server, row),
         UNCHANGED <<monitor, node, assigned, agent>>,
         active' \in [Monitors -> SUBSET Time], active'[m] = {},
         \A k \in Monitors : active'[k] \subseteq active[k],
         alerts' = alerts \/ alerts' = Judged(m, Server, checks')
  PROVE  /\ checks' \in [Monitors -> [Locations -> Rows]] /\ alerts' \subseteq Sources
         /\ late' \in [Monitors -> [Locations -> Nat]]
         /\ NothingLeft' /\ ResultsSound' /\ ProbesSound' /\ DrainsSound'
<1>1. m \in Monitors /\ Server \in Locations /\ Server \in Living
  BY DEF Existing, Locations, Living
<1>2. OwnRow(Server, row, node)
  BY DEF OwnRow
<1>3. /\ checks' \in [Monitors -> [Locations -> Rows]]
      /\ checks'[m][Server] = WithResult(checks[m][Server], row)
      /\ \A k \in Monitors, j \in Locations : k # m \/ j # Server => checks'[k][j] = checks[k][j]
      /\ ResultsSound'
  BY <1>1, <1>2, RecordRows DEF IInv
<1>4. NothingLeft' /\ alerts' \subseteq Sources
  BY <1>1, <1>2, RecordLives DEF IInv
<1>5. Spaced(checks'[m][Server])
  <2>1. checks[m][Server] \in Rows /\ NewestFirst(checks[m][Server])
    BY <1>1, ChecksTyped DEF IInv, ResultsSound
  <2>2. StartedAfter(row.at, checks[m][Server])
    BY <1>1 DEF IInv, ProbesSound
  <2> QED BY <1>3, <2>1, <2>2, SpacedWithOwn
<1>6. ProbesSound'
  <2> SUFFICES ASSUME NEW k \in Monitors
               PROVE  /\ Spaced(checks'[k][Server])
                      /\ \A u, v \in active'[k] : u = v
                      /\ \A u \in active'[k] : StartedAfter(u, checks'[k][Server])
    BY DEF ProbesSound, Spaced, StartedAfter
  <2>1. CASE k = m
    BY <1>5, <2>1
  <2>2. CASE k # m
    <3>1. checks'[k][Server] = checks[k][Server] /\ active'[k] \subseteq active[k]
      BY <1>1, <1>3, <2>2
    <3> QED BY <3>1 DEF IInv, ProbesSound
  <2> QED BY <2>1, <2>2
<1>7. /\ late' \in [Monitors -> [Locations -> Nat]]
      /\ late'[m][Server] = IF monitor[m] = "disabled" THEN late[m][Server] + 1 ELSE 0
      /\ \A k \in Monitors, j \in Locations : k # m \/ j # Server => late'[k][j] = late[k][j]
  BY <1>1, RecordLate DEF IInv
<1>8. late[m][Server] = 0
  BY <1>1 DEF IInv, DrainsSound
<1>9. DrainsSound'
  <2> SUFFICES ASSUME NEW k \in Monitors
               PROVE  /\ monitor[k] # "disabled" => \A j \in Locations : late'[k][j] = 0
                      /\ \A j \in Locations : late'[k][j] <= 1
                      /\ late'[k][Server] # 0 => active'[k] = {}
                      /\ \A n \in Nodes :
                           late'[k][n] # 0 => k \notin agent[n].todo \cup agent[n].probing
    BY DEF DrainsSound
  <2>1. \A n \in Nodes : n \in Locations /\ n # Server
    BY MonitoringAssumption DEF Locations
  <2>2. CASE k = m
    BY <1>1, <1>7, <1>8, <2>1, <2>2 DEF IInv, DrainsSound
  <2>3. CASE k # m
    <3>1. \A j \in Locations : late'[k][j] = late[k][j]
      BY <1>7, <2>3
    <3> QED BY <1>1, <2>1, <3>1 DEF IInv, DrainsSound
  <2> QED BY <2>2, <2>3
<1> QED BY <1>3, <1>4, <1>6, <1>7, <1>9

\* A result an agent submits, after which it no longer has the task.
LEMMA AgentResult ==
  ASSUME IInv, NEW n \in Nodes, NEW m \in agent[n].probing, Accepted(n, m), NEW row \in Check,
         row.by = n, Record(m, n, row), UNCHANGED <<monitor, node, assigned>>,
         \A k \in Monitors : active'[k] \subseteq active[k],
         \A k \in Nodes : k # n => agent'[k] = agent[k],
         agent'[n].todo = agent[n].todo, agent'[n].probing = {},
         alerts' = alerts \/ alerts' = Judged(m, n, checks')
  PROVE  /\ checks' \in [Monitors -> [Locations -> Rows]] /\ alerts' \subseteq Sources
         /\ late' \in [Monitors -> [Locations -> Nat]]
         /\ NothingLeft' /\ ResultsSound' /\ ProbesSound' /\ DrainsSound'
<1>1. m \in Existing /\ m \in Monitors /\ n \in Locations /\ n \in Living /\ n # Server
  BY MonitoringAssumption DEF Accepted, Authorised, Existing, ExistingNodes, Locations, Living
<1>2. OwnRow(n, row, node)
  BY DEF OwnRow
<1>3. /\ checks' \in [Monitors -> [Locations -> Rows]]
      /\ \A k \in Monitors, j \in Locations : k # m \/ j # n => checks'[k][j] = checks[k][j]
      /\ ResultsSound'
  BY <1>1, <1>2, RecordRows DEF IInv
<1>4. NothingLeft' /\ alerts' \subseteq Sources
  BY <1>1, <1>2, RecordLives DEF IInv
<1>5. ProbesSound'
  <2>1. \A k \in Monitors : checks'[k][Server] = checks[k][Server] /\ active'[k] \subseteq active[k]
    BY <1>1, <1>3 DEF Locations
  <2> QED BY <2>1 DEF IInv, ProbesSound, Spaced, StartedAfter
<1>6. /\ late' \in [Monitors -> [Locations -> Nat]]
      /\ late'[m][n] = IF monitor[m] = "disabled" THEN late[m][n] + 1 ELSE 0
      /\ \A k \in Monitors, j \in Locations : k # m \/ j # n => late'[k][j] = late[k][j]
  BY <1>1, RecordLate DEF IInv
<1>7. late[m][n] = 0
  BY <1>1 DEF IInv, DrainsSound
<1>8. m \notin agent'[n].todo \cup agent'[n].probing
  BY DEF IInv, AgentsSound, AgentSound
<1>9. \A k \in Nodes : agent'[k].todo \cup agent'[k].probing \subseteq agent[k].todo \cup agent[k].probing
  OBVIOUS
<1>10. DrainsSound'
  <2> SUFFICES ASSUME NEW k \in Monitors
               PROVE  /\ monitor[k] # "disabled" => \A j \in Locations : late'[k][j] = 0
                      /\ \A j \in Locations : late'[k][j] <= 1
                      /\ late'[k][Server] # 0 => active'[k] = {}
                      /\ \A i \in Nodes :
                           late'[k][i] # 0 => k \notin agent'[i].todo \cup agent'[i].probing
    BY DEF DrainsSound
  <2>1. \A i \in Nodes : i \in Locations
    BY DEF Locations
  <2>2. late'[k][Server] = late[k][Server] /\ active'[k] \subseteq active[k]
    BY <1>1, <1>6 DEF Locations
  <2>3. CASE k = m
    BY <1>1, <1>6, <1>7, <1>8, <1>9, <2>1, <2>2, <2>3 DEF IInv, DrainsSound
  <2>4. CASE k # m
    <3>1. \A j \in Locations : late'[k][j] = late[k][j]
      BY <1>6, <2>4
    <3> QED BY <1>9, <2>1, <2>2, <3>1 DEF IInv, DrainsSound
  <2> QED BY <2>3, <2>4
<1> QED BY <1>3, <1>4, <1>5, <1>6, <1>10

-----------------------------------------------------------------------------
(* Agents and nodes.                                                       *)

LEMMA AgentMoves ==
  ASSUME IInv, NEW n \in Nodes, NEW new \in Agent, AgentSound(new),
         \A m \in new.todo \cup new.probing :
           m \in Enabled \/ m \in agent[n].todo \cup agent[n].probing,
         agent' = [agent EXCEPT ![n] = new], UNCHANGED <<monitor, active, late>>
  PROVE  agent' \in [Nodes -> Agent] /\ AgentsSound' /\ DrainsSound'
<1>1. agent \in [Nodes -> Agent]
  BY DEF IInv, TypeOK
<1>2. /\ agent' \in [Nodes -> Agent] /\ agent'[n] = new
      /\ \A k \in Nodes : k # n => agent'[k] = agent[k]
  BY <1>1
<1>3. AgentsSound'
  <2> SUFFICES ASSUME NEW k \in Nodes
               PROVE  AgentSound(agent'[k])
    BY DEF AgentsSound, AgentSound
  <2> QED BY <1>2 DEF IInv, AgentsSound
<1>4. DrainsSound'
  <2> SUFFICES ASSUME NEW m \in Monitors, NEW k \in Nodes, late[m][k] # 0
               PROVE  m \notin agent'[k].todo \cup agent'[k].probing
    BY DEF IInv, DrainsSound
  <2>1. m \notin agent[k].todo \cup agent[k].probing
    BY DEF IInv, DrainsSound
  <2>2. m \notin Enabled
    BY DEF IInv, DrainsSound, Enabled, Locations
  <2> QED BY <1>2, <2>1, <2>2
<1> QED BY <1>2, <1>3, <1>4

LEMMA GotoMoves ==
  ASSUME IInv, NEW n \in Nodes, NEW step \in {"report", "fetch", "work"},
         NEW todo \in SUBSET Monitors, NEW probing \in SUBSET Monitors, Goto(n, step, todo, probing),
         step # "work" => todo = {} /\ probing = {}, todo \cap probing = {},
         \A m \in todo \cup probing : m \in Enabled \/ m \in agent[n].todo \cup agent[n].probing,
         UNCHANGED <<monitor, active, late>>
  PROVE  agent' \in [Nodes -> Agent] /\ AgentsSound' /\ DrainsSound'
<1> DEFINE new == [agent[n] EXCEPT !.step = step, !.todo = todo, !.probing = probing]
<1>1. agent \in [Nodes -> Agent] /\ agent[n] \in Agent
  BY DEF IInv, TypeOK
<1>2. agent' = [agent EXCEPT ![n] = new]
  BY DEF Goto
<1>3. new = [agent[n] EXCEPT !.step = step, !.todo = todo, !.probing = probing]
  OBVIOUS
<1> HIDE DEF new
<1>4. /\ new \in Agent /\ new.step = step /\ new.todo = todo /\ new.probing = probing
      /\ new.token = agent[n].token
  BY <1>1, <1>3 DEF Agent
<1>5. AgentSound(new)
  BY <1>4 DEF AgentSound
<1> QED BY <1>2, <1>4, <1>5, AgentMoves

\* A row of a node that is created, edited or heard of, but not deleted.
LEMMA NodeMoves ==
  ASSUME IInv, NEW n \in Nodes, NEW new \in Node,
         n \in ExistingNodes => new.status \in {"enabled", "disabled"},
         node[n].status = "deleted" => new.status = "deleted",
         node' = [node EXCEPT ![n] = new], UNCHANGED <<monitor, assigned, checks, alerts>>
  PROVE  node' \in [Nodes -> Node] /\ NothingLeft' /\ ResultsSound'
<1>1. node \in [Nodes -> Node]
  BY DEF IInv, TypeOK
<1>2. /\ node' \in [Nodes -> Node] /\ node'[n] = new
      /\ \A k \in Nodes : k # n => node'[k] = node[k]
  BY <1>1
<1>3. Existing' = Existing /\ ExistingNodes \subseteq ExistingNodes'
  BY <1>2 DEF Existing, ExistingNodes
<1>4. Living \subseteq Living'
  BY <1>3 DEF Living
<1>5. NothingLeft'
  BY <1>3, <1>4 DEF IInv, NothingLeft
<1>6. \A k \in Nodes : node[k].status = "deleted" => node'[k].status = "deleted"
  BY <1>2
<1>7. ResultsSound'
  <2> SUFFICES ASSUME NEW m \in Monitors, NEW l \in Locations
               PROVE  /\ NewestFirst(checks[m][l])
                      /\ \A i \in DOMAIN checks[m][l] : OwnRow(l, checks[m][l][i], node')
    BY DEF ResultsSound
  <2> QED BY <1>6 DEF IInv, ResultsSound, OwnRow
<1> QED BY <1>2, <1>5, <1>7

LEMMA AuthorisedExists ==
  ASSUME NEW n \in Nodes, Authorised(n)
  PROVE  n \in ExistingNodes /\ node[n].status = "enabled"
BY DEF Authorised, ExistingNodes

LEMMA ReportOnceKeeps ==
  ASSUME IInv, NEW n \in Nodes, NEW delivered \in BOOLEAN, ReportOnce(n, delivered)
  PROVE  IInv'
<1>1. agent' \in [Nodes -> Agent] /\ AgentsSound' /\ DrainsSound'
  BY GotoMoves DEF ReportOnce
<1>2. UNCHANGED <<now, monitor, assigned, checks, alerts, active, reachable, crashes, late>>
  BY DEF ReportOnce
<1>3. node' \in [Nodes -> Node] /\ NothingLeft' /\ ResultsSound'
  <2> DEFINE new == [node[n] EXCEPT !.last_seen = now]
  <2>1. node \in [Nodes -> Node] /\ node[n] \in Node /\ now \in Time
    BY DEF IInv, TypeOK
  <2>2. new = [node[n] EXCEPT !.last_seen = now] /\ node[n] = [node[n] EXCEPT !.last_seen = @]
    BY <2>1 DEF Node
  <2>3. CASE node' = [node EXCEPT ![n].last_seen = now]
    <3>1. node' = [node EXCEPT ![n] = new]
      BY <2>3
    <3> HIDE DEF new
    <3>2. new \in Node /\ new.status = node[n].status
      BY <2>1, <2>2 DEF Node
    <3> QED BY <1>2, <3>1, <3>2, NodeMoves DEF ExistingNodes
  <2>4. CASE node' = node
    <3>1. node' = [node EXCEPT ![n] = node[n]]
      BY <2>1, <2>4
    <3> QED BY <1>2, <2>1, <3>1, NodeMoves DEF ExistingNodes
  <2> QED BY <2>3, <2>4 DEF ReportOnce, PostReport
<1>4. TypeOK'
  BY <1>1, <1>2, <1>3 DEF IInv, TypeOK
<1>5. ProbesSound'
  BY <1>2 DEF IInv, ProbesSound
<1> QED BY <1>1, <1>3, <1>4, <1>5 DEF IInv

\* A step that changes the agent of a node and nothing else.
LEMMA AgentOnly ==
  ASSUME IInv, agent' \in [Nodes -> Agent], AgentsSound', DrainsSound',
         UNCHANGED <<now, monitor, node, assigned, checks, alerts, active, reachable, crashes, late>>
  PROVE  IInv'
<1>1. TypeOK'
  BY DEF IInv, TypeOK
<1>2. NothingLeft' /\ ResultsSound' /\ ProbesSound'
  BY DEF IInv, NothingLeft, ResultsSound, ProbesSound, Existing, ExistingNodes, Living
<1> QED BY <1>1, <1>2 DEF IInv

LEMMA FetchTasksKeeps ==
  ASSUME IInv, NEW n \in Nodes, NEW delivered \in BOOLEAN, FetchTasks(n, delivered)
  PROVE  IInv'
<1>1. TasksOf(n) \subseteq Enabled /\ TasksOf(n) \subseteq Monitors
  BY DEF TasksOf, Enabled
<1>2. CASE Goto(n, "work", TasksOf(n), {})
  <2> DEFINE todo == TasksOf(n)
             probing == {}
  <2>1. /\ todo \in SUBSET Monitors /\ probing \in SUBSET Monitors /\ todo \cap probing = {}
        /\ \A m \in todo \cup probing : m \in Enabled \/ m \in agent[n].todo \cup agent[n].probing
    BY <1>1
  <2>2. Goto(n, "work", todo, probing) /\ UNCHANGED <<monitor, active, late>>
    BY <1>2 DEF FetchTasks
  <2> HIDE DEF todo, probing
  <2>3. agent' \in [Nodes -> Agent] /\ AgentsSound' /\ DrainsSound'
    BY <2>1, <2>2, GotoMoves
  <2> QED BY <2>3, AgentOnly DEF FetchTasks
<1>3. CASE Goto(n, "report", {}, {})
  <2> DEFINE todo == {}
             probing == {}
  <2>1. /\ todo \in SUBSET Monitors /\ probing \in SUBSET Monitors
        /\ todo = {} /\ probing = {} /\ todo \cap probing = {}
        /\ \A m \in todo \cup probing : m \in Enabled \/ m \in agent[n].todo \cup agent[n].probing
    OBVIOUS
  <2>2. Goto(n, "report", todo, probing) /\ UNCHANGED <<monitor, active, late>>
    BY <1>3 DEF FetchTasks
  <2> HIDE DEF todo, probing
  <2>3. agent' \in [Nodes -> Agent] /\ AgentsSound' /\ DrainsSound'
    BY <2>1, <2>2, GotoMoves
  <2> QED BY <2>3, AgentOnly DEF FetchTasks
<1> QED BY <1>2, <1>3 DEF FetchTasks

LEMMA ProbeTaskKeeps ==
  ASSUME IInv, NEW n \in Nodes, NEW m \in Monitors, NEW isDue \in BOOLEAN, ProbeTask(n, m, isDue)
  PROVE  IInv'
<1> DEFINE todo == agent[n].todo \ {m}
           probing == IF isDue THEN {m} ELSE {}
<1>1. agent[n] \in Agent /\ m \in agent[n].todo
  BY DEF IInv, TypeOK, ProbeTask
<1>2. /\ todo \in SUBSET Monitors /\ probing \in SUBSET Monitors
      /\ todo \cap probing = {} /\ todo \cup probing \subseteq agent[n].todo
  BY <1>1 DEF Agent
<1>3. Goto(n, "work", todo, probing)
  BY DEF ProbeTask
<1> HIDE DEF todo, probing
<1>4. agent' \in [Nodes -> Agent] /\ AgentsSound' /\ DrainsSound'
  BY <1>2, <1>3, GotoMoves DEF ProbeTask
<1> QED BY <1>4, AgentOnly DEF ProbeTask

LEMMA EndCycleKeeps ==
  ASSUME IInv, NEW n \in Nodes, EndCycle(n)
  PROVE  IInv'
<1>1. agent' \in [Nodes -> Agent] /\ AgentsSound' /\ DrainsSound'
  BY GotoMoves DEF EndCycle
<1> QED BY <1>1, AgentOnly DEF EndCycle

LEMMA NewAgentKeeps ==
  ASSUME IInv, NEW n \in Nodes, InstallAgent(n) \/ RestartAgent(n)
  PROVE  IInv'
<1>1. PICK token \in 1..MaxTokens : agent' = [agent EXCEPT ![n] = NewAgent(token)]
  <2>1. agent[n] \in Agent /\ node[n] \in Node
    BY DEF IInv, TypeOK
  <2> QED BY <2>1 DEF InstallAgent, RestartAgent, Agent, Node
<1>2. NewAgent(token) \in Agent /\ AgentSound(NewAgent(token))
  BY DEF NewAgent, Agent, AgentSound
<1>3. NewAgent(token).todo \cup NewAgent(token).probing = {}
  BY DEF NewAgent
<1>4. UNCHANGED <<now, monitor, node, assigned, checks, alerts, active, reachable, crashes, late>>
  BY DEF InstallAgent, RestartAgent
<1>5. agent' \in [Nodes -> Agent] /\ AgentsSound' /\ DrainsSound'
  BY <1>1, <1>2, <1>3, <1>4, AgentMoves
<1> QED BY <1>4, <1>5, AgentOnly

LEMMA SubmitProbeResultKeeps ==
  ASSUME IInv, NEW n \in Nodes, NEW m \in Monitors, NEW delivered \in BOOLEAN,
         SubmitProbeResult(n, m, delivered) \/ ResultDies(n, m)
  PROVE  IInv'
<1> DEFINE row == [at |-> now, ok |-> <<m, n>> \in reachable, by |-> n]
           todo == agent[n].todo
<1>1. m \in agent[n].probing /\ agent[n] \in Agent /\ agent \in [Nodes -> Agent]
  BY DEF SubmitProbeResult, ResultDies, IInv, TypeOK
<1>2. row \in Check /\ row.by = n
  BY DEF IInv, TypeOK, Check, Locations
<1>3. todo \in SUBSET Monitors /\ Goto(n, "work", todo, {}) /\ agent[n].step = "work"
  <2>1. agent[n].todo \subseteq Monitors
    BY <1>1 DEF Agent
  <2>2. agent[n].step = "work"
    BY <1>1 DEF IInv, AgentsSound, AgentSound
  <2> QED BY <2>1, <2>2 DEF SubmitProbeResult, ResultDies, AfterSubmit
<1>4. /\ agent' \in [Nodes -> Agent] /\ agent'[n].todo = agent[n].todo /\ agent'[n].probing = {}
      /\ \A k \in Nodes : k # n => agent'[k] = agent[k]
      /\ AgentsSound'
  <2> DEFINE new == [agent[n] EXCEPT !.step = "work", !.todo = todo, !.probing = {}]
  <2>1. agent' = [agent EXCEPT ![n] = new]
    BY <1>3 DEF Goto
  <2>2. new = [agent[n] EXCEPT !.step = "work", !.todo = todo, !.probing = {}]
    OBVIOUS
  <2> HIDE DEF new
  <2>3. new \in Agent /\ new.todo = todo /\ new.probing = {} /\ new.step = "work"
    BY <1>1, <1>3, <2>2 DEF Agent
  <2>4. /\ agent' \in [Nodes -> Agent] /\ agent'[n] = new
        /\ \A k \in Nodes : k # n => agent'[k] = agent[k]
    BY <1>1, <2>1, <2>3
  <2>5. AgentsSound'
    BY <2>3, <2>4 DEF IInv, AgentsSound, AgentSound
  <2> QED BY <2>3, <2>4, <2>5
<1>5. UNCHANGED <<now, monitor, node, assigned, reachable>>
  BY DEF SubmitProbeResult, ResultDies
<1>6. /\ active' \in [Monitors -> SUBSET Time] /\ crashes' \in 0..MaxCrashes
      /\ \A k \in Monitors : active'[k] \subseteq active[k]
  BY MonitoringAssumption DEF SubmitProbeResult, ResultDies, Forget, IInv, TypeOK
<1> HIDE DEF row
<1>7. CASE Accepted(n, m) /\ Record(m, n, row) /\ (alerts' = alerts \/ alerts' = Judged(m, n, checks'))
  <2>1. /\ checks' \in [Monitors -> [Locations -> Rows]] /\ alerts' \subseteq Sources
        /\ late' \in [Monitors -> [Locations -> Nat]]
        /\ NothingLeft' /\ ResultsSound' /\ ProbesSound' /\ DrainsSound'
    BY <1>1, <1>2, <1>4, <1>5, <1>6, <1>7, AgentResult
  <2>2. TypeOK'
    BY <1>4, <1>5, <1>6, <2>1 DEF IInv, TypeOK, Rows
  <2> QED BY <1>4, <2>1, <2>2 DEF IInv
<1>8. CASE UNCHANGED <<checks, alerts, late, active, crashes>>
  <2>1. agent' \in [Nodes -> Agent] /\ AgentsSound' /\ DrainsSound'
    BY <1>3, <1>5, <1>8, GotoMoves
  <2> QED BY <1>5, <1>8, <2>1, AgentOnly
<1> QED BY <1>7, <1>8 DEF SubmitProbeResult, ResultDies, PostResult, row

LEMMA NodeOnly ==
  ASSUME IInv, NEW n \in Nodes, PostNode(n) \/ RotateToken(n)
               \/ \E status \in {"enabled", "disabled"}, watch \in BOOLEAN : PatchNode(n, status, watch)
  PROVE  IInv'
<1>1. node \in [Nodes -> Node] /\ node[n] \in Node
  BY DEF IInv, TypeOK
<1>2. UNCHANGED <<now, monitor, assigned, checks, alerts, active, agent, reachable, crashes, late>>
  BY DEF PostNode, RotateToken, PatchNode
<1>3. node' \in [Nodes -> Node] /\ NothingLeft' /\ ResultsSound'
  <2>1. CASE RotateToken(n)
    <3> DEFINE token == node[n].token + 1
               new == [node[n] EXCEPT !.token = token]
    <3>1. token \in 1..MaxTokens
      BY <1>1, <2>1, MonitoringAssumption DEF RotateToken, Node
    <3>2. node' = [node EXCEPT ![n] = new]
      BY <2>1 DEF RotateToken
    <3>3. new = [node[n] EXCEPT !.token = token]
      OBVIOUS
    <3> HIDE DEF new, token
    <3>4. new \in Node /\ new.status = node[n].status
      BY <1>1, <3>1, <3>3 DEF Node
    <3> QED BY <1>2, <3>2, <3>4, NodeMoves DEF ExistingNodes
  <2>2. CASE PostNode(n) \/ \E status \in {"enabled", "disabled"}, watch \in BOOLEAN : PatchNode(n, status, watch)
    <3>1. PICK status \in {"enabled", "disabled"}, watch \in BOOLEAN :
            node' = [node EXCEPT ![n].status = status, ![n].alert_on_offline = watch]
      BY <2>2 DEF PostNode, PatchNode
    <3> DEFINE new == [node[n] EXCEPT !.status = status, !.alert_on_offline = watch]
    <3>2. node' = [node EXCEPT ![n] = new]
      BY <1>1, <3>1
    <3>3. new = [node[n] EXCEPT !.status = status, !.alert_on_offline = watch]
      OBVIOUS
    <3> HIDE DEF new
    <3>4. new \in Node /\ new.status = status
      BY <1>1, <3>3 DEF Node
    <3>5. node[n].status # "deleted"
      BY <2>2 DEF PostNode, PatchNode, ExistingNodes
    <3> QED BY <1>2, <3>2, <3>4, <3>5, NodeMoves
  <2> QED BY <2>1, <2>2
<1>4. TypeOK'
  BY <1>2, <1>3 DEF IInv, TypeOK
<1>5. ProbesSound' /\ AgentsSound' /\ DrainsSound'
  BY <1>2 DEF IInv, ProbesSound, AgentsSound, DrainsSound
<1> QED BY <1>3, <1>4, <1>5 DEF IInv

-----------------------------------------------------------------------------
(* The server.                                                             *)

LEMMA SchedulerTickKeeps ==
  ASSUME IInv, SchedulerTick
  PROVE  IInv'
<1>1. UNCHANGED <<now, monitor, node, assigned, checks, agent, reachable, crashes, late>>
  BY DEF SchedulerTick
<1>2. active \in [Monitors -> SUBSET Time] /\ now \in Time /\ now \in Int
  BY MonitoringAssumption DEF IInv, TypeOK, Time
<1>3. /\ active' \in [Monitors -> SUBSET Time]
      /\ \A m \in Monitors : active'[m] = IF m \in Starting THEN active[m] \cup {now} ELSE active[m]
  BY <1>2 DEF SchedulerTick
<1>4. Watched \subseteq ExistingNodes /\ Watched \subseteq Sources /\ ExistingNodes \subseteq Nodes
  BY DEF Watched, ExistingNodes, Sources
<1>5. alerts' \subseteq alerts \cup Watched
  BY DEF SchedulerTick, CheckOfflineNodes
<1>6. TypeOK'
  BY <1>1, <1>3, <1>4, <1>5 DEF IInv, TypeOK
<1>7. NothingLeft' /\ ResultsSound' /\ AgentsSound'
  BY <1>1, <1>4, <1>5
     DEF IInv, NothingLeft, Existing, ExistingNodes, Living, ResultsSound, AgentsSound
<1>8. ASSUME NEW m \in Starting
      PROVE  /\ m \in Monitors /\ active'[m] = {now} /\ monitor[m] = "enabled"
             /\ StartedAfter(now, checks[m][Server])
  <2> DEFINE rows == checks[m][Server]
  <2>1. /\ m \in Monitors /\ m \in Enabled /\ active[m] = {} /\ Due(LastChecked(m), Interval)
    BY DEF Starting, DueEndpoints, DueAiTargets, Monitors
  <2>2. rows \in Rows /\ NewestFirst(rows)
    BY <2>1, ChecksTyped DEF IInv, ResultsSound, Locations
  <2>3. rows \in Seq(Check) /\ Len(rows) \in 0..2
    BY <2>2, RowsAre
  <2>4. LastChecked(m) = IF rows = <<>> THEN {} ELSE {rows[1].at}
    BY DEF LastChecked
  <2> HIDE DEF rows
  <2>5. ASSUME NEW j \in DOMAIN rows
        PROVE  now - rows[j].at >= Interval
    <3>1. rows # <<>> /\ 1 \in DOMAIN rows /\ (j = 1 \/ (j = 2 /\ Len(rows) = 2))
      BY <2>3, <2>5
    <3>2. now - rows[1].at >= Interval
      BY <2>1, <2>4, <3>1 DEF Due
    <3>3. rows[1].at \in Int /\ rows[j].at \in Int /\ Interval \in Int
      BY <2>3, <3>1, CheckColumns, MonitoringAssumption
    <3> QED BY <1>2, <2>2, <3>1, <3>2, <3>3 DEF NewestFirst
  <2> QED BY <1>3, <2>1, <2>5 DEF StartedAfter, Enabled, rows
<1>9. ProbesSound'
  <2> SUFFICES ASSUME NEW m \in Monitors
               PROVE  /\ Spaced(checks[m][Server])
                      /\ \A t, u \in active'[m] : t = u
                      /\ \A t \in active'[m] : StartedAfter(t, checks[m][Server])
    BY <1>1 DEF ProbesSound
  <2> QED BY <1>3, <1>8 DEF IInv, ProbesSound
<1>10. DrainsSound'
  <2> SUFFICES ASSUME NEW m \in Monitors, late[m][Server] # 0
               PROVE  active'[m] = {}
    BY <1>1 DEF IInv, DrainsSound
  <2>1. monitor[m] = "disabled" /\ active[m] = {}
    BY DEF IInv, DrainsSound, Locations
  <2> QED BY <1>3, <1>8, <2>1
<1> QED BY <1>6, <1>7, <1>9, <1>10 DEF IInv

\* The process dies, with or without more.
LEMMA Forgotten ==
  ASSUME Forget, crashes < MaxCrashes, IInv
  PROVE  /\ active' \in [Monitors -> SUBSET Time] /\ crashes' \in 0..MaxCrashes
         /\ \A k \in Monitors : active'[k] = {} /\ active'[k] \subseteq active[k]
BY MonitoringAssumption DEF Forget, IInv, TypeOK

LEMMA RunCheckKeeps ==
  ASSUME IInv, NEW m \in Monitors, NEW started \in active[m],
         FinishCheck(m, started) \/ CheckDies(m, started)
  PROVE  IInv'
<1> DEFINE row == [at |-> started, ok |-> <<m, Server>> \in reachable, by |-> Server]
<1>1. /\ UNCHANGED <<now, monitor, node, assigned, agent, reachable>>
      /\ AgentsSound'
  BY DEF FinishCheck, CheckDies, IInv, AgentsSound
<1>2. active \in [Monitors -> SUBSET Time] /\ row \in Check /\ row.at = started /\ row.by = Server
  BY DEF IInv, TypeOK, Check, Locations
<1> HIDE DEF row
<1>3. /\ active' \in [Monitors -> SUBSET Time] /\ active'[m] = {} /\ crashes' \in 0..MaxCrashes
      /\ \A k \in Monitors : active'[k] \subseteq active[k]
  <2>1. CASE FinishCheck(m, started)
    <3>1. active' = [active EXCEPT ![m] = @ \ {started}] /\ crashes' = crashes
      BY <2>1 DEF FinishCheck
    <3>2. active[m] \ {started} = {}
      BY DEF IInv, ProbesSound
    <3> QED BY <1>2, <3>1, <3>2 DEF IInv, TypeOK
  <2>2. CASE CheckDies(m, started)
    BY <2>2, Forgotten DEF CheckDies
  <2> QED BY <2>1, <2>2
<1>4. CASE /\ m \in Existing /\ Record(m, Server, row)
           /\ alerts' = alerts \/ alerts' = Judged(m, Server, checks')
  <2>1. /\ checks' \in [Monitors -> [Locations -> Rows]] /\ alerts' \subseteq Sources
        /\ late' \in [Monitors -> [Locations -> Nat]]
        /\ NothingLeft' /\ ResultsSound' /\ ProbesSound' /\ DrainsSound'
    BY <1>1, <1>2, <1>3, <1>4, ServerResult
  <2>2. TypeOK'
    BY <1>1, <1>3, <2>1 DEF IInv, TypeOK, Rows
  <2> QED BY <1>1, <2>1, <2>2 DEF IInv
<1>5. CASE UNCHANGED <<checks, alerts, late>>
  <2>1. TypeOK'
    BY <1>1, <1>3, <1>5 DEF IInv, TypeOK
  <2>2. NothingLeft' /\ ResultsSound'
    BY <1>1, <1>5 DEF IInv, NothingLeft, Existing, ExistingNodes, Living, ResultsSound
  <2>3. ProbesSound'
    BY <1>3, <1>5 DEF IInv, ProbesSound
  <2>4. DrainsSound'
    BY <1>1, <1>3, <1>5 DEF IInv, DrainsSound
  <2> QED BY <1>1, <2>1, <2>2, <2>3, <2>4 DEF IInv
<1> QED BY <1>4, <1>5 DEF FinishCheck, CheckDies, row

LEMMA WorldKeeps ==
  ASSUME IInv, Crash \/ Advance \/ \E m \in Monitors, l \in Locations : Turn(m, l)
  PROVE  IInv'
<1>1. UNCHANGED <<monitor, node, assigned, checks, alerts, agent, late>>
  BY DEF Crash, Advance, Turn
<1>2. /\ active' \in [Monitors -> SUBSET Time] /\ crashes' \in 0..MaxCrashes
      /\ \A k \in Monitors : active'[k] \subseteq active[k]
  BY Forgotten DEF Crash, Advance, Turn, IInv, TypeOK
<1>3. now' \in Time /\ reachable' \subseteq Monitors \X Locations
  <2>1. now \in Time /\ reachable \subseteq Monitors \X Locations
    BY DEF IInv, TypeOK
  <2>2. CASE Crash
    BY <2>1, <2>2 DEF Crash
  <2>3. CASE Advance
    BY <2>1, <2>3, MonitoringAssumption DEF Advance, Time
  <2>4. CASE \E m \in Monitors, l \in Locations : Turn(m, l)
    <3>1. PICK m \in Monitors, l \in Locations : Turn(m, l)
      BY <2>4
    <3>2. reachable' \subseteq reachable \cup {<<m, l>>} /\ now' = now
      BY <3>1 DEF Turn
    <3> QED BY <2>1, <3>2
  <2> QED BY <2>2, <2>3, <2>4
<1>4. TypeOK'
  BY <1>1, <1>2, <1>3 DEF IInv, TypeOK
<1>5. NothingLeft' /\ ResultsSound' /\ AgentsSound'
  BY <1>1 DEF IInv, NothingLeft, Existing, ExistingNodes, Living, ResultsSound, AgentsSound
<1>6. ProbesSound'
  BY <1>1, <1>2 DEF IInv, ProbesSound
<1>7. DrainsSound'
  BY <1>1, <1>2 DEF IInv, DrainsSound
<1> QED BY <1>4, <1>5, <1>6, <1>7 DEF IInv

-----------------------------------------------------------------------------
(* The administrator.                                                      *)

LEMMA ReplacedAssignments ==
  ASSUME IInv, NEW m \in Monitors, NEW nodes \in SUBSET Nodes, ReplaceAssignments(m, nodes)
  PROVE  /\ assigned' \subseteq Monitors \X Nodes
         /\ assigned' \subseteq (Existing \cup {m}) \X ExistingNodes
<1>1. assigned \subseteq Monitors \X Nodes /\ assigned \subseteq Existing \X ExistingNodes
  BY DEF IInv, TypeOK, NothingLeft
<1>2. CASE nodes \subseteq ExistingNodes
  <2>1. assigned' \subseteq assigned \cup ({m} \X nodes)
    BY <1>2 DEF ReplaceAssignments
  <2> QED BY <1>1, <1>2, <2>1
<1>3. CASE ~(nodes \subseteq ExistingNodes)
  BY <1>1, <1>3 DEF ReplaceAssignments
<1> QED BY <1>2, <1>3

\* A monitor that is created, enabled or disabled.
LEMMA MonitorKeeps ==
  ASSUME IInv, NEW m \in Monitors, NEW nodes \in SUBSET Nodes,
         CreateMonitor(m, nodes)
           \/ \E status \in {"enabled", "disabled"} : PatchMonitor(m, status, nodes)
  PROVE  IInv'
<1>1. PICK status \in {"enabled", "disabled"} :
        /\ monitor[m] = "absent" => status = "enabled"
        /\ monitor' = [monitor EXCEPT ![m] = status]
        /\ \/ late' = [late EXCEPT ![m] = [l \in Locations |-> 0]]
           \/ late' = late /\ (status = "disabled" \/ monitor[m] = "absent")
  <2>1. CASE CreateMonitor(m, nodes)
    BY <2>1 DEF CreateMonitor
  <2>2. CASE \E status \in {"enabled", "disabled"} : PatchMonitor(m, status, nodes)
    <3>1. PICK status \in {"enabled", "disabled"} : PatchMonitor(m, status, nodes)
      BY <2>2
    <3> QED BY <3>1 DEF PatchMonitor, Existing
  <2> QED BY <2>1, <2>2
<1>2. /\ UNCHANGED <<now, node, checks, alerts, active, agent, reachable, crashes>>
      /\ ReplaceAssignments(m, nodes)
  BY DEF CreateMonitor, PatchMonitor
<1>3. /\ monitor \in [Monitors -> {"absent", "enabled", "disabled", "deleted"}]
      /\ late \in [Monitors -> [Locations -> Nat]]
  BY DEF IInv, TypeOK
<1>4. /\ monitor' \in [Monitors -> {"absent", "enabled", "disabled", "deleted"}]
      /\ monitor'[m] = status /\ \A k \in Monitors : k # m => monitor'[k] = monitor[k]
  BY <1>1, <1>3
<1>5. /\ late' \in [Monitors -> [Locations -> Nat]]
      /\ \A k \in Monitors : k # m => late'[k] = late[k]
      /\ late'[m] = [l \in Locations |-> 0]
           \/ (late'[m] = late[m] /\ (status = "disabled" \/ monitor[m] = "absent"))
  BY <1>1, <1>3
<1>6. Existing' = Existing \cup {m} /\ ExistingNodes' = ExistingNodes /\ Living' = Living
  BY <1>2, <1>4 DEF Existing, ExistingNodes, Living
<1>7. assigned' \subseteq Monitors \X Nodes /\ assigned' \subseteq Existing' \X ExistingNodes'
  BY <1>2, <1>6, ReplacedAssignments
<1>8. TypeOK'
  BY <1>2, <1>4, <1>5, <1>7 DEF IInv, TypeOK
<1>9. NothingLeft'
  BY <1>2, <1>6, <1>7 DEF IInv, NothingLeft
<1>10. ResultsSound' /\ ProbesSound' /\ AgentsSound'
  BY <1>2 DEF IInv, ResultsSound, ProbesSound, AgentsSound
<1>11. DrainsSound'
  <2> SUFFICES ASSUME NEW k \in Monitors
               PROVE  /\ monitor'[k] # "disabled" => \A l \in Locations : late'[k][l] = 0
                      /\ \A l \in Locations : late'[k][l] <= 1
                      /\ late'[k][Server] # 0 => active[k] = {}
                      /\ \A n \in Nodes : late'[k][n] # 0 => k \notin agent[n].todo \cup agent[n].probing
    BY <1>2 DEF DrainsSound
  <2>1. Server \in Locations /\ Nodes \subseteq Locations
    BY DEF Locations
  <2>2. CASE k # m
    BY <1>4, <1>5, <2>2 DEF IInv, DrainsSound
  <2>3. CASE k = m /\ late'[m] = [l \in Locations |-> 0]
    BY <2>1, <2>3
  <2>4. CASE k = m /\ late'[m] = late[m] /\ (status = "disabled" \/ monitor[m] = "absent")
    BY <1>1, <1>4, <2>1, <2>4 DEF IInv, DrainsSound
  <2> QED BY <1>5, <2>2, <2>3, <2>4
<1> QED BY <1>8, <1>9, <1>10, <1>11 DEF IInv

\* Alerts of a location are told from those of a node.
LEMMA PairsAreNotNodes ==
  ASSUME NEW k \in Monitors, NEW l \in Locations
  PROVE  <<k, l>> \in Sources \ Nodes
BY MonitoringAssumption DEF Sources

LEMMA DeleteMonitorKeeps ==
  ASSUME IInv, NEW m \in Monitors, NEW done \in 1..3, DeleteMonitor(m, done)
  PROVE  IInv'
<1>1. UNCHANGED <<now, node, agent, reachable>> /\ assigned' = {a \in assigned : a[1] # m}
  BY DEF DeleteMonitor
<1>2. ExistingNodes' = ExistingNodes /\ Living' = Living /\ ExistingNodes \subseteq Nodes
  BY <1>1 DEF ExistingNodes, Living
<1>3. AgentsSound'
  BY <1>1 DEF IInv, AgentsSound
<1>4. CASE done = 3
  <2>1. /\ monitor' = [monitor EXCEPT ![m] = "deleted"]
        /\ checks' = [checks EXCEPT ![m] = [l \in Locations |-> <<>>]]
        /\ late' = [late EXCEPT ![m] = [l \in Locations |-> 0]]
        /\ alerts' = alerts \ OfMonitor(m) /\ UNCHANGED <<active, crashes>>
    BY <1>4 DEF DeleteMonitor
  <2>2. /\ monitor \in [Monitors -> {"absent", "enabled", "disabled", "deleted"}]
        /\ checks \in [Monitors -> [Locations -> Rows]] /\ <<>> \in Rows
        /\ late \in [Monitors -> [Locations -> Nat]]
    <3>1. <<>> \in [1..0 -> Check] /\ 0 \in 0..2
      OBVIOUS
    <3> QED BY <3>1 DEF IInv, TypeOK, Rows
  <2>3. /\ monitor' \in [Monitors -> {"absent", "enabled", "disabled", "deleted"}]
        /\ monitor'[m] = "deleted" /\ \A k \in Monitors : k # m => monitor'[k] = monitor[k]
    BY <2>1, <2>2
  <2>4. /\ checks' \in [Monitors -> [Locations -> Rows]]
        /\ \A l \in Locations : checks'[m][l] = <<>>
        /\ \A k \in Monitors : k # m => checks'[k] = checks[k]
    BY <2>1, <2>2
  <2>5. /\ late' \in [Monitors -> [Locations -> Nat]]
        /\ \A l \in Locations : late'[m][l] = 0
        /\ \A k \in Monitors : k # m => late'[k] = late[k]
    BY <2>1, <2>2
  <2>6. Existing' = Existing \ {m} /\ Existing \subseteq Monitors /\ Living \subseteq Locations
    BY <2>3 DEF Existing, Living, ExistingNodes, Locations
  <2>7. TypeOK'
    BY <1>1, <2>1, <2>3, <2>4, <2>5 DEF IInv, TypeOK, Rows
  <2>8. alerts' \subseteq ExistingNodes \cup (Existing' \X Living)
    <3> SUFFICES ASSUME NEW s \in alerts, s \notin OfMonitor(m), s \notin ExistingNodes
                 PROVE  s \in Existing' \X Living
      BY <2>1
    <3>1. PICK k \in Existing, l \in Living : s = <<k, l>>
      BY DEF IInv, NothingLeft
    <3>2. k # m
      BY <2>6, <3>1, PairsAreNotNodes DEF OfMonitor
    <3> QED BY <2>6, <3>1, <3>2
  <2>9. assigned' \subseteq Existing' \X ExistingNodes
    BY <1>1, <2>6 DEF IInv, NothingLeft
  <2>10. NothingLeft'
    <3>1. \A k \in Monitors, l \in Locations : checks'[k][l] # <<>> => k \in Existing' /\ l \in Living
      BY <2>4, <2>6 DEF IInv, NothingLeft
    <3> QED BY <1>2, <2>8, <2>9, <3>1 DEF NothingLeft
  <2>11. ResultsSound'
    <3> SUFFICES ASSUME NEW k \in Monitors, NEW l \in Locations
                 PROVE  /\ NewestFirst(checks'[k][l])
                        /\ \A i \in DOMAIN checks'[k][l] : OwnRow(l, checks'[k][l][i], node)
      BY <1>1 DEF ResultsSound, NewestFirst
    <3> QED BY <2>4 DEF IInv, ResultsSound, NewestFirst
  <2>12. ProbesSound'
    <3> SUFFICES ASSUME NEW k \in Monitors
                 PROVE  /\ Spaced(checks'[k][Server])
                        /\ \A t, u \in active[k] : t = u
                        /\ \A t \in active[k] : StartedAfter(t, checks'[k][Server])
      BY <2>1 DEF ProbesSound, Spaced, StartedAfter
    <3>1. Server \in Locations
      BY DEF Locations
    <3>2. CASE k = m
      <4>1. checks'[k][Server] = <<>>
        BY <2>4, <3>1, <3>2
      <4>2. Spaced(checks'[k][Server]) /\ \A t \in active[k] : StartedAfter(t, checks'[k][Server])
        BY <4>1 DEF Spaced, StartedAfter
      <4> QED BY <4>2 DEF IInv, ProbesSound
    <3>3. CASE k # m
      BY <2>4, <3>3 DEF IInv, ProbesSound
    <3> QED BY <3>2, <3>3
  <2>13. DrainsSound'
    <3>1. Server \in Locations /\ Nodes \subseteq Locations
      BY DEF Locations
    <3> QED BY <1>1, <2>1, <2>3, <2>5, <3>1 DEF IInv, DrainsSound
  <2> QED BY <1>3, <2>7, <2>10, <2>11, <2>12, <2>13 DEF IInv
<1>5. CASE done # 3
  <2>1. /\ UNCHANGED <<monitor, checks, late>> /\ Forget /\ crashes < MaxCrashes
        /\ alerts' \subseteq alerts
    BY <1>5 DEF DeleteMonitor
  <2>2. /\ active' \in [Monitors -> SUBSET Time] /\ crashes' \in 0..MaxCrashes
        /\ \A k \in Monitors : active'[k] = {}
    BY <2>1, Forgotten
  <2>3. TypeOK'
    BY <1>1, <2>1, <2>2 DEF IInv, TypeOK
  <2>4. Existing' = Existing
    BY <2>1 DEF Existing
  <2>5. NothingLeft' /\ ResultsSound'
    BY <1>1, <1>2, <2>1, <2>4 DEF IInv, NothingLeft, ResultsSound
  <2>6. ProbesSound' /\ DrainsSound'
    BY <1>1, <2>1, <2>2 DEF IInv, ProbesSound, DrainsSound
  <2> QED BY <1>3, <2>3, <2>5, <2>6 DEF IInv
<1> QED BY <1>4, <1>5

\* The server inherits the results of the node.
LEMMA InheritKeeps ==
  ASSUME IInv, NEW n \in Nodes,
         checks' = [m \in Monitors |-> [checks[m] EXCEPT ![Server] = Inherited(@, checks[m][n]),
                                                         ![n] = <<>>]],
         \A k \in Nodes : node[k].status = "deleted" => node'[k].status = "deleted",
         node'[n].status = "deleted", active' = active
  PROVE  /\ checks' \in [Monitors -> [Locations -> Rows]] /\ ResultsSound' /\ ProbesSound'
         /\ \A m \in Monitors, l \in Locations :
              checks'[m][l] # <<>> =>
                l # n /\ (checks[m][l] # <<>> \/ (l = Server /\ checks[m][n] # <<>>))
<1>1. Server \in Locations /\ n \in Locations /\ n # Server
  BY MonitoringAssumption DEF Locations
<1>2. checks \in [Monitors -> [Locations -> Rows]] /\ <<>> \in Rows
  <2>1. <<>> \in [1..0 -> Check] /\ 0 \in 0..2
    OBVIOUS
  <2> QED BY <2>1 DEF IInv, TypeOK, Rows
<1>3. ASSUME NEW m \in Monitors
      PROVE  LET new == Inherited(checks[m][Server], checks[m][n])
             IN /\ new \in Rows /\ NewestFirst(new) /\ Spaced(new)
                /\ \A i \in DOMAIN new :
                     \/ \E j \in DOMAIN checks[m][Server] : new[i] = checks[m][Server][j]
                     \/ \E j \in DOMAIN checks[m][n] : new[i] = checks[m][n][j]
                /\ new # <<>> => checks[m][Server] # <<>> \/ checks[m][n] # <<>>
  <2>1. /\ checks[m][Server] \in Rows /\ checks[m][n] \in Rows
        /\ NewestFirst(checks[m][Server]) /\ Spaced(checks[m][Server])
    BY <1>1, <1>2 DEF IInv, ResultsSound, ProbesSound
  <2>2. \A i \in DOMAIN checks[m][n] : checks[m][n][i].by # Server
    BY <1>1 DEF IInv, ResultsSound, OwnRow
  <2> QED BY <2>1, <2>2, InheritedRows
<1>4. ASSUME NEW m \in Monitors
      PROVE  /\ checks'[m] \in [Locations -> Rows] /\ checks'[m][n] = <<>>
             /\ checks'[m][Server] = Inherited(checks[m][Server], checks[m][n])
             /\ \A l \in Locations : l # n /\ l # Server => checks'[m][l] = checks[m][l]
  <2> DEFINE new == Inherited(checks[m][Server], checks[m][n])
  <2>1. new \in Rows /\ checks[m] \in [Locations -> Rows]
    BY <1>2, <1>3
  <2>2. checks'[m] = [checks[m] EXCEPT ![Server] = new, ![n] = <<>>]
    OBVIOUS
  <2> HIDE DEF new
  <2>3. /\ checks'[m] \in [Locations -> Rows] /\ checks'[m][n] = <<>> /\ checks'[m][Server] = new
        /\ \A l \in Locations : l # n /\ l # Server => checks'[m][l] = checks[m][l]
    BY <1>1, <1>2, <2>1, <2>2
  <2> QED BY <2>3 DEF new
<1>5. checks' \in [Monitors -> [Locations -> Rows]]
  BY <1>4
<1>6. ASSUME NEW m \in Monitors, NEW l \in Locations
      PROVE  /\ NewestFirst(checks'[m][l])
             /\ \A i \in DOMAIN checks'[m][l] : OwnRow(l, checks'[m][l][i], node')
  <2>1. CASE l = n
    BY <1>4, <2>1 DEF NewestFirst
  <2>2. CASE l = Server
    <3> DEFINE new == Inherited(checks[m][Server], checks[m][n])
    <3>1. checks'[m][l] = new /\ NewestFirst(new)
      BY <1>3, <1>4, <2>2
    <3>2. \A j \in DOMAIN checks[m][Server] : OwnRow(Server, checks[m][Server][j], node')
      BY <1>1 DEF IInv, ResultsSound, OwnRow
    <3>3. \A j \in DOMAIN checks[m][n] : OwnRow(Server, checks[m][n][j], node')
      BY <1>1 DEF IInv, ResultsSound, OwnRow
    <3>4. \A i \in DOMAIN new : OwnRow(Server, new[i], node')
      BY <1>3, <3>2, <3>3
    <3> HIDE DEF new
    <3> QED BY <2>2, <3>1, <3>4
  <2>3. CASE l # n /\ l # Server
    BY <1>4, <2>3 DEF IInv, ResultsSound, OwnRow
  <2> QED BY <2>1, <2>2, <2>3
<1>7. ResultsSound'
  BY <1>6 DEF ResultsSound, NewestFirst
<1>8. ProbesSound'
  <2> SUFFICES ASSUME NEW m \in Monitors
               PROVE  /\ Spaced(checks'[m][Server])
                      /\ \A t, u \in active[m] : t = u
                      /\ \A t \in active[m] : StartedAfter(t, checks'[m][Server])
    BY DEF ProbesSound, Spaced, StartedAfter
  <2> DEFINE new == Inherited(checks[m][Server], checks[m][n])
  <2>1. checks'[m][Server] = new /\ Spaced(new)
    BY <1>3, <1>4
  <2>2. \A j \in DOMAIN checks[m][n] : checks[m][n][j].by # Server
    BY <1>1 DEF IInv, ResultsSound, OwnRow
  <2>3. \A t \in active[m] : StartedAfter(t, new)
    <3>1. \A t \in active[m] : StartedAfter(t, checks[m][Server])
      BY DEF IInv, ProbesSound
    <3> QED BY <1>3, <2>2, <3>1 DEF StartedAfter
  <2> HIDE DEF new
  <2> QED BY <2>1, <2>3 DEF IInv, ProbesSound
<1>9. ASSUME NEW m \in Monitors, NEW l \in Locations, checks'[m][l] # <<>>
      PROVE  l # n /\ (checks[m][l] # <<>> \/ (l = Server /\ checks[m][n] # <<>>))
  <2>1. l # n
    BY <1>4, <1>9
  <2>2. CASE l = Server
    BY <1>3, <1>4, <1>9, <2>1, <2>2
  <2>3. CASE l # Server
    BY <1>4, <1>9, <2>1, <2>3
  <2> QED BY <2>1, <2>2, <2>3
<1> QED BY <1>5, <1>7, <1>8, <1>9

LEMMA NewNodeTyped ==
  NewNode \in Node /\ NewNode.status = "absent" /\ NewNode.token = 1
<1>1. 1 \in 1..MaxTokens
  BY MonitoringAssumption
<1> QED BY <1>1 DEF NewNode, Node

LEMMA DeleteNodeKeeps ==
  ASSUME IInv, NEW n \in Nodes, NEW done \in 1..2, DeleteNode(n, done)
  PROVE  IInv'
<1>1. /\ UNCHANGED <<now, monitor, agent, reachable, late>> /\ alerts' = alerts \ OfNode(n)
      /\ Existing' = Existing
  BY DEF DeleteNode, Existing
<1>2. AgentsSound'
  BY <1>1 DEF IInv, AgentsSound
<1>3. CASE done = 2
  <2> DEFINE new == [NewNode EXCEPT !.status = "deleted"]
  <2>1. /\ node' = [node EXCEPT ![n] = new] /\ assigned' = {a \in assigned : a[2] # n}
        /\ checks' = [m \in Monitors |-> [checks[m] EXCEPT ![Server] = Inherited(@, checks[m][n]),
                                                           ![n] = <<>>]]
        /\ UNCHANGED <<active, crashes>>
    BY <1>3 DEF DeleteNode
  <2>2. new \in Node /\ new.status = "deleted"
    BY NewNodeTyped DEF Node
  <2> HIDE DEF new
  <2>3. /\ node' \in [Nodes -> Node] /\ node'[n].status = "deleted"
        /\ \A k \in Nodes : k # n => node'[k] = node[k]
    BY <2>1, <2>2 DEF IInv, TypeOK
  <2>4. /\ checks' \in [Monitors -> [Locations -> Rows]] /\ ResultsSound' /\ ProbesSound'
        /\ \A m \in Monitors, l \in Locations :
             checks'[m][l] # <<>> =>
               l # n /\ (checks[m][l] # <<>> \/ (l = Server /\ checks[m][n] # <<>>))
    BY <2>1, <2>3, InheritKeeps
  <2>5. /\ ExistingNodes' = ExistingNodes \ {n} /\ n # Server /\ Living' = Living \ {n}
        /\ Existing \subseteq Monitors /\ Living \subseteq Locations
    BY <2>3, MonitoringAssumption DEF ExistingNodes, Living, Existing, Locations
  <2>6. TypeOK'
    BY <1>1, <2>1, <2>3, <2>4 DEF IInv, TypeOK, Rows
  <2>7. alerts' \subseteq ExistingNodes' \cup (Existing' \X Living')
    <3> SUFFICES ASSUME NEW s \in alerts, s \notin OfNode(n), s \notin ExistingNodes
                 PROVE  s \in Existing \X (Living \ {n})
      BY <1>1, <2>5 DEF OfNode
    <3>1. PICK k \in Existing, l \in Living : s = <<k, l>>
      BY DEF IInv, NothingLeft
    <3>2. l # n
      BY <2>5, <3>1, PairsAreNotNodes DEF OfNode
    <3> QED BY <3>1, <3>2
  <2>8. assigned' \subseteq Existing' \X ExistingNodes'
    BY <1>1, <2>1, <2>5 DEF IInv, NothingLeft
  <2>9. \A m \in Monitors, l \in Locations : checks'[m][l] # <<>> => m \in Existing' /\ l \in Living'
    <3>1. Server \in Living /\ n \in Locations
      BY DEF Living, Locations
    <3> QED BY <1>1, <2>4, <2>5, <3>1 DEF IInv, NothingLeft
  <2>10. NothingLeft'
    BY <2>7, <2>8, <2>9 DEF NothingLeft
  <2>11. DrainsSound'
    BY <1>1, <2>1 DEF IInv, DrainsSound
  <2> QED BY <1>2, <2>4, <2>6, <2>10, <2>11 DEF IInv
<1>4. CASE done # 2
  <2>1. UNCHANGED <<node, assigned, checks>> /\ Forget /\ crashes < MaxCrashes
    BY <1>4 DEF DeleteNode
  <2>2. /\ active' \in [Monitors -> SUBSET Time] /\ crashes' \in 0..MaxCrashes
        /\ \A k \in Monitors : active'[k] = {}
    BY <2>1, Forgotten
  <2>3. TypeOK'
    BY <1>1, <2>1, <2>2 DEF IInv, TypeOK
  <2>4. NothingLeft' /\ ResultsSound'
    BY <1>1, <2>1 DEF IInv, NothingLeft, ResultsSound, ExistingNodes, Living
  <2>5. ProbesSound' /\ DrainsSound'
    BY <1>1, <2>1, <2>2 DEF IInv, ProbesSound, DrainsSound
  <2> QED BY <1>2, <2>3, <2>4, <2>5 DEF IInv
<1> QED BY <1>3, <1>4

-----------------------------------------------------------------------------
(* The specification.                                                      *)

LEMMA InitSound == Init => IInv
<1> SUFFICES ASSUME Init
             PROVE  IInv
  OBVIOUS
<1>1. /\ now = 0 /\ assigned = {} /\ alerts = {} /\ crashes = 0
      /\ monitor = [m \in Monitors |-> "absent"] /\ node = [n \in Nodes |-> NewNode]
      /\ checks = [m \in Monitors |-> [l \in Locations |-> <<>>]]
      /\ active = [m \in Monitors |-> {}] /\ agent = [n \in Nodes |-> NewAgent(1)]
      /\ reachable = Monitors \X Locations
      /\ late = [m \in Monitors |-> [l \in Locations |-> 0]]
  BY DEF Init
<1>2. <<>> \in Rows
  <2>1. <<>> \in [1..0 -> Check] /\ 0 \in 0..2
    OBVIOUS
  <2> QED BY <2>1 DEF Rows
<1>3. NewAgent(1) \in Agent /\ AgentSound(NewAgent(1)) /\ NewAgent(1).todo \cup NewAgent(1).probing = {}
  BY MonitoringAssumption DEF NewAgent, Agent, AgentSound
<1>4. 0 \in Time /\ 0 \in 0..MaxCrashes /\ Server \in Locations
  BY MonitoringAssumption DEF Time, Locations
<1>5. TypeOK
  BY <1>1, <1>2, <1>3, <1>4, NewNodeTyped DEF TypeOK, Rows
<1>6. NothingLeft
  BY <1>1 DEF NothingLeft
<1>7. ResultsSound /\ ProbesSound
  BY <1>1, <1>4 DEF ResultsSound, ProbesSound, NewestFirst, Spaced, StartedAfter
<1>8. AgentsSound
  BY <1>1, <1>3 DEF AgentsSound
<1>9. DrainsSound
  BY <1>1, <1>3, <1>4 DEF DrainsSound, Locations
<1> QED BY <1>5, <1>6, <1>7, <1>8, <1>9 DEF IInv

LEMMA AdministrateKeeps ==
  ASSUME IInv, Administrate
  PROVE  IInv'
<1>1. CASE \E m \in Monitors, nodes \in SUBSET Nodes :
             \/ PostEndpoint(m, nodes) \/ PostAiTarget(m, nodes)
             \/ \E status \in {"enabled", "disabled"} :
                  PatchEndpoint(m, status, nodes) \/ PatchAiTarget(m, status, nodes)
  BY <1>1, MonitorKeeps DEF PostEndpoint, PostAiTarget, PatchEndpoint, PatchAiTarget
<1>2. CASE \E m \in Monitors, done \in 1..3 : DeleteEndpoint(m, done) \/ DeleteAiTarget(m, done)
  BY <1>2, DeleteMonitorKeeps DEF DeleteEndpoint, DeleteAiTarget
<1>3. CASE \E n \in Nodes :
             \/ PostNode(n) \/ RotateToken(n)
             \/ \E status \in {"enabled", "disabled"}, watch \in BOOLEAN : PatchNode(n, status, watch)
             \/ \E done \in 1..2 : DeleteNode(n, done)
  BY <1>3, NodeOnly, DeleteNodeKeeps
<1> QED BY <1>1, <1>2, <1>3 DEF Administrate

LEMMA AgentStepKeeps ==
  ASSUME IInv, NEW n \in Nodes, AgentStep(n)
  PROVE  IInv'
<1>1. CASE \E delivered \in BOOLEAN : ReportOnce(n, delivered) \/ FetchTasks(n, delivered)
  BY <1>1, ReportOnceKeeps, FetchTasksKeeps
<1>2. CASE \/ \E delivered \in BOOLEAN, m \in Monitors : SubmitProbeResult(n, m, delivered)
           \/ \E m \in Monitors : ResultDies(n, m)
  <2>1. PICK m \in Monitors, delivered \in BOOLEAN :
          SubmitProbeResult(n, m, delivered) \/ ResultDies(n, m)
    BY <1>2
  <2> QED BY <2>1, SubmitProbeResultKeeps
<1>3. CASE \E m \in Monitors, isDue \in BOOLEAN : ProbeTask(n, m, isDue)
  BY <1>3, ProbeTaskKeeps
<1>4. CASE EndCycle(n) \/ InstallAgent(n) \/ RestartAgent(n)
  BY <1>4, EndCycleKeeps, NewAgentKeeps
<1> QED BY <1>1, <1>2, <1>3, <1>4 DEF AgentStep

LEMMA NextKeeps == IInv /\ [Next]_vars => IInv'
<1> SUFFICES ASSUME IInv, [Next]_vars
             PROVE  IInv'
  OBVIOUS
<1>1. CASE SchedulerTick
  BY <1>1, SchedulerTickKeeps
<1>2. CASE \E m \in Monitors : RunEndpointCheck(m) \/ RunAiCheck(m)
  BY <1>2, RunCheckKeeps DEF RunEndpointCheck, RunAiCheck
<1>3. CASE Administrate
  BY <1>3, AdministrateKeeps
<1>4. CASE \E n \in Nodes : AgentStep(n)
  BY <1>4, AgentStepKeeps
<1>5. CASE Crash \/ Advance \/ \E m \in Monitors, l \in Locations : Turn(m, l)
  BY <1>5, WorldKeeps
<1>6. CASE UNCHANGED vars
  <2>1. UNCHANGED <<now, monitor, node, assigned, checks, alerts, active, agent, reachable, crashes, late>>
    BY <1>6 DEF vars
  <2>2. AgentsSound' /\ DrainsSound' /\ agent' \in [Nodes -> Agent]
    BY <2>1 DEF IInv, AgentsSound, DrainsSound, TypeOK
  <2> QED BY <2>1, <2>2, AgentOnly
<1> QED BY <1>1, <1>2, <1>3, <1>4, <1>5, <1>6 DEF Next

LEMMA Invariance == Spec => []IInv
BY InitSound, NextKeeps, PTL DEF Spec

\* Whatever is deleted, and wherever the process dies on the way: nothing is left
\* of it, although probes and agents still deliver results of it.
THEOREM MonitoringLeavesNothing == Spec => []NothingOfTheDeleted
<1>1. IInv => NothingOfTheDeleted
  <2> SUFFICES ASSUME IInv
               PROVE  NothingOfTheDeleted
    OBVIOUS
  <2>1. /\ TypeOK /\ assigned \subseteq Existing \X ExistingNodes
        /\ alerts \subseteq ExistingNodes \cup (Existing \X Living)
        /\ \A m \in Monitors, l \in Locations : checks[m][l] # <<>> => m \in Existing /\ l \in Living
    BY DEF IInv, NothingLeft
  <2>2. Existing \subseteq Monitors /\ Living \subseteq Locations /\ ExistingNodes \subseteq Nodes
    BY DEF Existing, Living, ExistingNodes, Locations
  <2>3. ASSUME NEW m \in Monitors \ Existing
        PROVE  alerts \cap OfMonitor(m) = {} /\ \A l \in Locations : checks[m][l] = <<>>
    <3>1. ASSUME NEW s \in alerts, s \in OfMonitor(m)
          PROVE  FALSE
      <4>1. PICK k \in Existing, l \in Living : s = <<k, l>>
        BY <2>1, <2>2, <3>1 DEF OfMonitor
      <4> QED BY <3>1, <4>1 DEF OfMonitor
    <3> QED BY <2>1, <3>1
  <2>4. ASSUME NEW n \in Nodes \ ExistingNodes
        PROVE  alerts \cap OfNode(n) = {} /\ \A m \in Monitors : checks[m][n] = <<>>
    <3>1. n \in Locations /\ n \notin Living
      BY MonitoringAssumption DEF Locations, Living
    <3>2. ASSUME NEW s \in alerts, s \in OfNode(n)
          PROVE  FALSE
      <4>1. CASE s = n
        BY <2>1, <2>2, <4>1, MonitoringAssumption
      <4>2. CASE s \in Sources \ Nodes /\ s[2] = n
        <5>1. PICK k \in Existing, l \in Living : s = <<k, l>>
          BY <2>1, <2>2, <4>2
        <5> QED BY <3>1, <4>2, <5>1
      <4> QED BY <3>2, <4>1, <4>2 DEF OfNode
    <3> QED BY <2>1, <3>1, <3>2
  <2> QED BY <2>1, <2>3, <2>4 DEF NothingOfTheDeleted
<1> QED BY <1>1, Invariance, PTL

\* Two results of the server are at least the interval apart, though ticks overlap
\* with probes that outlast them, and with restarts.
THEOREM MonitoringSpacesProbes == Spec => []ProbesSpaced
<1>1. IInv => ProbesSpaced
  BY DEF IInv, ProbesSound, Spaced, ProbesSpaced
<1> QED BY <1>1, Invariance, PTL

\* At most one result of each location is recorded of a monitor that is disabled.
THEOREM MonitoringDrains == Spec => []DrainsWhenDisabled
<1>1. IInv => DrainsWhenDisabled
  BY DEF IInv, DrainsSound, DrainsWhenDisabled
<1> QED BY <1>1, Invariance, PTL

-----------------------------------------------------------------------------
(* Steps.                                                                  *)

LEMMA JudgedOnly ==
  ASSUME NEW k, NEW j, NEW cs, NEW s \in Judged(k, j, cs)
  PROVE  s \in alerts \/ (s = <<k, j>> /\ Failing(cs[k][j]))
BY DEF Judged

\* An alert of a location is opened by the judgement of its results only.
LEMMA OpenedByJudgement ==
  ASSUME Next, NEW m \in Monitors, NEW l \in Locations, Opened(<<m, l>>)
  PROVE  Failing(checks'[m][l]) /\ node' = node
<1>1. <<m, l>> \notin alerts /\ <<m, l>> \in alerts' /\ <<m, l>> \notin Nodes
  BY PairsAreNotNodes DEF Opened
<1>2. CASE SchedulerTick
  <2>1. alerts' \subseteq alerts \cup Nodes
    BY <1>2 DEF SchedulerTick, CheckOfflineNodes, Watched
  <2> QED BY <1>1, <2>1
<1>3. CASE \E k \in Monitors : RunEndpointCheck(k) \/ RunAiCheck(k)
  <2>1. PICK k \in Monitors : \E t \in active[k] : FinishCheck(k, t) \/ CheckDies(k, t)
    BY <1>3 DEF RunEndpointCheck, RunAiCheck
  <2>2. alerts' = Judged(k, Server, checks') /\ node' = node
    BY <1>1, <2>1 DEF FinishCheck, CheckDies
  <2>3. <<m, l>> = <<k, Server>> /\ Failing(checks'[k][Server])
    BY <1>1, <2>2, JudgedOnly
  <2> QED BY <2>2, <2>3
<1>4. CASE Administrate
  <2>1. alerts' \subseteq alerts
    BY <1>4 DEF Administrate, PostEndpoint, PostAiTarget, PatchEndpoint, PatchAiTarget,
                DeleteEndpoint, DeleteAiTarget, CreateMonitor, PatchMonitor, DeleteMonitor,
                PostNode, RotateToken, PatchNode, DeleteNode
  <2> QED BY <1>1, <2>1
<1>5. CASE \E n \in Nodes : AgentStep(n)
  <2>1. PICK n \in Nodes : AgentStep(n)
    BY <1>5
  <2>2. PICK k \in Monitors, delivered \in BOOLEAN :
          SubmitProbeResult(n, k, delivered) /\ alerts' # alerts
    BY <1>1, <2>1 DEF AgentStep, ReportOnce, FetchTasks, ResultDies, ProbeTask, EndCycle,
                      InstallAgent, RestartAgent
  <2>3. alerts' = Judged(k, n, checks') /\ node' = node
    BY <2>2 DEF SubmitProbeResult, PostResult
  <2>4. <<m, l>> = <<k, n>> /\ Failing(checks'[k][n])
    BY <1>1, <2>3, JudgedOnly
  <2> QED BY <2>3, <2>4
<1>6. CASE Crash \/ Advance \/ \E k \in Monitors, j \in Locations : Turn(k, j)
  BY <1>1, <1>6 DEF Crash, Advance, Turn
<1> QED BY <1>2, <1>3, <1>4, <1>5, <1>6 DEF Next

\* Both results an alert of a location is opened upon failed and were its own, or
\* inherited from a node that was deleted.
THEOREM MonitoringOpensUponFailures == Spec => OpensUponOwnFailures
<1>1. IInv /\ IInv' /\ [Next]_vars =>
        [\A m \in Monitors, l \in Locations :
           Opened(<<m, l>>) =>
             LET rows == checks'[m][l]
             IN /\ Failing(rows)
                /\ \A i \in 1..2 :
                     rows[i].by = l \/ (l = Server /\ node[rows[i].by].status = "deleted")]_vars
  <2> SUFFICES ASSUME IInv', Next, NEW m \in Monitors, NEW l \in Locations, Opened(<<m, l>>)
               PROVE  /\ Failing(checks'[m][l])
                      /\ \A i \in 1..2 :
                           \/ checks'[m][l][i].by = l
                           \/ l = Server /\ node[checks'[m][l][i].by].status = "deleted"
    OBVIOUS
  <2>1. Failing(checks'[m][l]) /\ node' = node
    BY OpenedByJudgement
  <2>2. \A i \in DOMAIN checks'[m][l] : OwnRow(l, checks'[m][l][i], node')
    BY DEF IInv, ResultsSound
  <2>3. checks'[m][l] \in Rows
    BY DEF IInv, TypeOK, Rows
  <2>4. checks'[m][l] \in Seq(Check) /\ Len(checks'[m][l]) = 2
    BY <2>1, <2>3, RowsAre DEF Failing
  <2>5. 1..2 = DOMAIN checks'[m][l]
    BY <2>4
  <2> QED BY <2>1, <2>2, <2>5 DEF OwnRow
<1> QED BY <1>1, Invariance, PTL DEF Spec, OpensUponOwnFailures

LEMMA RecordedElsewhere ==
  ASSUME TypeOK, NEW m \in Monitors, NEW l \in Locations, NEW row, Record(m, l, row),
         NEW k \in Monitors, NEW j \in Locations, j # l
  PROVE  checks'[k][j] = checks[k][j]
BY DEF TypeOK, Record

\* Nothing of what node n's agent sends passes.
Unheard(n) ==
  /\ node'[n].last_seen # node[n].last_seen => node'[n].status = "deleted"
  /\ agent'[n].todo \subseteq agent[n].todo
  /\ \A m \in Monitors : checks'[m][n] # checks[m][n] => checks'[m][n] = <<>>

LEMMA UnheardByServer ==
  ASSUME IInv, NEW n \in Nodes,
         \/ SchedulerTick \/ Crash \/ Advance
         \/ \E m \in Monitors : RunEndpointCheck(m) \/ RunAiCheck(m)
         \/ \E m \in Monitors, l \in Locations : Turn(m, l)
  PROVE  Unheard(n)
<1>1. UNCHANGED <<node, agent>>
  BY DEF SchedulerTick, Crash, Advance, RunEndpointCheck, RunAiCheck, FinishCheck, CheckDies, Turn
<1>2. CASE UNCHANGED checks
  BY <1>1, <1>2 DEF Unheard
<1>3. CASE \E m \in Monitors : RunEndpointCheck(m) \/ RunAiCheck(m)
  <2>1. PICK m \in Monitors : \E t \in active[m] : FinishCheck(m, t) \/ CheckDies(m, t)
    BY <1>3 DEF RunEndpointCheck, RunAiCheck
  <2>2. UNCHANGED checks \/ \E row : Record(m, Server, row)
    BY <2>1 DEF FinishCheck, CheckDies
  <2>3. n \in Locations /\ Server \in Locations /\ n # Server
    BY MonitoringAssumption DEF Locations
  <2>4. \A k \in Monitors : checks'[k][n] = checks[k][n]
    BY <2>2, <2>3, RecordedElsewhere DEF IInv
  <2> QED BY <1>1, <2>4 DEF Unheard
<1> QED BY <1>2, <1>3 DEF SchedulerTick, Crash, Advance, Turn

LEMMA UnheardByAdministrator ==
  ASSUME IInv, NEW n \in Nodes, Administrate
  PROVE  Unheard(n)
<1>1. agent' = agent
  BY DEF Administrate, PostEndpoint, PostAiTarget, PatchEndpoint, PatchAiTarget,
         DeleteEndpoint, DeleteAiTarget, CreateMonitor, PatchMonitor, DeleteMonitor,
         PostNode, RotateToken, PatchNode, DeleteNode
<1>2. /\ node \in [Nodes -> Node] /\ checks \in [Monitors -> [Locations -> Rows]]
      /\ n \in Locations /\ Server \in Locations /\ n # Server
  BY MonitoringAssumption DEF IInv, TypeOK, Rows, Locations
<1>3. CASE UNCHANGED <<node, checks>>
  BY <1>1, <1>3 DEF Unheard
<1>4. CASE \E m \in Monitors, done \in 1..3 : DeleteMonitor(m, done)
  <2>1. PICK m \in Monitors : \/ checks' = [checks EXCEPT ![m] = [l \in Locations |-> <<>>]]
                              \/ checks' = checks
    BY <1>4 DEF DeleteMonitor
  <2>2. node' = node
    BY <1>4 DEF DeleteMonitor
  <2> QED BY <1>1, <1>2, <2>1, <2>2 DEF Unheard
<1>5. CASE \E k \in Nodes : \/ PostNode(k) \/ RotateToken(k)
                            \/ \E status \in {"enabled", "disabled"}, watch \in BOOLEAN :
                                 PatchNode(k, status, watch)
  <2>1. PICK k \in Nodes : \/ PostNode(k) \/ RotateToken(k)
                           \/ \E status \in {"enabled", "disabled"}, watch \in BOOLEAN :
                                PatchNode(k, status, watch)
    BY <1>5
  <2>2. checks' = checks
    BY <2>1 DEF PostNode, RotateToken, PatchNode
  <2>3. node[n] \in Node
    BY <1>2
  <2>4. node'[n].last_seen = node[n].last_seen
    <3>1. CASE RotateToken(k)
      BY <1>2, <2>3, <3>1 DEF RotateToken, Node
    <3>2. CASE PostNode(k) \/ \E status \in {"enabled", "disabled"}, watch \in BOOLEAN :
                                PatchNode(k, status, watch)
      <4>1. PICK status, watch :
              node' = [node EXCEPT ![k].status = status, ![k].alert_on_offline = watch]
        BY <3>2 DEF PostNode, PatchNode
      <4> QED BY <1>2, <2>3, <4>1 DEF Node
    <3> QED BY <2>1, <3>1, <3>2
  <2> QED BY <1>1, <2>2, <2>4 DEF Unheard
<1>6. CASE \E k \in Nodes, done \in 1..2 : DeleteNode(k, done)
  <2>1. PICK k \in Nodes, done \in 1..2 : DeleteNode(k, done)
    BY <1>6
  <2>2. CASE done = 2
    <3> DEFINE new == [NewNode EXCEPT !.status = "deleted"]
    <3>1. node' = [node EXCEPT ![k] = new]
      BY <2>1, <2>2 DEF DeleteNode
    <3>2. new.status = "deleted"
      BY NewNodeTyped DEF Node
    <3> HIDE DEF new
    <3>3. node'[n].last_seen # node[n].last_seen => node'[n].status = "deleted"
      BY <1>2, <3>1, <3>2
    <3>4. ASSUME NEW m \in Monitors
          PROVE  checks'[m][n] = checks[m][n] \/ checks'[m][n] = <<>>
      <4> DEFINE inherited == Inherited(checks[m][Server], checks[m][k])
      <4>1. checks'[m] = [checks[m] EXCEPT ![Server] = inherited, ![k] = <<>>]
        BY <2>1, <2>2 DEF DeleteNode
      <4>2. checks[m] \in [Locations -> Rows] /\ k \in Locations
        BY <1>2 DEF Locations
      <4> HIDE DEF inherited
      <4> QED BY <1>2, <4>1, <4>2
    <3> QED BY <1>1, <3>3, <3>4 DEF Unheard
  <2>3. CASE done # 2
    BY <1>1, <2>1, <2>3 DEF DeleteNode, Unheard
  <2> QED BY <2>2, <2>3
<1> QED BY <1>3, <1>4, <1>5, <1>6
        DEF Administrate, PostEndpoint, PostAiTarget, PatchEndpoint, PatchAiTarget,
            DeleteEndpoint, DeleteAiTarget, CreateMonitor, PatchMonitor

LEMMA UnheardByAgents ==
  ASSUME IInv, NEW n \in Nodes, agent[n].token # node[n].token, NEW k \in Nodes, AgentStep(k)
  PROVE  Unheard(n)
<1>1. /\ ~Authorised(n) /\ agent \in [Nodes -> Agent] /\ node \in [Nodes -> Node]
      /\ \A j \in Nodes : j \in Locations
  BY DEF Authorised, IInv, TypeOK, Locations
<1>2. node'[n].last_seen = node[n].last_seen
  <2>1. CASE \E delivered \in BOOLEAN : ReportOnce(k, delivered)
    <3>1. node' = node \/ (k # n /\ node' = [node EXCEPT ![k].last_seen = now])
      BY <1>1, <2>1 DEF ReportOnce, PostReport
    <3> QED BY <1>1, <3>1
  <2>2. CASE ~\E delivered \in BOOLEAN : ReportOnce(k, delivered)
    BY <2>2 DEF AgentStep, FetchTasks, SubmitProbeResult, ResultDies, ProbeTask, EndCycle,
                InstallAgent, RestartAgent
  <2> QED BY <2>1, <2>2
<1>3. ASSUME NEW m \in Monitors
      PROVE  checks'[m][n] = checks[m][n]
  <2>1. UNCHANGED checks \/ \E j \in Monitors : Accepted(k, j) /\ \E row : Record(j, k, row)
    BY DEF AgentStep, ReportOnce, FetchTasks, SubmitProbeResult, PostResult, ResultDies, ProbeTask,
           EndCycle, InstallAgent, RestartAgent
  <2>2. CASE \E j \in Monitors : Accepted(k, j) /\ \E row : Record(j, k, row)
    <3>1. k # n
      BY <1>1, <2>2 DEF Accepted
    <3> QED BY <1>1, <2>2, <3>1, RecordedElsewhere DEF IInv
  <2> QED BY <2>1, <2>2
<1>4. agent'[n].todo \subseteq agent[n].todo
  <2>1. CASE k # n
    <3>1. \E new : agent' = [agent EXCEPT ![k] = new]
      BY DEF AgentStep, ReportOnce, FetchTasks, SubmitProbeResult, AfterSubmit, ResultDies,
             ProbeTask, EndCycle, InstallAgent, RestartAgent, Goto
    <3> QED BY <1>1, <2>1, <3>1
  <2>2. CASE k = n
    <3>1. \/ \E token : agent' = [agent EXCEPT ![n] = NewAgent(token)]
          \/ \E step, todo, probing : todo \subseteq agent[n].todo /\ Goto(n, step, todo, probing)
      BY <1>1, <2>2 DEF AgentStep, ReportOnce, FetchTasks, SubmitProbeResult, AfterSubmit,
                        ResultDies, ProbeTask, EndCycle, InstallAgent, RestartAgent
    <3>2. CASE \E token : agent' = [agent EXCEPT ![n] = NewAgent(token)]
      BY <1>1, <3>2 DEF NewAgent
    <3>3. CASE \E step, todo, probing : todo \subseteq agent[n].todo /\ Goto(n, step, todo, probing)
      <4>1. PICK step, todo, probing : todo \subseteq agent[n].todo /\ Goto(n, step, todo, probing)
        BY <3>3
      <4> DEFINE new == [agent[n] EXCEPT !.step = step, !.todo = todo, !.probing = probing]
      <4>2. agent' = [agent EXCEPT ![n] = new]
        BY <4>1 DEF Goto
      <4>3. agent[n] \in Agent /\ new = [agent[n] EXCEPT !.step = step, !.todo = todo, !.probing = probing]
        BY <1>1
      <4> HIDE DEF new
      <4>4. new.todo = todo
        BY <4>3 DEF Agent
      <4> QED BY <1>1, <4>1, <4>2, <4>4
    <3> QED BY <3>1, <3>2, <3>3
  <2> QED BY <2>1, <2>2
<1> QED BY <1>2, <1>3, <1>4 DEF Unheard

\* Once the token of a node was rotated, nothing its agent sends passes until it is
\* installed again.
THEOREM MonitoringRotatesOut == Spec => RotatedOut
<1>1. IInv /\ [Next]_vars =>
        [\A n \in Nodes :
           agent[n].token # node[n].token =>
             /\ node'[n].last_seen # node[n].last_seen => node'[n].status = "deleted"
             /\ agent'[n].todo \subseteq agent[n].todo
             /\ \A m \in Monitors : checks'[m][n] # checks[m][n] => checks'[m][n] = <<>>]_vars
  <2> SUFFICES ASSUME IInv, Next, NEW n \in Nodes, agent[n].token # node[n].token
               PROVE  Unheard(n)
    BY DEF Unheard
  <2>1. CASE Administrate
    BY <2>1, UnheardByAdministrator
  <2>2. CASE \E k \in Nodes : AgentStep(k)
    BY <2>2, UnheardByAgents
  <2>3. CASE \/ SchedulerTick \/ Crash \/ Advance
             \/ \E m \in Monitors : RunEndpointCheck(m) \/ RunAiCheck(m)
             \/ \E m \in Monitors, l \in Locations : Turn(m, l)
    BY <2>3, UnheardByServer
  <2> QED BY <2>1, <2>2, <2>3 DEF Next
<1> QED BY <1>1, Invariance, PTL DEF Spec, RotatedOut
=============================================================================
