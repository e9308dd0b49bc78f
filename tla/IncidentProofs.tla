--------------------------- MODULE IncidentProofs ---------------------------
(***************************************************************************)
(* Proofs about the incident table, for every set of keys and instants.    *)
(***************************************************************************)
EXTENDS Incident, TLAPS

\* The inductive invariant: types, ordered columns, and rows that summarise
\* exactly the events received.
RowInv(row, S) == RowOrdered(row) /\ SummaryOf(row, S)

IInv == TypeOK /\ \A k \in Keys : RowInv(incidents[k], seen[k])

LEMMA EventFields ==
  ASSUME NEW f \in LifecycleEvent
  PROVE  f.at \in Nat /\ f.at > 0 /\ f.lifecycle \in {"opened", "recovered"}
<1>1. f.at \in Times /\ f.lifecycle \in {"opened", "recovered"}
  BY DEF LifecycleEvent, Lifecycles
<1>2. ASSUME NEW t \in Times PROVE t \in Nat /\ t > 0
  <2>1. t \in Nat \ {0}
    BY TimesAssumption, Zenon DEF OccurrenceTime, NULL
  <2>2. QED
    BY <2>1
<1>3. QED
  BY <1>1, <1>2

\* What one event does to one row: the case analysis of updateIncident.
LEMMA UpdateKeepsRow ==
  ASSUME NEW row \in IncidentRow, NEW S \in SUBSET LifecycleEvent,
         NEW e \in LifecycleEvent, RowInv(row, S)
  PROVE  LET new == UpdatedIncident(row, e.lifecycle, e.at)
         IN  /\ new \in IncidentRow
             /\ RowInv(new, S \cup {e})
             /\ new.opened_at # row.opened_at => new.opened_at > Watermark(row)
<1> DEFINE new == UpdatedIncident(row, e.lifecycle, e.at)
<1> USE DEF IncidentRow, NULL, NoIncident
<1>1. /\ e.at \in Nat /\ e.at > 0 /\ e.lifecycle \in {"opened", "recovered"}
      /\ \A f \in S : f.at \in Nat /\ f.at > 0 /\ f.lifecycle \in {"opened", "recovered"}
  <2>1. ASSUME NEW f \in S
        PROVE  f.at \in Nat /\ f.at > 0 /\ f.lifecycle \in {"opened", "recovered"}
    <3>1. f \in LifecycleEvent
      OBVIOUS
    <3>2. QED
      BY <3>1, EventFields
  <2>2. QED
    BY <2>1, EventFields
<1>2. new \in IncidentRow
  BY <1>1 DEF UpdatedIncident, OpenedRow, RecoveredRow
<1>3. CASE row.status = "none"
  <2>1. S = {}
    BY <1>3 DEF RowInv, SummaryOf
  <2>2. new = [status |-> IF e.lifecycle = "opened" THEN "open" ELSE "resolved",
               opened_at |-> e.at, last_opened_at |-> e.at,
               resolved_at |-> IF e.lifecycle = "opened" THEN 0 ELSE e.at]
    BY <1>1, <1>3 DEF UpdatedIncident, AcceptsOpening, AcceptsRecovery, OpenedRow, RecoveredRow
  <2>3. row = NoIncident
    BY <1>3 DEF RowInv, RowOrdered
  <2>4. QED
    BY <1>1, <1>2, <2>1, <2>2, <2>3
    DEF RowInv, RowOrdered, SummaryOf, Watermark
<1>4. CASE row.status = "open"
  <2>1. CASE e.at < row.last_opened_at
    <3>1. new = row
      BY <1>1, <1>4, <2>1 DEF UpdatedIncident, AcceptsOpening, AcceptsRecovery
    <3>2. QED
      BY <1>1, <1>2, <1>4, <2>1, <3>1 DEF RowInv, SummaryOf, Watermark
  <2>2. CASE e.at >= row.last_opened_at /\ e.lifecycle = "opened"
    <3>1. new = [row EXCEPT !.last_opened_at = e.at]
      BY <1>1, <1>4, <2>2 DEF UpdatedIncident, AcceptsOpening, OpenedRow
    <3>2. RowOrdered(new)
      BY <1>1, <1>4, <2>2, <3>1 DEF RowInv, RowOrdered
    <3>3. SummaryOf(new, S \cup {e})
      BY <1>1, <1>4, <2>2, <3>1 DEF RowInv, SummaryOf, Watermark
    <3>4. QED
      BY <1>2, <3>1, <3>2, <3>3 DEF RowInv
  <2>3. CASE e.at >= row.last_opened_at /\ e.lifecycle = "recovered"
    <3>1. /\ new.status = "resolved" /\ new.resolved_at = e.at
          /\ new.opened_at = row.opened_at /\ new.last_opened_at = row.last_opened_at
      BY <1>1, <1>4, <2>3 DEF UpdatedIncident, AcceptsRecovery, RecoveredRow
    <3>2. RowOrdered(new)
      BY <1>1, <1>4, <2>3, <3>1 DEF RowInv, RowOrdered
    <3>3. SummaryOf(new, S \cup {e})
      BY <1>1, <1>4, <2>3, <3>1 DEF RowInv, SummaryOf, Watermark
    <3>4. QED
      BY <1>2, <3>1, <3>2, <3>3 DEF RowInv
  <2>4. QED
    BY <1>1, <2>1, <2>2, <2>3
<1>5. CASE row.status = "resolved"
  <2>1. CASE e.at <= row.resolved_at
    <3>1. new = row
      BY <1>1, <1>5, <2>1 DEF UpdatedIncident, AcceptsOpening, AcceptsRecovery
    <3>2. QED
      BY <1>1, <1>2, <1>5, <2>1, <3>1 DEF RowInv, SummaryOf, Watermark
  <2>2. CASE e.at > row.resolved_at /\ e.lifecycle = "opened"
    <3>1. new = [status |-> "open", opened_at |-> e.at, last_opened_at |-> e.at, resolved_at |-> 0]
      BY <1>1, <1>5, <2>2 DEF UpdatedIncident, AcceptsOpening, OpenedRow
    <3>2. RowOrdered(new)
      BY <1>1, <3>1 DEF RowOrdered
    <3>3. SummaryOf(new, S \cup {e})
      BY <1>1, <1>5, <2>2, <3>1 DEF RowInv, SummaryOf, Watermark
    <3>4. QED
      BY <1>2, <1>5, <2>2, <3>1, <3>2, <3>3 DEF RowInv, Watermark
  <2>3. CASE e.at > row.resolved_at /\ e.lifecycle = "recovered"
    <3>1. /\ new.status = "resolved" /\ new.resolved_at = e.at
          /\ new.opened_at = row.opened_at /\ new.last_opened_at = row.last_opened_at
      BY <1>1, <1>5, <2>3 DEF UpdatedIncident, AcceptsRecovery, RecoveredRow
    <3>2. RowOrdered(new)
      BY <1>1, <1>5, <2>3, <3>1 DEF RowInv, RowOrdered
    <3>3. SummaryOf(new, S \cup {e})
      BY <1>1, <1>5, <2>3, <3>1 DEF RowInv, SummaryOf, Watermark
    <3>4. QED
      BY <1>2, <3>1, <3>2, <3>3 DEF RowInv
  <2>4. QED
    BY <1>1, <2>1, <2>2, <2>3
<1>6. QED
  BY <1>3, <1>4, <1>5

LEMMA InitInv == Init => IInv
BY DEF Init, IInv, TypeOK, RowInv, RowOrdered, SummaryOf, NoIncident, IncidentRow, NULL

LEMMA ReceiveInv ==
  ASSUME IInv, NEW k \in Keys, NEW e \in LifecycleEvent, Receive(k, e)
  PROVE  /\ IInv'
         /\ \A j \in Keys : incidents'[j].opened_at # incidents[j].opened_at
                              => incidents'[j].opened_at > Watermark(incidents[j])
<1> DEFINE new == UpdatedIncident(incidents[k], e.lifecycle, e.at)
<1>1. incidents[k] \in IncidentRow /\ seen[k] \in SUBSET LifecycleEvent
  BY DEF IInv, TypeOK
<1>2. /\ new \in IncidentRow
      /\ RowInv(new, seen[k] \cup {e})
      /\ new.opened_at # incidents[k].opened_at => new.opened_at > Watermark(incidents[k])
  BY <1>1, UpdateKeepsRow DEF IInv
<1>3. /\ incidents' = [incidents EXCEPT ![k] = new]
      /\ seen' = [seen EXCEPT ![k] = @ \cup {e}]
  BY DEF Receive
<1> HIDE DEF new
<1>4. TypeOK'
  BY <1>1, <1>2, <1>3 DEF IInv, TypeOK
<1>5. ASSUME NEW j \in Keys
      PROVE  /\ RowInv(incidents'[j], seen'[j])
             /\ incidents'[j].opened_at # incidents[j].opened_at
                  => incidents'[j].opened_at > Watermark(incidents[j])
  <2>1. CASE j = k
    BY <1>2, <1>3, <2>1 DEF IInv, TypeOK
  <2>2. CASE j # k
    BY <1>3, <2>2 DEF IInv, TypeOK
  <2>3. QED
    BY <2>1, <2>2
<1>6. QED
  BY <1>4, <1>5 DEF IInv

\* A step of the specification is the receipt of one well-formed event.
LEMMA NextReceives ==
  ASSUME Next PROVE \E k \in Keys, e \in LifecycleEvent : Receive(k, e)
<1>1. PICK k \in Keys, at \in Times : Opened(k, at) \/ Recovered(k, at)
  BY DEF Next
<1>2. /\ [lifecycle |-> "opened", at |-> at] \in LifecycleEvent
      /\ [lifecycle |-> "recovered", at |-> at] \in LifecycleEvent
  BY DEF LifecycleEvent, Lifecycles
<1>3. QED
  BY <1>1, <1>2 DEF Opened, Recovered

LEMMA NextInv == IInv /\ [Next]_vars => IInv'
<1>1. ASSUME IInv, Next PROVE IInv'
  BY <1>1, NextReceives, ReceiveInv
<1>2. ASSUME IInv, UNCHANGED vars PROVE IInv'
  BY <1>2 DEF IInv, TypeOK, vars
<1>3. QED
  BY <1>1, <1>2

LEMMA Invariance == Spec => []IInv
BY InitInv, NextInv, PTL DEF Spec

\* Rows and history keep their types.
THEOREM IncidentTypes == Spec => []TypeOK
<1>1. IInv => TypeOK BY DEF IInv
<1>2. QED BY <1>1, Invariance, PTL

\* The columns the stale-event comparisons rely on stay in order.
THEOREM IncidentRowsOrdered == Spec => []RowsOrdered
<1>1. IInv => RowsOrdered BY DEF IInv, RowInv, RowsOrdered
<1>2. QED BY <1>1, Invariance, PTL

\* Every row is a summary of the events received: their latest time, and
\* whether a recovery happened then.
THEOREM IncidentRowsSummarise == Spec => []RowsSummarise
<1>1. IInv => RowsSummarise BY DEF IInv, RowInv, RowsSummarise
<1>2. QED BY <1>1, Invariance, PTL

\* A new episode of an incident begins after everything its row knew.
THEOREM EpisodesOrdered == Spec => EpisodesMoveForward
<1> DEFINE Forward == \A k \in Keys :
             incidents'[k].opened_at # incidents[k].opened_at
               => incidents'[k].opened_at > Watermark(incidents[k])
<1>1. IInv /\ [Next]_vars => [Forward]_vars
  BY NextReceives, ReceiveInv
<1>2. QED
  BY <1>1, Invariance, PTL DEF Spec, EpisodesMoveForward

\* A row that summarises S shows the verdict the abstract table computes on S.
LEMMA SummaryGivesVerdict ==
  ASSUME NEW row \in IncidentRow, NEW S \in SUBSET LifecycleEvent, SummaryOf(row, S)
  PROVE  row.status = Refines!VerdictOf(S)
<1>1. \A f \in S : f.at \in Nat /\ f.lifecycle \in {"opened", "recovered"}
  BY EventFields
<1>2. row.status \in {"none", "open", "resolved"} /\ Watermark(row) \in Nat
  BY DEF IncidentRow, Watermark
<1>3. CASE S = {}
  BY <1>3 DEF SummaryOf, Refines!VerdictOf
<1>4. CASE S # {}
  <2>1. \A f \in S : f.at <= Watermark(row)
    BY <1>4 DEF SummaryOf
  <2>2. PICK last \in S : /\ last.at = Watermark(row)
                          /\ row.status = "resolved" => last.lifecycle = "recovered"
    BY <1>4 DEF SummaryOf
  <2>3. \A f \in S : Refines!Latest(S, f) <=> f.at = Watermark(row)
    BY <1>1, <1>2, <2>1, <2>2 DEF Refines!Latest
  <2>4. CASE row.status = "resolved"
    BY <1>4, <2>2, <2>3, <2>4 DEF Refines!VerdictOf
  <2>5. CASE row.status = "open"
    <3>1. \A f \in S : f.lifecycle = "recovered" => ~Refines!Latest(S, f)
      BY <1>1, <1>2, <1>4, <2>3, <2>5 DEF SummaryOf
    <3>2. QED
      BY <1>4, <2>5, <3>1 DEF Refines!VerdictOf
  <2>6. QED
    BY <1>2, <1>4, <2>4, <2>5 DEF SummaryOf
<1>5. QED
  BY <1>3, <1>4

\* The table implements "the latest event wins": whatever the order of arrival,
\* each received event moves the abstract verdict as LatestWins says.
THEOREM IncidentRefinesLatestWins == Spec => OrderIndependent
<1> DEFINE Verdict == [k \in Keys |-> incidents[k].status]
<1>1. Init => Refines!Init
  BY DEF Init, Refines!Init, NoIncident
<1>2. ASSUME IInv, Next PROVE Refines!Next
  <2>1. PICK k \in Keys, e \in LifecycleEvent : Receive(k, e)
    BY <1>2, NextReceives
  <2>2. IInv'
    BY <1>2, <2>1, ReceiveInv
  <2>3. /\ incidents'[k] \in IncidentRow /\ seen'[k] \in SUBSET LifecycleEvent
        /\ SummaryOf(incidents'[k], seen'[k])
    BY <2>2 DEF IInv, TypeOK, RowInv
  <2>4. incidents'[k].status = Refines!VerdictOf(seen'[k])
    BY <2>3, SummaryGivesVerdict
  <2>5. seen' = [seen EXCEPT ![k] = @ \cup {e}] /\ seen'[k] = seen[k] \cup {e}
    BY <1>2, <2>1 DEF Receive, IInv, TypeOK
  <2>6. \A j \in Keys : j # k => incidents'[j] = incidents[j]
    BY <1>2, <2>1 DEF Receive, IInv, TypeOK
  <2>7. Verdict' = [Verdict EXCEPT ![k] = Refines!VerdictOf(seen[k] \cup {e})]
    BY <2>4, <2>5, <2>6
  <2>8. e \in Refines!LifecycleEvent
    BY DEF Refines!LifecycleEvent, LifecycleEvent, Lifecycles
  <2>9. QED
    BY <2>5, <2>7, <2>8 DEF Refines!Next, Refines!Receive
<1>3. ASSUME UNCHANGED vars PROVE UNCHANGED <<seen, Verdict>>
  BY <1>3 DEF vars
<1>4. IInv /\ [Next]_vars => [Refines!Next]_<<seen, Verdict>>
  BY <1>2, <1>3
<1>5. QED
  BY <1>1, <1>4, Invariance, PTL DEF Spec, OrderIndependent, Refines!Spec
=============================================================================
