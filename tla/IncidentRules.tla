--------------------------- MODULE IncidentRules ---------------------------
(***************************************************************************)
(* The rules of one row of notification_incidents, as `updateIncident` in  *)
(* apps/server/src/notification-service.ts applies them.  A row belongs to *)
(* one (project, dedupe key); every lifecycle event of that key consults   *)
(* it and may move it.  The module has no state: the specifications that   *)
(* keep incident rows apply these operators.                               *)
(*                                                                         *)
(* Occurrence times are positive numbers, so 0 stands for SQL NULL.        *)
(***************************************************************************)
EXTENDS Integers

NULL == 0
OccurrenceTime == Nat \ {NULL}
Lifecycles == {"opened", "recovered"}

IncidentRow ==
  [status : {"none", "open", "resolved"},
   opened_at : Nat, last_opened_at : Nat, resolved_at : Nat]

\* No row has been inserted for the key yet.
NoIncident ==
  [status |-> "none", opened_at |-> NULL, last_opened_at |-> NULL, resolved_at |-> NULL]

\* The latest occurrence the row has taken into account.
Watermark(row) ==
  IF row.status = "open" THEN row.last_opened_at ELSE row.resolved_at

(***************************************************************************)
(* Operators named Faulty... are plausible mistakes in the definition that *)
(* follows them.  No specification uses them: put in its place, each makes *)
(* a property fail, which shows what the property guards against.          *)
(***************************************************************************)

\* A resolved incident is opened again by anything that arrives.
FaultyAcceptsOpening(row, at) ==
  row.status = "open" => at >= row.last_opened_at

\* An opening as late as the recovery it ties with is accepted.
FaultyTieAcceptsOpening(row, at) ==
  \/ row.status = "none"
  \/ row.status = "open" /\ at >= row.last_opened_at
  \/ row.status = "resolved" /\ at >= row.resolved_at

(***************************************************************************)
(* An opening is accepted, and its deliveries are created, unless the row  *)
(* already knows something later.  On a tie an open row is refreshed while *)
(* a resolved one stays resolved.                                          *)
(***************************************************************************)
AcceptsOpening(row, at) ==
  \/ row.status = "none"
  \/ row.status = "open" /\ at >= row.last_opened_at
  \/ row.status = "resolved" /\ at > row.resolved_at

\* A recovery in the instant of the opening does not count.
FaultyTieAcceptsRecovery(row, at) ==
  \/ row.status = "none"
  \/ row.status = "open" /\ at > row.last_opened_at

AcceptsRecovery(row, at) ==
  \/ row.status = "none"
  \/ row.status = "open" /\ at >= row.last_opened_at

Accepts(row, lifecycle, at) ==
  IF lifecycle = "opened" THEN AcceptsOpening(row, at) ELSE AcceptsRecovery(row, at)

\* An opening of an open row refreshes it; any other starts a new episode.
OpenedRow(row, at) ==
  IF row.status = "open"
  THEN [row EXCEPT !.last_opened_at = at]
  ELSE [status |-> "open", opened_at |-> at, last_opened_at |-> at, resolved_at |-> NULL]

\* A recovery of an unknown key leaves a resolved row behind, so that the
\* opening it overtook is recognised as stale when it arrives.
RecoveredRow(row, at) ==
  IF row.status = "none"
  THEN [status |-> "resolved", opened_at |-> at, last_opened_at |-> at, resolved_at |-> at]
  ELSE [row EXCEPT !.status = "resolved", !.resolved_at = at]

\* A recovery that is not accepted leaves a resolved row alone.
FaultyUpdatedIncident(row, lifecycle, at) ==
  IF ~Accepts(row, lifecycle, at) THEN row
  ELSE IF lifecycle = "opened" THEN OpenedRow(row, at) ELSE RecoveredRow(row, at)

\* The row after the event; a later recovery moves the time of a resolved row
\* although it is not accepted.
UpdatedIncident(row, lifecycle, at) ==
  IF lifecycle = "opened"
  THEN IF AcceptsOpening(row, at) THEN OpenedRow(row, at) ELSE row
  ELSE IF AcceptsRecovery(row, at) \/ (row.status = "resolved" /\ at > row.resolved_at)
       THEN RecoveredRow(row, at)
       ELSE row
=============================================================================
