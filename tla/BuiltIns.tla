------------------------------ MODULE BuiltIns ------------------------------
(***************************************************************************)
(* What OmniDeck sets up by itself: the built-in projects with their       *)
(* members, and the subscription that mails alerts to the recipients of    *)
(* the SMTP settings.  Both follow the users of module Accounts, and both  *)
(* are brought up to date whenever the server starts, from a new database  *)
(* or from one an earlier version has written.                             *)
(***************************************************************************)
EXTENDS Accounts, FiniteSetsExt

CONSTANTS Projects,  \* built-in projects
          Market,    \* "market-intelligence", the latest of them
          MaxDeaths  \* bound: how often the process dies

VARIABLES
  up,           \* the server is running
  deaths,
  known,        \* built-in projects with a row
  initialised,  \* projects whose marker builtin_members_initialized is set
  migrated,     \* notification.builtin_members_migrated
  members,      \* notification_project_members
  left_out,     \* history: memberships taken away, or never made for a death
  recipients,   \* the SMTP settings name recipients
  smtp,         \* notification.smtp_*: which subscription, its last owner
  subs          \* that subscription, under the id of an earlier version or ours

builtInVars == <<up, deaths, known, initialised, migrated, members, left_out, recipients, smtp, subs>>
projectVars == <<known, initialised, migrated, members, left_out>>
vars == <<accountVars, builtInVars>>

Ids == {"legacy", "builtin"}

\* `plain`: it takes everything, by mail, as it was created; `touched` is
\* history: its owner has saved it since the settings were applied.
Row == [exists : {TRUE}, owner : Users, enabled : BOOLEAN, plain : BOOLEAN,
        touched : BOOLEAN]
NoRow == [exists |-> FALSE, owner |-> Nobody, enabled |-> FALSE, plain |-> FALSE,
          touched |-> FALSE]

-----------------------------------------------------------------------------
(* syncSmtpRecipientSubscription                                           *)

\* The one subscription that looks like what an earlier version has created.
Recognised == subs["legacy"].exists /\ subs["legacy"].plain /\ user'[subs["legacy"].owner].role = "admin"

SubscriptionId ==
  IF smtp.id # "unset" THEN smtp.id
  ELSE IF smtp.migrated /\ Recognised THEN "legacy" ELSE "builtin"

\* Whoever owns the subscription keeps it.
FaultyOwner ==
  LET row == subs[SubscriptionId]
  IN IF row.exists THEN row.owner ELSE Min(ActiveAdmins')

\* The present or the last owner if he is an active administrator, else the
\* first who is.
Owner ==
  LET row == subs[SubscriptionId]
      preferred == IF row.exists THEN row.owner ELSE smtp.owner
  IN IF preferred \in ActiveAdmins' THEN preferred ELSE Min(ActiveAdmins')

Applied(row) ==
  IF recipients'
  THEN [row EXCEPT !.exists = TRUE, !.owner = Owner, !.enabled = TRUE,
                   !.plain = @ \/ ~row.exists, !.touched = FALSE]
  ELSE [row EXCEPT !.enabled = FALSE, !.touched = FALSE]

\* Four commits; outside a transaction the process may survive only the first
\* `done` of them.
Sync(done) ==
  LET id == SubscriptionId
      row == subs[id]
  IN /\ smtp' = [smtp EXCEPT !.id = IF done >= 1 THEN id ELSE @,
                             !.owner = IF done >= 2 /\ ActiveAdmins' # {} THEN Owner ELSE @]
     /\ subs' = IF ActiveAdmins' = {} \/ done < 3 THEN subs
                ELSE [subs EXCEPT ![id] =
                        LET moved == IF row.exists THEN [row EXCEPT !.owner = Owner] ELSE row
                        IN IF done = 3 THEN moved ELSE Applied(moved)]

Complete == 4

\* The process goes on, or dies after `done` commits of the synchronisation.
Survives(done) ==
  /\ up' = (done = Complete)
  /\ deaths' = IF done = Complete THEN deaths ELSE deaths + 1
  /\ deaths' <= MaxDeaths

-----------------------------------------------------------------------------
(* initializeNotificationCenter: one transaction, then the synchronisation *)

\* The marker of a project is not consulted.
FaultyNeedingMembers == Projects

NeedingMembers == {p \in Projects \ initialised : p \notin known \/ ~migrated \/ p = Market}

StartServer(done) ==
  /\ ~up
  /\ known' = Projects /\ initialised' = Projects /\ migrated' = TRUE
  /\ members' = members \cup (NeedingMembers \X {u \in Users : Present(u)})
  /\ UNCHANGED <<accountVars, left_out, recipients>>
  /\ Sync(done) /\ Survives(done)

-----------------------------------------------------------------------------
(* Routes.                                                                 *)

SyncInTransaction == Sync(Complete)

\* A new user is a member of every built-in project, unless the process dies
\* before the second statement.
CreateUser(t, u, role, inserted, done) ==
  /\ up /\ PostUser(t, u, role)
  /\ UNCHANGED <<known, initialised, migrated, recipients>>
  /\ IF inserted
     THEN members' = members \cup (known \X {u}) /\ UNCHANGED left_out
     ELSE left_out' = left_out \cup (known \X {u}) /\ UNCHANGED members
  /\ ~inserted => done = 0
  /\ Sync(done) /\ Survives(done)

ChangeUser(t, u) ==
  /\ up
  /\ \/ DeleteUser(t, u)
     \/ \E role \in Roles, status \in {"active", "disabled"} : PatchUser(t, u, role, status)
  /\ UNCHANGED <<projectVars, recipients, up, deaths>>
  /\ SyncInTransaction

PutSmtp(t, some, done) ==
  /\ up /\ RequireAdmin(t)
  /\ recipients' = some
  /\ UNCHANGED <<accountVars, projectVars>>
  /\ Sync(done) /\ Survives(done)

AddMember(t, p, u) ==
  /\ up /\ RequireAdmin(t) /\ Active(u)
  /\ members' = members \cup {<<p, u>>}
  /\ left_out' = left_out \ {<<p, u>>}
  /\ UNCHANGED <<accountVars, up, deaths, known, initialised, migrated, recipients, smtp, subs>>

RemoveMember(t, p, u) ==
  /\ up /\ RequireAdmin(t) /\ <<p, u>> \in members
  /\ members' = members \ {<<p, u>>}
  /\ left_out' = left_out \cup {<<p, u>>}
  /\ UNCHANGED <<accountVars, up, deaths, known, initialised, migrated, recipients, smtp, subs>>

\* ensureMarketNotificationSubscription, for whoever saves a purchase target;
\* the subscription it also ensures is not modelled.
JoinMarket(t) ==
  /\ up /\ SessionUser(t)
  /\ members' = members \cup {<<Market, session[t]>>}
  /\ left_out' = left_out \ {<<Market, session[t]>>}
  /\ UNCHANGED <<accountVars, up, deaths, known, initialised, migrated, recipients, smtp, subs>>

\* The owner saves the subscription, or deletes it, which disables it.
SaveSubscription(t, id, enabled, plain) ==
  /\ up /\ SessionUser(t) /\ subs[id].exists /\ subs[id].owner = session[t]
  /\ subs' = [subs EXCEPT ![id].enabled = enabled, ![id].plain = plain, ![id].touched = TRUE]
  /\ UNCHANGED <<accountVars, up, deaths, projectVars, recipients, smtp>>

DeleteSubscription(t, id) ==
  /\ up /\ SessionUser(t) /\ subs[id].owner = session[t] /\ subs[id].enabled
  /\ subs' = [subs EXCEPT ![id].enabled = FALSE, ![id].touched = TRUE]
  /\ UNCHANGED <<accountVars, up, deaths, projectVars, recipients, smtp>>

UseAccount(t) ==
  /\ up
  /\ EndSession(t) \/ \E u \in Users : Login(t, u)
  /\ UNCHANGED builtInVars

Stop ==
  /\ up /\ deaths < MaxDeaths
  /\ up' = FALSE /\ deaths' = deaths + 1
  /\ UNCHANGED <<accountVars, projectVars, recipients, smtp, subs>>

-----------------------------------------------------------------------------
\* A new database.
NewDatabase ==
  /\ known = {} /\ migrated = FALSE /\ members = {}
  /\ recipients = FALSE /\ smtp = [id |-> "unset", owner |-> Nobody, migrated |-> FALSE]
  /\ subs = [i \in Ids |-> NoRow]

\* A database of an earlier version: with or without the market, before or
\* after the migration of members, with or without the mail subscription.
OldDatabase ==
  /\ known \in {Projects, Projects \ {Market}}
  /\ migrated \in BOOLEAN
  /\ members \in SUBSET (known \X {1})
  /\ \E mailing \in BOOLEAN :
       /\ recipients = mailing
       /\ smtp = [id |-> "unset", owner |-> Nobody, migrated |-> mailing]
       /\ \E plain \in BOOLEAN :
            subs = [i \in Ids |->
                      IF i = "legacy" /\ mailing
                      THEN [exists |-> TRUE, owner |-> 1, enabled |-> TRUE, plain |-> plain,
                            touched |-> FALSE]
                      ELSE NoRow]

\* An earlier version has left its memberships to the administrators.
BuiltInsInit ==
  /\ Init
  /\ NewDatabase \/ OldDatabase
  /\ up = FALSE /\ deaths = 0 /\ initialised = {}
  /\ left_out = IF migrated THEN ((known \ {Market}) \X {1}) \ members ELSE {}

BuiltInsNext ==
  \/ \E done \in 0..Complete :
       \/ StartServer(done)
       \/ \E t \in Tokens :
            \/ \E some \in BOOLEAN : PutSmtp(t, some, done)
            \/ \E u \in Users, role \in Roles, inserted \in BOOLEAN :
                 CreateUser(t, u, role, inserted, done)
  \/ \E t \in Tokens :
       \/ UseAccount(t) \/ JoinMarket(t)
       \/ \E u \in Users :
            \/ ChangeUser(t, u)
            \/ \E p \in Projects : AddMember(t, p, u) \/ RemoveMember(t, p, u)
       \/ \E id \in Ids :
            \/ DeleteSubscription(t, id)
            \/ \E enabled \in BOOLEAN, plain \in BOOLEAN : SaveSubscription(t, id, enabled, plain)
  \/ Stop

BuiltInsSpec == BuiltInsInit /\ [][BuiltInsNext]_vars

-----------------------------------------------------------------------------
BuiltInsTypeOK ==
  /\ AccountsTypeOK
  /\ up \in BOOLEAN /\ migrated \in BOOLEAN /\ recipients \in BOOLEAN /\ deaths \in 0..MaxDeaths
  /\ known \subseteq Projects /\ initialised \subseteq Projects
  /\ members \subseteq Projects \X Users /\ left_out \subseteq Projects \X Users
  /\ smtp \in [id : Ids \cup {"unset"}, owner : Users \cup {Nobody}, migrated : BOOLEAN]
  /\ subs \in [Ids -> Row \cup {NoRow}]

\* Restarts, upgrades, deaths and new users in any order: every user is a
\* member of exactly the built-in projects nobody has taken him out of.
MembersExact ==
  up => \A p \in Projects, u \in Users :
          Present(u) => (<<p, u>> \in members <=> <<p, u>> \notin left_out)

\* While the server runs, the recipients' subscription belongs to an active
\* administrator, whoever was demoted, disabled or deleted; unless its owner has
\* saved it since, it is enabled exactly when there are recipients, also after a
\* death in the middle of a synchronisation.
RecipientsServed ==
  up /\ ActiveAdmins # {} =>
    LET row == subs[smtp.id]
    IN /\ row.exists => row.owner \in ActiveAdmins
       /\ ~row.touched => row.enabled = recipients
=============================================================================
