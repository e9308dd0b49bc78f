------------------------------ MODULE Accounts ------------------------------
(***************************************************************************)
(* Users, their roles and their sessions.  Users are numbered in the order *)
(* of their creation; the first comes with the database, and `root` tells  *)
(* which of them bears the name the routes protect.  Handlers run without  *)
(* interruption, but outside a transaction every statement is a commit of  *)
(* its own, and the process may die between two (`done`).                  *)
(***************************************************************************)
EXTENDS Integers

CONSTANTS Tokens,       \* session cookies
          MaxUsers      \* bound: users ever created

Users == 1..MaxUsers
Nobody == 0

VARIABLES
  root,      \* the user named root
  user,      \* users
  session,   \* sessions, by token; an expired one is as good as none
  outdated,  \* history: live sessions opened before the password was changed
  spared     \* history: users of whom a death spared the outdated sessions

accountVars == <<root, user, session, outdated, spared>>

Roles == {"admin", "viewer"}
User == [status : {"absent", "active", "disabled", "deleted"}, role : Roles]

Active(u) == u \in Users /\ user[u].status = "active"
Admin(u) == Active(u) /\ user[u].role = "admin"
Present(u) == user[u].status \in {"active", "disabled"}
ActiveAdmins == {u \in Users : Admin(u)}

SessionsOf(u) == {t \in Tokens : session[t] = u}

\* sessionUser and requireAdmin
SessionUser(t) == Active(session[t])
RequireAdmin(t) == Admin(session[t])

\* The sessions ts are deleted.
Without(ts) == [t \in Tokens |-> IF t \in ts THEN Nobody ELSE session[t]]

-----------------------------------------------------------------------------
(* Routes of the users themselves.                                         *)

Login(t, u) ==
  /\ session[t] = Nobody /\ Active(u)
  /\ session' = [session EXCEPT ![t] = u]
  /\ UNCHANGED <<root, user, outdated, spared>>

\* Logout, expiry, or retention.
EndSession(t) ==
  /\ session[t] # Nobody
  /\ session' = Without({t})
  /\ outdated' = outdated \ {t}
  /\ UNCHANGED <<root, user, spared>>

\* The new password is stored, then the sessions ts of u are deleted; `kept`
\* is what remains of u's sessions in good faith.
Replace(u, ts, kept, done) ==
  IF done
  THEN /\ session' = Without(ts)
       /\ outdated' = (outdated \ ts) \ kept
       /\ spared' = spared \ {u}
  ELSE /\ outdated' = (outdated \cup ts) \ kept
       /\ spared' = spared \cup {u}
       /\ UNCHANGED session

ChangePassword(t, done) ==
  /\ SessionUser(t)
  /\ Replace(session[t], SessionsOf(session[t]) \ {t}, {t}, done)
  /\ UNCHANGED <<root, user>>

-----------------------------------------------------------------------------
(* Routes of an administrator, who acts with the session t.                *)

PostUser(t, u, role) ==
  /\ RequireAdmin(t)
  /\ user[u].status = "absent" /\ \A v \in 1..(u - 1) : user[v].status # "absent"
  /\ user' = [user EXCEPT ![u] = [status |-> "active", role |-> role]]
  /\ UNCHANGED <<root, session, outdated, spared>>

\* The name root protects from deletion only.
FaultyProtected(t, u, role, status) == u = session[t] /\ status = "disabled"

Protected(t, u, role, status) ==
  \/ u = root /\ (role = "viewer" \/ status = "disabled")
  \/ u = session[t] /\ status = "disabled"

\* A disabled user cannot use his sessions anyway.
FaultyPatchedSessions(u, status) == session

PatchedSessions(u, status) == IF status = "disabled" THEN Without(SessionsOf(u)) ELSE session

PatchUser(t, u, role, status) ==
  /\ RequireAdmin(t) /\ Present(u) /\ ~Protected(t, u, role, status)
  /\ user' = [user EXCEPT ![u] = [status |-> status, role |-> role]]
  /\ session' = PatchedSessions(u, status)
  /\ outdated' = {s \in outdated : session'[s] # Nobody}
  /\ UNCHANGED <<root, spared>>

ResetPassword(t, u, done) ==
  /\ RequireAdmin(t) /\ Present(u)
  /\ Replace(u, SessionsOf(u), {}, done)
  /\ UNCHANGED <<root, user>>

\* The row stays, under another name.
DeleteUser(t, u) ==
  /\ RequireAdmin(t) /\ Present(u) /\ u # session[t] /\ u # root
  /\ user' = [user EXCEPT ![u].status = "deleted"]
  /\ session' = Without(SessionsOf(u))
  /\ outdated' = outdated \ SessionsOf(u)
  /\ UNCHANGED <<root, spared>>

Init ==
  /\ root \in Users
  /\ user = [u \in Users |-> IF u = 1 THEN [status |-> "active", role |-> "admin"]
                             ELSE [status |-> "absent", role |-> "viewer"]]
  /\ session = [t \in Tokens |-> Nobody]
  /\ outdated = {} /\ spared = {}

OwnSteps ==
  \E t \in Tokens :
    \/ \E u \in Users : Login(t, u)
    \/ EndSession(t)
    \/ \E done \in BOOLEAN :
         ChangePassword(t, done) \/ \E u \in Users : ResetPassword(t, u, done)

Administer ==
  \E t \in Tokens, u \in Users :
    \/ DeleteUser(t, u)
    \/ \E role \in Roles :
         \/ PostUser(t, u, role)
         \/ \E status \in {"active", "disabled"} : PatchUser(t, u, role, status)

Next == OwnSteps \/ Administer

Spec == Init /\ [][Next]_accountVars

-----------------------------------------------------------------------------
AccountsTypeOK ==
  /\ root \in Users /\ user \in [Users -> User]
  /\ session \in [Tokens -> Users \cup {Nobody}]
  /\ outdated \subseteq Tokens /\ spared \subseteq Users

\* Whatever was changed, reset, disabled, enabled again or deleted in between:
\* every session is of an active user, and was opened with his present password
\* or has set it; except that a death between storing a password and deleting
\* sessions spares those of that user until his password changes again.
SessionsAreCurrent ==
  \A t \in Tokens :
    /\ session[t] # Nobody => Active(session[t])
    /\ t \in outdated => session[t] \in spared

OnlyStepsDown ==
  ActiveAdmins # {} /\ ActiveAdmins' = {} =>
    \E u \in Users \ {root} : ActiveAdmins = {u} /\ Active(u)' /\ SessionsOf(u) # {}

\* However administrators demote, disable and delete one another, the last one
\* is only lost by stepping down himself, which root cannot do.
LastStepsDown == [][OnlyStepsDown]_accountVars
=============================================================================
