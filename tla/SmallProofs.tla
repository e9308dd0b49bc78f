---------------------------- MODULE SmallProofs ----------------------------
(***************************************************************************)
(* Proofs about the parts that share the instance MCSmall: the accounts,   *)
(* the event API, retention, what OmniDeck sets up by itself, quiet hours  *)
(* and probes, for any number of users, sessions, projects, publishers,    *)
(* keys, days and deaths, and days and responses of any length.            *)
(* IncidentProofs is about the incidents.                                  *)
(***************************************************************************)
EXTENDS MCSmall, IncidentProofs, Sequences, FiniteSetTheorems, SequenceTheorems, WellFoundedInduction, TLAPS

allVars == <<scene, vars, quietVars, probeVars, peopleVars, ownVars, keptVars, apiVars>>

\* A step of the instance is a step of one part, and the others stand still.
LEMMA Scenes ==
  ASSUME [MCNext]_allVars
  PROVE  /\ scene' = scene
         /\ scene = "accounts" => [People!Next]_peopleVars
         /\ scene = "built-ins" => Own!BuiltInsNext \/ UNCHANGED <<peopleVars, ownVars>>
         /\ [Next]_vars
         /\ Quiet!Advance \/ UNCHANGED quietVars
         /\ Probe!Next \/ UNCHANGED probeVars
         /\ Kept!RetentionNext \/ UNCHANGED keptVars
         /\ Api!ApiNext \/ UNCHANGED apiVars
<1>1. CASE UNCHANGED allVars
  BY <1>1 DEF allVars
<1>2. CASE MCNext
  BY <1>2, Zenon DEF MCNext
<1>3. QED
  BY <1>1, <1>2

LEMMA Least ==
  ASSUME NEW S, S \subseteq Nat, S # {}
  PROVE  \E x \in S : \A y \in S : x <= y
<1> DEFINE R == OpToRel(<, Nat)
<1>1. IsWellFoundedOn(R, Nat)
  BY NatLessThanWellFounded
<1>2. \A x \in Nat, y \in Nat : y < x => <<y, x>> \in R
  BY DEF OpToRel
<1> HIDE DEF R
<1>3. PICK x \in S : \A y \in S : <<y, x>> \notin R
  BY <1>1, WFMin
<1>4. ASSUME NEW y \in S
      PROVE  x <= y
  <2>1. x \in Nat /\ y \in Nat /\ ~(y < x)
    BY <1>2, <1>3
  <2>2. QED
    BY <2>1
<1>5. QED
  BY <1>4

-----------------------------------------------------------------------------
(* Accounts.                                                               *)

PeopleInv == People!AccountsTypeOK /\ People!SessionsAreCurrent

LEMMA PeopleStart ==
  ASSUME People!Init
  PROVE  PeopleInv
BY BoundsAssumption
DEF People!Init, PeopleInv, People!AccountsTypeOK, People!SessionsAreCurrent, People!Users,
    People!Nobody, People!User, People!Roles, People!Active

\* A new password: the sessions that are not deleted are kept in good faith, or
\* the death that spared them is remembered.
LEMMA ReplaceKeeps ==
  ASSUME PeopleInv, NEW u \in People!Users, NEW kept \in SUBSET People!SessionsOf(u),
         NEW done \in BOOLEAN,
         People!Replace(u, People!SessionsOf(u) \ kept, kept, done), UNCHANGED <<root, user>>
  PROVE  PeopleInv'
<1> USE DEF PeopleInv, People!AccountsTypeOK, People!SessionsAreCurrent, People!Nobody,
            People!Active, People!Replace, People!Without, People!SessionsOf
<1>1. CASE done
  BY <1>1
<1>2. CASE ~done
  BY <1>2
<1>3. QED
  BY <1>1, <1>2

LEMMA PeopleStep ==
  ASSUME PeopleInv, [People!Next]_peopleVars
  PROVE  PeopleInv'
<1>3. ASSUME NEW t \in Cookies, NEW done \in BOOLEAN, People!ChangePassword(t, done)
      PROVE  PeopleInv'
  <2>1. session[t] \in People!Users /\ {t} \in SUBSET People!SessionsOf(session[t])
    BY <1>3 DEF People!ChangePassword, People!SessionUser, People!Active, People!SessionsOf
  <2>2. People!Replace(session[t], People!SessionsOf(session[t]) \ {t}, {t}, done)
        /\ UNCHANGED <<root, user>>
    BY <1>3, Zenon DEF People!ChangePassword
  <2>3. QED
    BY <2>1, <2>2, ReplaceKeeps, Zenon
<1> USE DEF PeopleInv, People!AccountsTypeOK, People!SessionsAreCurrent, People!Active, People!Nobody
<1>1. ASSUME NEW t \in Cookies, NEW u \in People!Users, People!Login(t, u)
      PROVE  PeopleInv'
  BY <1>1, BoundsAssumption DEF People!Login, People!Users
<1>2. ASSUME NEW t \in Cookies, People!EndSession(t)
      PROVE  PeopleInv'
  BY <1>2 DEF People!EndSession, People!Without
<1>4. ASSUME NEW t \in Cookies, NEW u \in People!Users, NEW done \in BOOLEAN,
             People!ResetPassword(t, u, done)
      PROVE  PeopleInv'
  <2>1. People!Replace(u, People!SessionsOf(u) \ {}, {}, done)
    <3>1. People!SessionsOf(u) \ {} = People!SessionsOf(u)
      OBVIOUS
    <3>2. QED
      BY <1>4, <3>1, Zenon DEF People!ResetPassword
  <2>2. QED
    BY <1>4, <2>1, ReplaceKeeps DEF People!ResetPassword
<1>5. ASSUME NEW t \in Cookies, NEW u \in People!Users, People!DeleteUser(t, u)
      PROVE  PeopleInv'
  BY <1>5 DEF People!DeleteUser, People!Without, People!SessionsOf, People!User
<1>6. ASSUME NEW t \in Cookies, NEW u \in People!Users, NEW role \in People!Roles,
             People!PostUser(t, u, role)
      PROVE  PeopleInv'
  BY <1>6 DEF People!PostUser, People!User
<1>7. ASSUME NEW t \in Cookies, NEW u \in People!Users, NEW role \in People!Roles,
             NEW status \in {"active", "disabled"}, People!PatchUser(t, u, role, status)
      PROVE  PeopleInv'
  BY <1>7 DEF People!PatchUser, People!PatchedSessions, People!Without, People!SessionsOf, People!User
<1>8. CASE UNCHANGED peopleVars
  BY <1>8 DEF peopleVars
<1>9. CASE People!OwnSteps
  BY <1>9, <1>1, <1>2, <1>3, <1>4, Zenon DEF People!OwnSteps
<1>10. CASE People!Administer
  BY <1>10, <1>5, <1>6, <1>7, Zenon DEF People!Administer
<1>11. QED
  BY <1>8, <1>9, <1>10 DEF People!Next

\* Every session is of an active user and current, except for those a death has spared
\* (MCSmall!SessionsAreCurrent; routes/auth.ts, routes/users.ts).
THEOREM SmallSessions == MCSpec => []SessionsAreCurrent
<1> DEFINE Inv == scene = "accounts" => PeopleInv
<1>1. MCInit => Inv
  BY PeopleStart, Zenon DEF MCInit
<1>2. Inv /\ [MCNext]_allVars => Inv'
  BY Scenes, PeopleStep, Zenon
<1>3. Inv => SessionsAreCurrent
  BY DEF PeopleInv, SessionsAreCurrent
<1>4. QED
  BY <1>1, <1>2, <1>3, PTL DEF MCSpec, allVars

\* Active administrators are lost by demoting, disabling or deleting one of
\* them, and whoever acts is one himself.
LEMMA AdminsStep ==
  ASSUME PeopleInv, [People!Next]_peopleVars
  PROVE  People!OnlyStepsDown
<1> SUFFICES ASSUME People!ActiveAdmins # {}, People!ActiveAdmins' = {}
             PROVE  \E u \in People!Users \ {root} :
                      People!ActiveAdmins = {u} /\ People!Active(u)' /\ People!SessionsOf(u) # {}
  BY Zenon DEF People!OnlyStepsDown
<1>1. user' # user
  BY DEF People!ActiveAdmins, People!Admin, People!Active
<1>2. People!Administer
  BY <1>1, Zenon DEF People!Next, People!OwnSteps, People!Login, People!EndSession,
     People!ChangePassword, People!ResetPassword, peopleVars
<1>3. PICK t \in Cookies, u \in People!Users :
        /\ People!RequireAdmin(t)
        /\ \A v \in People!Users \ {u} : user'[v] = user[v]
        /\ \/ People!DeleteUser(t, u)
           \/ \E role \in People!Roles : People!PostUser(t, u, role)
           \/ \E role \in People!Roles, status \in {"active", "disabled"} :
                People!PatchUser(t, u, role, status)
  BY <1>2 DEF People!Administer, People!DeleteUser, People!PostUser, People!PatchUser,
     PeopleInv, People!AccountsTypeOK
<1>4. session[t] \in People!ActiveAdmins /\ t \in People!SessionsOf(session[t])
  BY <1>3 DEF People!RequireAdmin, People!ActiveAdmins, People!Admin, People!Active, People!SessionsOf
<1>5. People!ActiveAdmins \subseteq {u}
  BY <1>3 DEF People!ActiveAdmins, People!Admin, People!Active
<1>6. u = session[t]
  BY <1>4, <1>5
<1>7. PICK role \in People!Roles, status \in {"active", "disabled"} : People!PatchUser(t, u, role, status)
  BY <1>3, <1>4, <1>6 DEF People!DeleteUser, People!PostUser, People!ActiveAdmins, People!Admin, People!Active
<1>8. status = "active" /\ user' = [user EXCEPT ![u] = [status |-> status, role |-> role]]
  BY <1>6, <1>7 DEF People!PatchUser, People!Protected
<1>9. People!Active(u)' /\ role = "viewer"
  BY <1>8 DEF PeopleInv, People!AccountsTypeOK, People!ActiveAdmins, People!Admin, People!Active, People!Roles
<1>10. u # root
  BY <1>7, <1>9 DEF People!PatchUser, People!Protected
<1>11. QED
  BY <1>4, <1>5, <1>6, <1>9, <1>10

\* The last active administrator is only lost by stepping down himself, and is
\* not root (MCSmall!LastStepsDown; routes/users.ts).
THEOREM SmallLastStepsDown == MCSpec => LastStepsDown
<1> DEFINE Inv == scene = "accounts" => PeopleInv
<1>1. MCInit => Inv
  BY PeopleStart, Zenon DEF MCInit
<1>2. Inv /\ [MCNext]_allVars => Inv'
  BY Scenes, PeopleStep, Zenon
<1>3. Inv /\ [MCNext]_allVars => [scene = "accounts" => People!OnlyStepsDown]_peopleVars
  BY Scenes, AdminsStep, Zenon
<1>4. QED
  BY <1>1, <1>2, <1>3, PTL DEF MCSpec, allVars, LastStepsDown

-----------------------------------------------------------------------------
(* The event API.                                                          *)

\* The cardinality of the instance is that of the library's theorems.
LEMMA ApiCardinality ==
  ASSUME NEW S
  PROVE  Api!Cardinality(S) = Cardinality(S)
BY Zenon DEF Api!Cardinality, Cardinality

Answers == {Api!None, "error", "rejected", "accepted", "duplicate"}

PublishersSound ==
  publisher \in [Publishers ->
    [key : PublisherKeys \cup {NoKey}, fixed : BOOLEAN, calls : Nat, waiting : BOOLEAN,
     answer : Answers, event : Nat]]

EventsSound ==
  /\ IsFiniteSet(events)
  /\ requests \subseteq [publisher : Publishers, call : Nat]
  /\ \A e \in events : e.data \in Publishers /\ e.id \in Nat

\* Keys are unique, and a publisher with a key of his own records under no other;
\* what he does not leave to the type is no version of the type's.
KeysSound ==
  /\ \A e \in events, f \in events : e.key = f.key => e = f
  /\ \A e \in events :
       /\ publisher[e.data].key # NoKey => e.key = publisher[e.data].key
       /\ publisher[e.data].fixed => e.version = 0

ApiInv == PublishersSound /\ EventsSound /\ KeysSound /\ Api!ToldTruly

LEMMA ApiStart ==
  ASSUME Api!ApiInit
  PROVE  ApiInv
<1>1. PublishersSound
  BY DEF Api!ApiInit, PublishersSound, Answers
<1>2. events = {} /\ requests = {} /\ \A p \in Publishers : publisher[p].answer = "none"
  BY DEF Api!ApiInit, Api!None
<1>3. QED
  BY <1>1, <1>2, FS_EmptySet DEF ApiInv, EventsSound, KeysSound, Api!ToldTruly

\* What an answer does: the publisher who waits for it learns it, and no key, no
\* choice of his and no other publisher changes.
Told(p, answer, id) ==
  /\ PublishersSound'
  /\ \A q \in Publishers :
       /\ publisher'[q].key = publisher[q].key /\ publisher'[q].fixed = publisher[q].fixed
       /\ \/ publisher'[q] = publisher[q]
          \/ q = p /\ publisher'[q].answer = answer /\ publisher'[q].event = id

LEMMA AnswerTold ==
  ASSUME PublishersSound, NEW p \in Publishers, NEW call, NEW answer \in Answers, NEW id \in Nat,
         Api!Answer(p, call, answer, id)
  PROVE  Told(p, answer, id)
<1> DEFINE new == [publisher[p] EXCEPT !.waiting = FALSE, !.answer = answer, !.event = id]
           State == [key : PublisherKeys \cup {NoKey}, fixed : BOOLEAN, calls : Nat,
                     waiting : BOOLEAN, answer : Answers, event : Nat]
<1>1. CASE publisher[p].waiting /\ publisher[p].calls = call
  <2>1. /\ new \in State /\ new.answer = answer /\ new.event = id
        /\ new.key = publisher[p].key /\ new.fixed = publisher[p].fixed
    BY DEF PublishersSound
  <2>2. publisher' = [publisher EXCEPT ![p] = new]
    BY <1>1 DEF PublishersSound, Api!Answer
  <2>3. publisher \in [Publishers -> State]
    BY DEF PublishersSound
  <2> HIDE DEF new, State
  <2>4. publisher' \in [Publishers -> State] /\ publisher'[p] = new
        /\ \A q \in Publishers \ {p} : publisher'[q] = publisher[q]
    BY <2>1, <2>2, <2>3
  <2>5. PublishersSound'
    BY <2>4 DEF PublishersSound, State
  <2>6. QED
    BY <2>1, <2>4, <2>5 DEF Told
<1>2. CASE ~(publisher[p].waiting /\ publisher[p].calls = call)
  BY <1>2 DEF PublishersSound, Api!Answer, Told
<1>3. QED
  BY <1>1, <1>2

\* The answer is true of the events that are then recorded.
LEMMA ApiAnswered ==
  ASSUME ApiInv, NEW p \in Publishers, NEW call, NEW answer \in Answers, NEW id \in Nat,
         Api!Answer(p, call, answer, id), EventsSound',
         events \subseteq events',
         answer \in {"accepted", "duplicate"} => \E e \in events' : e.id = id /\ e.data = p,
         \A e \in events', f \in events' : e.key = f.key => e = f,
         \A e \in events' \ events :
           /\ publisher[e.data].key # NoKey => e.key = publisher[e.data].key
           /\ publisher[e.data].fixed => e.version = 0
  PROVE  ApiInv'
<1>1. Told(p, answer, id)
  BY AnswerTold, Zenon DEF ApiInv
<1>2. KeysSound'
  BY <1>1 DEF ApiInv, Told, KeysSound, EventsSound
<1>3. Api!ToldTruly'
  BY <1>1 DEF ApiInv, Told, Api!ToldTruly
<1>4. QED
  BY <1>1, <1>2, <1>3 DEF ApiInv, Told

LEMMA ApiDisconnect ==
  ASSUME ApiInv, NEW p \in Publishers, Api!Disconnect(p)
  PROVE  ApiInv'
<1>1. Api!Answer(p, publisher[p].calls, "error", 0) /\ UNCHANGED events /\ requests' \subseteq requests
  BY DEF Api!Disconnect
<1>2. EventsSound'
  BY <1>1 DEF ApiInv, EventsSound
<1>3. "error" \in Answers /\ 0 \in Nat
  BY DEF Answers
<1>4. QED
  BY <1>1, <1>2, <1>3, ApiAnswered DEF ApiInv, KeysSound

LEMMA ApiPublish ==
  ASSUME ApiInv, NEW p \in Publishers, Api!Publish(p)
  PROVE  ApiInv'
<1> DEFINE new == [publisher[p] EXCEPT !.calls = @ + 1, !.waiting = TRUE]
           State == [key : PublisherKeys \cup {NoKey}, fixed : BOOLEAN, calls : Nat,
                     waiting : BOOLEAN, answer : Answers, event : Nat]
<1>1. publisher \in [Publishers -> State]
  BY DEF ApiInv, PublishersSound
<1>2. /\ new \in State /\ new.answer = publisher[p].answer /\ new.event = publisher[p].event
      /\ new.key = publisher[p].key /\ new.fixed = publisher[p].fixed
  <2> DEFINE old == publisher[p]
  <2>1. old \in State
    BY <1>1
  <2> HIDE DEF old
  <2>2. old.calls + 1 \in Nat
    BY <2>1
  <2> DEFINE calls == old.calls + 1
  <2> HIDE DEF calls
  <2>3. [old EXCEPT !.calls = calls, !.waiting = TRUE] \in State
    BY <2>1, <2>2 DEF calls
  <2>4. QED
    BY <2>1, <2>3 DEF old, calls
<1>3. publisher' = [publisher EXCEPT ![p] = new] /\ UNCHANGED events
  BY <1>1 DEF Api!Publish
<1>4. publisher[p].calls + 1 \in Nat
  BY <1>1
<1> HIDE DEF new, State
<1>5. publisher' \in [Publishers -> State]
      /\ \A q \in Publishers :
           /\ publisher'[q].key = publisher[q].key /\ publisher'[q].fixed = publisher[q].fixed
           /\ publisher'[q].answer = publisher[q].answer /\ publisher'[q].event = publisher[q].event
  BY <1>1, <1>2, <1>3
<1>6. PublishersSound'
  BY <1>5 DEF PublishersSound, State
<1>7. EventsSound'
  BY <1>3, <1>4 DEF ApiInv, EventsSound, Api!Publish
<1>8. KeysSound' /\ Api!ToldTruly'
  BY <1>3, <1>5 DEF ApiInv, KeysSound, EventsSound, Api!ToldTruly
<1>9. QED
  BY <1>6, <1>7, <1>8 DEF ApiInv

\* The three ways in which a request is executed.
LEMMA ApiExecute ==
  ASSUME ApiInv, NEW r \in requests, Api!Execute(r)
  PROVE  ApiInv'
<1> DEFINE p == r.publisher
<1>1. p \in Publishers /\ requests' \subseteq requests
  BY DEF ApiInv, EventsSound, Api!Execute
<1>2. Cardinality(events) + 1 \in Nat
  BY FS_CardinalityType DEF ApiInv, EventsSound
<1>3. \A a \in {"rejected", "accepted", "duplicate"} : a \in Answers
  BY DEF Answers
<1>4. CASE Api!Reject(r)
  <2>1. Api!Answer(p, r.call, "rejected", 0) /\ UNCHANGED events
    BY <1>4 DEF Api!Reject
  <2>2. EventsSound'
    BY <1>1, <2>1 DEF ApiInv, EventsSound
  <2>3. QED
    BY <1>1, <1>3, <2>1, <2>2, ApiAnswered DEF ApiInv, KeysSound
<1>5. CASE Api!Repeat(r)
  <2>1. PICK e \in Api!Recorded(r) :
          Api!Same(e, p) /\ Api!Answer(p, r.call, "duplicate", e.id) /\ UNCHANGED events
    BY <1>5 DEF Api!Repeat
  <2>2. e \in events /\ e.data = p
    BY <2>1 DEF Api!Recorded, Api!Same, Api!Payload, Api!Fingerprint
  <2>3. EventsSound'
    BY <1>1, <2>1 DEF ApiInv, EventsSound
  <2>4. e.id \in Nat
    BY <2>2 DEF ApiInv, EventsSound
  <2>5. QED
    BY <1>1, <1>3, <2>1, <2>2, <2>3, <2>4, ApiAnswered DEF ApiInv, KeysSound
<1>6. CASE Api!Record(r)
  <2> DEFINE id == Cardinality(events) + 1
             new == [id |-> id, key |-> Api!KeyOf(p, r.call), data |-> Api!Fingerprint(p).data,
                     version |-> Api!Fingerprint(p).version,
                     lifecycle |-> Api!Fingerprint(p).lifecycle]
  <2>1. PICK answer \in {"accepted", "rejected"} :
          /\ events' = events \cup {new} /\ Api!Recorded(r) = {}
          /\ \/ answer = "accepted" /\ Api!Answer(p, r.call, answer, id)
             \/ answer = "rejected" /\ Api!Answer(p, r.call, answer, 0)
    BY <1>6, ApiCardinality DEF Api!Record
  <2>2. /\ new.data = p /\ new.id = id
        /\ publisher[p].key # NoKey => new.key = publisher[p].key
        /\ publisher[p].fixed => new.version = 0
    BY DEF Api!Fingerprint, Api!KeyOf
  <2>3. \A e \in events : e.key # new.key
    BY <2>1 DEF Api!Recorded
  <2> HIDE DEF new
  <2>4. EventsSound'
    BY <1>1, <1>2, <2>1, <2>2, FS_AddElement DEF ApiInv, EventsSound
  <2>5. /\ events \subseteq events' /\ new \in events'
        /\ \A e \in events', f \in events' : e.key = f.key => e = f
        /\ \A e \in events' \ events :
             /\ publisher[e.data].key # NoKey => e.key = publisher[e.data].key
             /\ publisher[e.data].fixed => e.version = 0
    BY <2>1, <2>2, <2>3 DEF ApiInv, KeysSound
  <2>6. CASE answer = "accepted"
    BY <1>1, <1>2, <1>3, <2>1, <2>2, <2>4, <2>5, <2>6, ApiAnswered
  <2>7. CASE answer = "rejected"
    BY <1>1, <1>3, <2>1, <2>4, <2>5, <2>7, ApiAnswered
  <2>8. QED
    BY <2>6, <2>7
<1>7. QED
  BY <1>4, <1>5, <1>6 DEF Api!Execute

LEMMA ApiStep ==
  ASSUME ApiInv, Api!ApiNext \/ UNCHANGED apiVars
  PROVE  ApiInv'
<1>1. CASE UNCHANGED <<publisher, requests, events>>
  BY <1>1 DEF ApiInv, PublishersSound, EventsSound, KeysSound, Api!ToldTruly
<1>2. CASE UNCHANGED apiVars
  BY <1>1, <1>2 DEF apiVars
<1>3. CASE Api!ApiNext
  BY <1>1, <1>3, ApiPublish, ApiDisconnect, ApiExecute, Zenon
  DEF Api!ApiNext, Api!ChangeAdmission, Api!PutEventType
<1>4. QED
  BY <1>2, <1>3

\* What is published under a key of the publisher's own is recorded once, however
\* often it is retried (MCSmall!RecordedOnce; routes/notifications.ts, packages/sdk).
THEOREM SmallRecordsOnce == MCSpec => []RecordedOnce
<1>1. MCInit => ApiInv
  <2>1. MCInit => Api!ApiInit
    BY Zenon DEF MCInit, ApiRests
  <2>2. QED
    BY <2>1, ApiStart
<1>2. ApiInv /\ [MCNext]_allVars => ApiInv'
  BY Scenes, ApiStep, Zenon
<1>3. ApiInv => RecordedOnce
  <2> SUFFICES ASSUME ApiInv, NEW p \in Publishers, publisher[p].key # NoKey
               PROVE  Api!Cardinality({e \in events : e.data = p}) <= 1
    BY DEF RecordedOnce, Api!RecordedOnce
  <2> DEFINE own == {e \in events : e.data = p}
  <2>1. \A e \in own, f \in own : e = f
    BY DEF ApiInv, KeysSound
  <2> HIDE DEF own
  <2>2. ASSUME own = {} PROVE Api!Cardinality(own) <= 1
    BY <2>2, ApiCardinality, FS_EmptySet
  <2>3. ASSUME own # {} PROVE Api!Cardinality(own) <= 1
    <3>1. PICK e : own = {e}
      BY <2>1, <2>3
    <3>2. QED
      <4>1. Cardinality(own) = 1
        BY <3>1, FS_Singleton
      <4>2. QED
        BY <4>1, ApiCardinality
  <2>4. Api!Cardinality(own) <= 1
    BY <2>2, <2>3
  <2>5. QED
    BY <2>4 DEF own
<1>4. QED
  BY <1>1, <1>2, <1>3, PTL DEF MCSpec, allVars

\* Who is told that an event was accepted, or is a duplicate, finds his own under the
\* id he was given (MCSmall!ToldTruly; routes/notifications.ts).
THEOREM SmallTellsTruly == MCSpec => []ToldTruly
<1>1. MCInit => ApiInv
  <2>1. MCInit => Api!ApiInit
    BY Zenon DEF MCInit, ApiRests
  <2>2. QED
    BY <2>1, ApiStart
<1>2. ApiInv /\ [MCNext]_allVars => ApiInv'
  BY Scenes, ApiStep, Zenon
<1>3. ApiInv => ToldTruly
  BY DEF ApiInv, ToldTruly
<1>4. QED
  BY <1>1, <1>2, <1>3, PTL DEF MCSpec, allVars

\* An answer to somebody who retries what he recorded under a key of his own, and
\* leaves nothing to the type, is no rejection while he is admitted.
LEMMA ApiRecognises ==
  ASSUME ApiInv, Api!ApiNext \/ UNCHANGED apiVars
  PROVE  Api!RetryRecognised
<1> SUFFICES ASSUME NEW p \in Publishers, NEW e \in events,
                    publisher[p].fixed, publisher[p].key # NoKey, admitted,
                    e.data = p, e.lifecycle = type.lifecycle,
                    publisher[p].waiting, ~publisher'[p].waiting
             PROVE  publisher'[p].answer # "rejected"
  BY DEF Api!RetryRecognised
<1>1. PublishersSound
  BY DEF ApiInv
<1>2. CASE UNCHANGED publisher
  BY <1>2
<1>3. ASSUME NEW q \in Publishers, Api!Publish(q)
      PROVE  publisher'[p].answer # "rejected"
  BY <1>1, <1>3 DEF Api!Publish, PublishersSound
<1>4. ASSUME NEW q \in Publishers, NEW call, NEW answer, NEW id,
             Api!Answer(q, call, answer, id), q = p => answer # "rejected"
      PROVE  publisher'[p].answer # "rejected"
  BY <1>1, <1>4 DEF Api!Answer, PublishersSound
<1>5. ASSUME NEW r \in requests, Api!Execute(r)
      PROVE  publisher'[p].answer # "rejected"
  <2>1. r.publisher \in Publishers
    BY DEF ApiInv, EventsSound
  <2>2. CASE r.publisher = p
    <3>1. e \in Api!Recorded(r) /\ \A f \in Api!Recorded(r) : f = e
      BY <2>2 DEF Api!Recorded, Api!KeyOf, ApiInv, KeysSound
    <3>2. Api!Same(e, p)
      BY DEF Api!Same, Api!Payload, Api!Fingerprint, ApiInv, KeysSound
    <3>3. Api!Repeat(r)
      BY <1>5, <2>2, <3>1, <3>2 DEF Api!Execute, Api!Reject, Api!Record
    <3>4. QED
      BY <1>4, <2>1, <3>3 DEF Api!Repeat
  <2>3. CASE r.publisher # p
    BY <1>4, <1>5, <2>1, <2>3, Zenon DEF Api!Execute, Api!Reject, Api!Record, Api!Repeat
  <2>4. QED
    BY <2>2, <2>3
<1>6. ASSUME NEW q \in Publishers, Api!Disconnect(q)
      PROVE  publisher'[p].answer # "rejected"
  BY <1>4, <1>6 DEF Api!Disconnect
<1>7. QED
  BY <1>2, <1>3, <1>5, <1>6, Zenon
  DEF Api!ApiNext, apiVars, Api!ChangeAdmission, Api!PutEventType

\* Whoever leaves nothing to the event type may retry safely
\* (MCSmall!RetriesRecognised; routes/notifications.ts).
THEOREM SmallRecognisesRetries == MCSpec => RetriesRecognised
<1>1. MCInit => ApiInv
  <2>1. MCInit => Api!ApiInit
    BY Zenon DEF MCInit, ApiRests
  <2>2. QED
    BY <2>1, ApiStart
<1>2. ApiInv /\ [MCNext]_allVars => ApiInv'
  BY Scenes, ApiStep, Zenon
<1>3. ApiInv /\ [MCNext]_allVars => [scene = "api" => Api!RetryRecognised]_apiVars
  BY Scenes, ApiRecognises, Zenon
<1>4. QED
  BY <1>1, <1>2, <1>3, PTL DEF MCSpec, allVars, RetriesRecognised

\* The calls whose requests have been executed or lost; every event took one.
Calls == Publishers \X (1..MaxCalls)
Spent ==
  {x \in Calls : x[2] <= publisher[x[1]].calls /\ [publisher |-> x[1], call |-> x[2]] \notin requests}

ApiTyped ==
  /\ admitted \in BOOLEAN /\ type \in [version : 1..MaxVersions, lifecycle : Api!Lifecycles]
  /\ faults \in 0..MaxFaults /\ events \subseteq Api!Event
  /\ \A p \in Publishers : publisher[p].calls <= MaxCalls /\ publisher[p].event <= Api!MaxEvents
  /\ \A r \in requests : r.call \in 1..publisher[r.publisher].calls
  /\ Cardinality(events) <= Cardinality(Spent)

LEMMA CallsCounted ==
  ASSUME NEW S \in SUBSET Calls
  PROVE  /\ IsFiniteSet(S) /\ Cardinality(S) \in Nat
         /\ Api!MaxEvents \in Nat /\ Cardinality(S) <= Api!MaxEvents
<1>1. IsFiniteSet(Publishers) /\ MaxCalls \in Nat /\ MaxCalls # 0
  BY BoundsAssumption
<1>2. IsFiniteSet(1..MaxCalls) /\ Cardinality(1..MaxCalls) = MaxCalls
  BY <1>1, FS_Interval
<1>3. IsFiniteSet(Calls) /\ Cardinality(Calls) = Cardinality(Publishers) * Cardinality(1..MaxCalls)
  BY <1>1, <1>2, FS_Product, Zenon DEF Calls
<1>4. Cardinality(Calls) = Api!MaxEvents
  BY <1>2, <1>3, ApiCardinality, Zenon DEF Api!MaxEvents
<1>5. IsFiniteSet(S) /\ Cardinality(S) <= Cardinality(Calls)
  BY <1>3, FS_Subset
<1>6. QED
  BY <1>3, <1>4, <1>5, FS_CardinalityType

LEMMA AnswerTyped ==
  ASSUME ApiInv, ApiTyped, NEW p \in Publishers, NEW call, NEW answer, NEW id \in Nat,
         id <= Api!MaxEvents, Api!Answer(p, call, answer, id)
  PROVE  \A q \in Publishers :
           publisher'[q].calls = publisher[q].calls /\ publisher'[q].event <= Api!MaxEvents
<1> DEFINE new == [publisher[p] EXCEPT !.waiting = FALSE, !.answer = answer, !.event = id]
<1>1. new.calls = publisher[p].calls /\ new.event = id
  BY DEF ApiInv, PublishersSound
<1>2. publisher' = [publisher EXCEPT ![p] = new] \/ publisher' = publisher
  BY DEF Api!Answer, ApiInv, PublishersSound
<1> HIDE DEF new
<1>3. QED
  BY <1>1, <1>2 DEF ApiInv, PublishersSound, ApiTyped

\* A request given up is spent, and so is one that is executed.
LEMMA SpentStays ==
  ASSUME ApiInv, \A q \in Publishers : publisher'[q].calls = publisher[q].calls,
         requests' \subseteq requests
  PROVE  /\ Cardinality(Spent) \in Nat /\ Cardinality(Spent') \in Nat
         /\ Cardinality(Spent) <= Cardinality(Spent')
<1>1. \A x \in Calls : x[1] \in Publishers
  BY DEF Calls
<1>2. Spent \in SUBSET Spent' /\ Spent' \in SUBSET Calls /\ Spent \in SUBSET Calls
  BY <1>1 DEF Spent, Calls
<1>3. IsFiniteSet(Spent')
  BY <1>2, CallsCounted
<1>4. QED
  BY <1>2, <1>3, CallsCounted, FS_Subset

LEMMA SpentOne ==
  ASSUME ApiInv, ApiTyped, \A q \in Publishers : publisher'[q].calls = publisher[q].calls,
         NEW r \in requests, requests' = requests \ {r}
  PROVE  /\ Cardinality(Spent) \in Nat /\ Cardinality(Spent') \in Nat
         /\ Cardinality(Spent) + 1 <= Cardinality(Spent')
<1> DEFINE x == <<r.publisher, r.call>>
<1>1. /\ r.publisher \in Publishers /\ r.call \in Nat
      /\ r = [publisher |-> r.publisher, call |-> r.call]
  BY DEF ApiInv, EventsSound
<1>2. publisher[r.publisher].calls \in Nat /\ publisher[r.publisher].calls <= MaxCalls
      /\ r.call \in 1..publisher[r.publisher].calls
  BY <1>1 DEF ApiInv, PublishersSound, ApiTyped
<1>3. x \in Calls /\ x[1] = r.publisher /\ x[2] = r.call
  BY <1>1, <1>2, BoundsAssumption DEF Calls
<1>4. x \notin Spent /\ x \in Spent'
  BY <1>1, <1>2, <1>3 DEF Spent
<1>5. Spent \in SUBSET Calls /\ Spent' \in SUBSET Calls
  BY DEF Spent, Calls
<1>6. \A y \in Calls : y[1] \in Publishers
  BY DEF Calls
<1>7. Spent \subseteq Spent'
  BY <1>6 DEF Spent, Calls
<1> HIDE DEF x
<1>8. Spent \cup {x} \in SUBSET Spent'
  BY <1>4, <1>7
<1>9. IsFiniteSet(Spent) /\ IsFiniteSet(Spent') /\ Cardinality(Spent) \in Nat /\ Cardinality(Spent') \in Nat
  BY <1>5, CallsCounted
<1>10. Cardinality(Spent \cup {x}) = Cardinality(Spent) + 1
  BY <1>4, <1>9, FS_AddElement
<1>11. Cardinality(Spent \cup {x}) <= Cardinality(Spent')
  BY <1>8, <1>9, FS_Subset
<1>12. QED
  BY <1>9, <1>10, <1>11

LEMMA TypedPublish ==
  ASSUME ApiInv, ApiTyped, NEW p \in Publishers, Api!Publish(p)
  PROVE  ApiTyped'
<1> DEFINE r == [publisher |-> p, call |-> publisher[p].calls + 1]
<1>1. publisher[p].calls \in Nat
  BY DEF ApiInv, PublishersSound
<1>2. publisher[p].calls + 1 <= MaxCalls
  BY <1>1, BoundsAssumption DEF Api!Publish, ApiTyped
<1>3. \A q \in Publishers :
        /\ publisher'[q].event = publisher[q].event
        /\ publisher'[q].calls = IF q = p THEN publisher[p].calls + 1 ELSE publisher[q].calls
  BY DEF Api!Publish, ApiInv, PublishersSound
<1>4. requests' = requests \cup {r} /\ UNCHANGED <<admitted, type, events, faults>>
  BY DEF Api!Publish
<1>5. \A s \in requests : s.publisher \in Publishers
  BY DEF ApiInv, EventsSound
<1>6. \A s \in requests' : s.call \in 1..publisher'[s.publisher].calls
  <2>1. \A s \in requests : s.call \in 1..publisher'[s.publisher].calls
    BY <1>1, <1>3, <1>5 DEF ApiTyped
  <2>2. r.call \in 1..publisher'[r.publisher].calls
    BY <1>1, <1>3
  <2>3. QED
    BY <1>4, <2>1, <2>2
<1>7. Spent' = Spent
  <2> SUFFICES ASSUME NEW x \in Calls
               PROVE  (x[2] <= publisher'[x[1]].calls /\ [publisher |-> x[1], call |-> x[2]] \notin requests')
                      <=> (x[2] <= publisher[x[1]].calls /\ [publisher |-> x[1], call |-> x[2]] \notin requests)
    BY Zenon DEF Spent
  <2>1. x[1] \in Publishers /\ x[2] \in Nat
    BY BoundsAssumption DEF Calls
  <2>2. [publisher |-> x[1], call |-> x[2]] = r <=> x[1] = p /\ x[2] = publisher[p].calls + 1
    OBVIOUS
  <2>3. CASE x[1] = p
    BY <1>1, <1>3, <1>4, <2>1, <2>2, <2>3
  <2>4. CASE x[1] # p
    BY <1>3, <1>4, <2>1, <2>2, <2>4
  <2>5. QED
    BY <2>3, <2>4
<1>8. \A q \in Publishers : publisher'[q].calls <= MaxCalls /\ publisher'[q].event <= Api!MaxEvents
  BY <1>2, <1>3 DEF ApiTyped
<1>9. QED
  BY <1>4, <1>6, <1>7, <1>8 DEF ApiTyped

\* An answer, and at most one new event for a request that is spent.
LEMMA TypedAnswered ==
  ASSUME ApiInv, ApiTyped, NEW p \in Publishers, NEW call, NEW answer, NEW id \in Nat,
         id <= Api!MaxEvents, Api!Answer(p, call, answer, id), requests' \subseteq requests,
         admitted' \in BOOLEAN, type' = type, faults' \in 0..MaxFaults,
         events' \subseteq Api!Event, Cardinality(events') <= Cardinality(Spent')
  PROVE  ApiTyped'
<1>1. \A q \in Publishers :
        publisher'[q].calls = publisher[q].calls /\ publisher'[q].event <= Api!MaxEvents
  BY AnswerTyped
<1>2. \A r \in requests' : r.publisher \in Publishers
  BY DEF ApiInv, EventsSound
<1>3. \A r \in requests' : r.call \in 1..publisher'[r.publisher].calls
  BY <1>1, <1>2 DEF ApiTyped
<1>4. \A q \in Publishers : publisher'[q].calls <= MaxCalls
  BY <1>1 DEF ApiTyped
<1>5. QED
  BY <1>1, <1>3, <1>4 DEF ApiTyped

LEMMA TypedDisconnect ==
  ASSUME ApiInv, ApiTyped, NEW p \in Publishers, Api!Disconnect(p)
  PROVE  ApiTyped'
<1>1. /\ Api!Answer(p, publisher[p].calls, "error", 0) /\ requests' \subseteq requests
      /\ UNCHANGED <<admitted, type, events, faults>>
  BY DEF Api!Disconnect
<1>2. 0 \in Nat /\ 0 <= Api!MaxEvents
  BY CallsCounted
<1>3. \A q \in Publishers : publisher'[q].calls = publisher[q].calls
  BY <1>1, <1>2, AnswerTyped
<1>4. Cardinality(events) \in Nat
  BY FS_CardinalityType DEF ApiInv, EventsSound
<1>5. Cardinality(events') <= Cardinality(Spent')
  BY <1>1, <1>3, <1>4, SpentStays DEF ApiTyped
<1>6. QED
  BY <1>1, <1>2, <1>5, TypedAnswered DEF ApiTyped

LEMMA TypedExecute ==
  ASSUME ApiInv, ApiTyped, NEW r \in requests, Api!Execute(r)
  PROVE  ApiTyped'
<1> DEFINE p == r.publisher
<1>1. /\ p \in Publishers /\ r.call \in Nat /\ requests' = requests \ {r}
      /\ UNCHANGED <<admitted, type>>
  BY DEF ApiInv, EventsSound, Api!Execute
<1>2. Cardinality(events) \in Nat /\ IsFiniteSet(events)
  BY FS_CardinalityType DEF ApiInv, EventsSound
<1>3. PICK answer \in Answers, id \in Nat :
        /\ Api!Answer(p, r.call, answer, id) /\ id <= Api!MaxEvents
        /\ \/ UNCHANGED <<events, faults>>
           \/ Api!Record(r)
  <2>1. {} \in SUBSET Calls
    OBVIOUS
  <2>2. 0 \in Nat /\ 0 <= Api!MaxEvents
    BY <2>1, CallsCounted
  <2>3. CASE Api!Reject(r)
    BY <2>2, <2>3 DEF Api!Reject, Answers
  <2>4. CASE Api!Repeat(r)
    <3>1. PICK e \in events : Api!Answer(p, r.call, "duplicate", e.id) /\ UNCHANGED <<events, faults>>
      BY <2>4 DEF Api!Repeat, Api!Recorded
    <3>2. e.id \in Nat /\ e.id <= Api!MaxEvents
      <4>1. e.id \in 1..Api!MaxEvents
        BY DEF ApiTyped, Api!Event
      <4>2. QED
        BY <2>1, <4>1, CallsCounted
    <3>3. QED
      BY <3>1, <3>2 DEF Answers
  <2>5. CASE Api!Record(r)
    <3>1. \/ Api!Answer(p, r.call, "accepted", Cardinality(events) + 1)
          \/ Api!Answer(p, r.call, "rejected", 0)
      BY <2>5, ApiCardinality DEF Api!Record
    <3>2. Cardinality(events) + 1 <= Api!MaxEvents
      <4>1. \A q \in Publishers : publisher'[q].calls = publisher[q].calls
        <5>1. PublishersSound
          BY DEF ApiInv
        <5>2. QED
          BY <3>1, <5>1 DEF Api!Answer, PublishersSound
      <4>2. Cardinality(Spent) + 1 <= Cardinality(Spent') /\ Cardinality(Spent) \in Nat
        BY <1>1, <4>1, SpentOne
      <4>3. Spent' \in SUBSET Calls
        BY DEF Spent, Calls
      <4>4. QED
        BY <1>2, <4>2, <4>3, CallsCounted DEF ApiTyped
    <3>3. QED
      BY <1>2, <2>2, <2>5, <3>1, <3>2 DEF Answers
  <2>6. QED
    BY <2>3, <2>4, <2>5 DEF Api!Execute
<1>4. \A q \in Publishers : publisher'[q].calls = publisher[q].calls
  BY <1>1, <1>3, AnswerTyped
<1>5. /\ Cardinality(Spent) + 1 <= Cardinality(Spent')
      /\ Cardinality(Spent) \in Nat /\ Cardinality(Spent') \in Nat
  BY <1>1, <1>4, SpentOne
<1>6. CASE UNCHANGED <<events, faults>>
  BY <1>1, <1>2, <1>3, <1>5, <1>6, TypedAnswered DEF ApiTyped
<1>7. CASE Api!Record(r)
  <2> DEFINE new == [id |-> Cardinality(events) + 1, key |-> Api!KeyOf(p, r.call),
                     data |-> Api!Fingerprint(p).data, version |-> Api!Fingerprint(p).version,
                     lifecycle |-> Api!Fingerprint(p).lifecycle]
  <2>1. events' = events \cup {new}
    BY <1>7, ApiCardinality DEF Api!Record
  <2>2. faults' \in 0..MaxFaults
    BY <1>7, BoundsAssumption DEF Api!Record, ApiTyped
  <2>3. Cardinality(events) + 1 \in 1..Api!MaxEvents
    <3>1. Spent' \in SUBSET Calls
      BY DEF Spent, Calls
    <3>2. QED
      BY <1>2, <1>5, <3>1, CallsCounted DEF ApiTyped
  <2>4. Api!KeyOf(p, r.call) \in PublisherKeys \cup (Publishers \X (1..MaxCalls))
    <3>1. publisher[p].key \in PublisherKeys \cup {NoKey} /\ publisher[p].calls \in Nat
      BY <1>1 DEF ApiInv, PublishersSound
    <3>2. r.call \in 1..MaxCalls
      BY <1>1, <3>1, BoundsAssumption DEF ApiTyped
    <3>3. QED
      BY <1>1, <3>1, <3>2 DEF Api!KeyOf
  <2>5. /\ Api!Fingerprint(p).data \in Publishers /\ Api!Fingerprint(p).version \in 0..MaxVersions
        /\ Api!Fingerprint(p).lifecycle \in Api!Lifecycles
    BY <1>1, BoundsAssumption DEF Api!Fingerprint, ApiTyped
  <2>6. new \in Api!Event
    BY <2>3, <2>4, <2>5 DEF Api!Event
  <2> HIDE DEF new
  <2>7. Cardinality(events') <= Cardinality(events) + 1 /\ Cardinality(events') \in Nat
    <3>1. /\ IsFiniteSet(events \cup {new})
          /\ Cardinality(events \cup {new}) = IF new \in events THEN Cardinality(events)
                                             ELSE Cardinality(events) + 1
      BY <1>2, FS_AddElement, Zenon
    <3>2. QED
      BY <1>2, <2>1, <3>1
  <2>8. Cardinality(events') <= Cardinality(Spent')
    BY <1>2, <1>5, <2>7 DEF ApiTyped
  <2>9. QED
    BY <1>1, <1>3, <2>1, <2>2, <2>6, <2>8, TypedAnswered DEF ApiTyped
<1>8. QED
  BY <1>3, <1>6, <1>7

LEMMA TypedStep ==
  ASSUME ApiInv, ApiTyped, Api!ApiNext \/ UNCHANGED apiVars
  PROVE  ApiTyped'
<1>1. ASSUME UNCHANGED <<publisher, requests, events, faults>>, admitted' \in BOOLEAN,
             type' \in [version : 1..MaxVersions, lifecycle : Api!Lifecycles]
      PROVE  ApiTyped'
  BY <1>1 DEF ApiTyped, Spent
<1>2. CASE UNCHANGED apiVars
  BY <1>1, <1>2 DEF apiVars, ApiTyped
<1>3. CASE Api!ChangeAdmission
  BY <1>1, <1>3 DEF Api!ChangeAdmission, ApiTyped
<1>4. ASSUME NEW version \in 1..MaxVersions, NEW lifecycle \in Api!Lifecycles,
             Api!PutEventType(version, lifecycle)
      PROVE  ApiTyped'
  BY <1>1, <1>4 DEF Api!PutEventType, ApiTyped
<1>5. QED
  BY <1>2, <1>3, <1>4, TypedPublish, TypedDisconnect, TypedExecute, Zenon DEF Api!ApiNext

LEMMA TypedStart ==
  ASSUME Api!ApiInit
  PROVE  ApiTyped
<1>1. {} \in SUBSET Calls /\ Spent \in SUBSET Calls
  BY DEF Spent, Calls
<1>2. 0 <= Api!MaxEvents /\ 0 <= Cardinality(Spent)
  BY <1>1, CallsCounted
<1>3. Cardinality(events) = 0
  BY FS_EmptySet DEF Api!ApiInit
<1>4. QED
  BY <1>2, <1>3, BoundsAssumption DEF Api!ApiInit, ApiTyped, Api!Lifecycles

LEMMA ApiTypes ==
  ASSUME ApiInv, ApiTyped
  PROVE  Api!ApiTypeOK
<1>1. publisher \in [Publishers -> Api!Publisher]
  <2> SUFFICES ASSUME NEW p \in Publishers
               PROVE  publisher[p] \in Api!Publisher
    BY DEF ApiInv, PublishersSound
  <2>1. {} \in SUBSET Calls
    OBVIOUS
  <2>2. /\ publisher[p].calls \in 0..MaxCalls /\ publisher[p].event \in 0..Api!MaxEvents
        /\ publisher[p].key \in PublisherKeys \cup {NoKey} /\ publisher[p].fixed \in BOOLEAN
        /\ publisher[p].waiting \in BOOLEAN /\ publisher[p].answer \in Answers
    BY <2>1, CallsCounted, BoundsAssumption DEF ApiInv, PublishersSound, ApiTyped
  <2>3. QED
    BY <2>2 DEF ApiInv, PublishersSound, Api!Publisher, Answers, Api!None
<1>2. requests \subseteq Api!Request
  <2> SUFFICES ASSUME NEW r \in requests
               PROVE  r \in Api!Request
    OBVIOUS
  <2>1. r \in [publisher : Publishers, call : Nat]
    BY DEF ApiInv, EventsSound
  <2>2. publisher[r.publisher].calls \in Nat /\ publisher[r.publisher].calls <= MaxCalls
    BY <2>1 DEF ApiInv, PublishersSound, ApiTyped
  <2>3. r.call \in 1..MaxCalls
    BY <2>1, <2>2, BoundsAssumption DEF ApiTyped
  <2>4. QED
    BY <2>1, <2>3 DEF Api!Request
<1>3. QED
  BY <1>1, <1>2 DEF ApiInv, KeysSound, ApiTyped, Api!ApiTypeOK

-----------------------------------------------------------------------------
(* Retention.                                                              *)

\* What a row still knows of the events S of its key that have arrived, deleted
\* ones included: every opening is part of the open incident or was recovered from.
Covers(r, S) ==
  /\ \A e \in S :
       e.lifecycle = "opened" =>
         \/ r.status = "open" /\ e.at <= r.last_opened_at
         \/ \E f \in S : f.lifecycle = "recovered" /\ f.at >= e.at
  /\ r.status = "resolved" => \E f \in S : f.lifecycle = "recovered" /\ f.at = r.resolved_at

\* And no recovery is later than the row knows.
Bounds(r, S) ==
  \A f \in S :
    f.lifecycle = "recovered" =>
      \/ r.status = "open" /\ f.at < r.last_opened_at
      \/ r.status = "resolved" /\ f.at <= r.resolved_at

LEMMA ArrivalKept ==
  ASSUME NEW r \in Kept!IncidentRow, NEW S \in SUBSET Kept!Received, NEW e \in Kept!Received
  PROVE  LET new == Kept!UpdatedIncident(r, e.lifecycle, e.at)
         IN /\ new \in Kept!IncidentRow
            /\ Covers(r, S) => Covers(new, S \cup {e})
            /\ Bounds(r, S) => Bounds(new, S \cup {e})
<1> DEFINE new == Kept!UpdatedIncident(r, e.lifecycle, e.at)
<1>1. /\ \A f \in S \cup {e} : f.at \in Nat /\ f.lifecycle \in {"opened", "recovered"}
      /\ r.status \in {"none", "open", "resolved"}
      /\ r.last_opened_at \in Nat /\ r.resolved_at \in Nat
  BY BoundsAssumption DEF Kept!Received, Kept!Lifecycles, Kept!IncidentRow
<1>2. new \in Kept!IncidentRow
  BY <1>1 DEF Kept!UpdatedIncident, Kept!OpenedRow, Kept!RecoveredRow, Kept!IncidentRow, Kept!NULL
<1>3. CASE e.lifecycle = "opened"
  <2>1. \/ new.status = "open" /\ new.last_opened_at = e.at
           /\ (r.status = "open" => r.last_opened_at <= e.at)
           /\ (r.status = "resolved" => r.resolved_at < e.at)
        \/ new = r /\ r.status = "open" /\ e.at < r.last_opened_at
        \/ new = r /\ r.status = "resolved" /\ e.at <= r.resolved_at
    BY <1>1, <1>3 DEF Kept!UpdatedIncident, Kept!AcceptsOpening, Kept!OpenedRow, Kept!IncidentRow
  <2> HIDE DEF new
  <2>2. Covers(r, S) => Covers(new, S \cup {e})
    BY <1>1, <1>3, <2>1 DEF Covers
  <2>3. Bounds(r, S) => Bounds(new, S \cup {e})
    BY <1>1, <1>3, <2>1 DEF Bounds
  <2>4. QED
    BY <1>2, <2>2, <2>3 DEF new
<1>4. CASE e.lifecycle = "recovered"
  <2>1. \/ new.status = "resolved" /\ new.resolved_at = e.at
           /\ (r.status = "open" => r.last_opened_at <= e.at)
           /\ (r.status = "resolved" => r.resolved_at < e.at)
        \/ new = r /\ r.status = "open" /\ e.at < r.last_opened_at
        \/ new = r /\ r.status = "resolved" /\ e.at <= r.resolved_at
    BY <1>1, <1>4 DEF Kept!UpdatedIncident, Kept!AcceptsRecovery, Kept!RecoveredRow, Kept!IncidentRow
  <2> HIDE DEF new
  <2>2. Covers(r, S) => Covers(new, S \cup {e})
    BY <1>1, <1>4, <2>1 DEF Covers
  <2>3. Bounds(r, S) => Bounds(new, S \cup {e})
    BY <1>1, <1>4, <2>1 DEF Bounds
  <2>4. QED
    BY <1>2, <2>2, <2>3 DEF new
<1>5. QED
  BY <1>1, <1>3, <1>4

\* The events of a key, in no order.
History(k) == {received[i] : i \in {j \in DOMAIN received : received[j].key = k}}

KeptTypes ==
  /\ day \in 1..MaxDay /\ received \in Seq(Kept!Received)
  /\ row \in [KeptKeys -> Kept!IncidentRow]

RowsKept ==
  \A k \in KeptKeys :
    Covers(row[k], History(k)) /\ (k \notin forgotten => Bounds(row[k], History(k)))

KeptInv == KeptTypes /\ RowsKept

LEMMA KeptStart ==
  ASSUME Kept!RetentionInit
  PROVE  KeptInv
<1>1. KeptTypes
  BY BoundsAssumption
  DEF Kept!RetentionInit, KeptTypes, Kept!NoIncident, Kept!IncidentRow, Kept!NULL
<1>2. \A k \in KeptKeys : History(k) = {} /\ row[k].status = "none"
  BY DEF Kept!RetentionInit, History, Kept!NoIncident
<1>3. QED
  BY <1>1, <1>2 DEF KeptInv, RowsKept, Covers, Bounds

LEMMA KeptArrive ==
  ASSUME KeptInv, NEW k \in KeptKeys, NEW lifecycle \in Kept!Lifecycles, NEW at \in 1..day,
         Kept!Arrive(k, lifecycle, at)
  PROVE  KeptInv'
<1> DEFINE e == [key |-> k, lifecycle |-> lifecycle, at |-> at, created |-> day]
           new == Kept!UpdatedIncident(row[k], lifecycle, at)
<1>1. e \in Kept!Received /\ e.lifecycle = lifecycle /\ e.at = at /\ e.key = k
  BY BoundsAssumption DEF KeptInv, KeptTypes, Kept!Received
<1>2. /\ received' = Append(received, e) /\ row' = [row EXCEPT ![k] = new]
      /\ UNCHANGED <<day, forgotten>>
  BY DEF Kept!Arrive
<1> HIDE DEF e
<1>3. /\ received \in Seq(Kept!Received) /\ row \in [KeptKeys -> Kept!IncidentRow]
      /\ received' \in Seq(Kept!Received)
      /\ DOMAIN received' = DOMAIN received \cup {Len(received) + 1}
      /\ Len(received) + 1 \notin DOMAIN received
      /\ received'[Len(received) + 1] = e
      /\ \A i \in DOMAIN received : received'[i] = received[i]
  BY <1>1, <1>2 DEF KeptInv, KeptTypes
<1>4. \A j \in KeptKeys : History(j)' = IF j = k THEN History(j) \cup {e} ELSE History(j)
  BY <1>1, <1>3 DEF History
<1>5. \A j \in KeptKeys : History(j) \in SUBSET Kept!Received
  BY <1>3 DEF History
<1>6. /\ new \in Kept!IncidentRow
      /\ Covers(row[k], History(k)) => Covers(new, History(k) \cup {e})
      /\ Bounds(row[k], History(k)) => Bounds(new, History(k) \cup {e})
  BY <1>1, <1>3, <1>5, ArrivalKept
<1> HIDE DEF new
<1>7. KeptTypes'
  BY <1>2, <1>3, <1>6 DEF KeptInv, KeptTypes
<1>8. \A j \in KeptKeys : row'[j] = IF j = k THEN new ELSE row[j]
  BY <1>2, <1>3
<1>9. RowsKept'
  BY <1>2, <1>4, <1>6, <1>8 DEF KeptInv, RowsKept
<1>10. QED
  BY <1>7, <1>9 DEF KeptInv

\* The row of an open incident stays, because its opening is exempt; any other row
\* that goes belongs to a key that is remembered in `forgotten`.
LEMMA KeptCleanup ==
  ASSUME KeptInv, Kept!CleanupExpiredData
  PROVE  KeptInv'
<1>1. /\ UNCHANGED <<day, received>> /\ forgotten \subseteq forgotten'
      /\ \A k \in KeptKeys :
           \/ row'[k] = row[k]
           \/ row[k].status # "open" /\ row'[k] = Kept!NoIncident /\ k \in forgotten'
      /\ row' = [k \in KeptKeys |-> row'[k]]
  BY DEF Kept!CleanupExpiredData, Kept!Cascaded, Kept!Exempt, Kept!Due, Kept!Expired
<1>2. Kept!NoIncident \in Kept!IncidentRow /\ Kept!NoIncident.status = "none"
  BY DEF Kept!NoIncident, Kept!IncidentRow, Kept!NULL
<1>3. KeptTypes'
  BY <1>1, <1>2 DEF KeptInv, KeptTypes
<1>4. \A k \in KeptKeys : History(k)' = History(k)
  BY <1>1 DEF History
<1>5. RowsKept'
  <2> SUFFICES ASSUME NEW k \in KeptKeys
               PROVE  /\ Covers(row'[k], History(k))
                      /\ k \notin forgotten' => Bounds(row'[k], History(k))
    BY <1>4 DEF RowsKept
  <2>1. Covers(row[k], History(k)) /\ (k \notin forgotten => Bounds(row[k], History(k)))
    BY DEF KeptInv, RowsKept
  <2>2. row[k].status # "open" => Covers(Kept!NoIncident, History(k))
    BY <1>2, <2>1 DEF Covers
  <2>3. QED
    BY <1>1, <2>1, <2>2
<1>6. QED
  BY <1>3, <1>5 DEF KeptInv

LEMMA KeptStep ==
  ASSUME KeptInv, Kept!RetentionNext \/ UNCHANGED keptVars
  PROVE  KeptInv'
<1>1. CASE UNCHANGED <<received, row, forgotten>> /\ day' \in 1..MaxDay
  BY <1>1 DEF KeptInv, KeptTypes, RowsKept, History
<1>2. CASE UNCHANGED keptVars
  BY <1>1, <1>2 DEF keptVars, KeptInv, KeptTypes
<1>3. CASE Kept!Tomorrow
  BY <1>1, <1>3, BoundsAssumption DEF Kept!Tomorrow, KeptInv, KeptTypes
<1>4. QED
  BY <1>2, <1>3, KeptArrive, KeptCleanup, Zenon DEF Kept!RetentionNext

\* The foreign key: a row names an event that is there.
KeptLinked ==
  /\ Len(received) <= MaxReceived /\ stored \subseteq DOMAIN received /\ forgotten \subseteq KeptKeys
  /\ opened \in [KeptKeys -> 0..Len(received)]
  /\ \A k \in KeptKeys : IF row[k].status = "none" THEN opened[k] = 0 ELSE opened[k] \in stored

LEMMA LinkedStart ==
  ASSUME Kept!RetentionInit
  PROVE  KeptLinked
BY BoundsAssumption DEF Kept!RetentionInit, KeptLinked, Kept!NoIncident

LEMMA LinkedArrive ==
  ASSUME KeptInv, KeptLinked, NEW k \in KeptKeys, NEW lifecycle \in Kept!Lifecycles, NEW at \in 1..day,
         Kept!Arrive(k, lifecycle, at)
  PROVE  KeptLinked'
<1> DEFINE e == [key |-> k, lifecycle |-> lifecycle, at |-> at, created |-> day]
           new == Kept!UpdatedIncident(row[k], lifecycle, at)
<1>1. e \in Kept!Received
  BY BoundsAssumption DEF KeptInv, KeptTypes, Kept!Received
<1>2. received' = Append(received, e)
  BY DEF Kept!Arrive
<1> HIDE DEF e
<1>3. PICK n \in Nat : n = Len(received)
  BY DEF KeptInv, KeptTypes
<1>4. /\ Len(received') = n + 1 /\ DOMAIN received' = 1..(n + 1) /\ DOMAIN received = 1..n
      /\ n + 1 <= MaxReceived /\ stored' = stored \cup {n + 1} /\ UNCHANGED forgotten
  BY <1>1, <1>2, <1>3, BoundsAssumption DEF KeptInv, KeptTypes, Kept!Arrive
<1>5. row' = [row EXCEPT ![k] = new] /\ row \in [KeptKeys -> Kept!IncidentRow]
  BY DEF Kept!Arrive, KeptInv, KeptTypes
<1>6. \/ new.status # "none" /\ opened' = [opened EXCEPT ![k] = n + 1]
      \/ new.status # "none" /\ row[k].status # "none" /\ opened' = opened
  <2>1. row[k].status \in {"none", "open", "resolved"} /\ lifecycle \in {"opened", "recovered"}
    BY <1>5 DEF Kept!IncidentRow, Kept!Lifecycles
  <2>2. new.status # "none"
    BY <2>1, <1>5 DEF Kept!UpdatedIncident, Kept!OpenedRow, Kept!RecoveredRow, Kept!AcceptsOpening,
                Kept!AcceptsRecovery, Kept!IncidentRow
  <2>3. opened' = IF /\ Kept!Accepts(row[k], lifecycle, at)
                     /\ lifecycle = "opened" \/ row[k].status = "none"
                  THEN [opened EXCEPT ![k] = n + 1] ELSE opened
    BY <1>3, <1>4 DEF Kept!Arrive
  <2>4. row[k].status = "none" => Kept!Accepts(row[k], lifecycle, at)
    BY <2>1 DEF Kept!Accepts, Kept!AcceptsOpening, Kept!AcceptsRecovery
  <2>5. QED
    BY <2>2, <2>3, <2>4
<1> HIDE DEF new
<1>7. opened' \in [KeptKeys -> 0..(n + 1)]
  BY <1>3, <1>6 DEF KeptLinked
<1>8. ASSUME NEW j \in KeptKeys
      PROVE  IF row'[j].status = "none" THEN opened'[j] = 0 ELSE opened'[j] \in stored'
  BY <1>4, <1>5, <1>6 DEF KeptLinked
<1>9. stored' \subseteq DOMAIN received' /\ forgotten' \subseteq KeptKeys
  BY <1>3, <1>4 DEF KeptLinked
<1>10. QED
  BY <1>4, <1>7, <1>8, <1>9 DEF KeptLinked

LEMMA LinkedStep ==
  ASSUME KeptInv, KeptLinked, Kept!RetentionNext \/ UNCHANGED keptVars
  PROVE  KeptLinked'
<1>1. CASE Kept!CleanupExpiredData
  <2>1. PICK gone \in SUBSET stored :
          /\ stored' = stored \ gone
          /\ row' = [k \in KeptKeys |-> IF opened[k] \in gone THEN Kept!NoIncident ELSE row[k]]
          /\ opened' = [k \in KeptKeys |-> IF opened[k] \in gone THEN 0 ELSE opened[k]]
          /\ forgotten' \subseteq forgotten \cup KeptKeys /\ UNCHANGED received
    BY <1>1 DEF Kept!CleanupExpiredData, Kept!Cascaded
  <2>2. Kept!NoIncident.status = "none"
    BY DEF Kept!NoIncident
  <2>3. opened \in [KeptKeys -> 0..Len(received)] /\ Len(received) \in Nat
    BY DEF KeptLinked, KeptInv, KeptTypes
  <2>4. opened' \in [KeptKeys -> 0..Len(received)]
    BY <2>1, <2>3
  <2>5. QED
    BY <2>1, <2>2, <2>4 DEF KeptLinked
<1>2. CASE Kept!Tomorrow
  BY <1>2 DEF Kept!Tomorrow, KeptLinked
<1>3. CASE UNCHANGED keptVars
  BY <1>3 DEF keptVars, KeptLinked
<1>4. QED
  BY <1>1, <1>2, <1>3, LinkedArrive, Zenon DEF Kept!RetentionNext

\* What retention deletes decides nothing any more: no outage is forgotten, and no
\* recovery while it matters (MCSmall!NothingThatMattersForgotten; db.ts).
THEOREM SmallForgetsNothing == MCSpec => []NothingThatMattersForgotten
<1>1. MCInit => KeptInv
  BY KeptStart, Zenon DEF MCInit, KeptRests
<1>2. KeptInv /\ [MCNext]_allVars => KeptInv'
  BY Scenes, KeptStep, Zenon
<1>3. KeptInv => NothingThatMattersForgotten
  <2> SUFFICES ASSUME KeptInv
               PROVE  Kept!NoMissedAlarm /\ Kept!NoFalseAlarm
    BY Zenon DEF NothingThatMattersForgotten, Kept!NothingThatMattersForgotten
  <2>1. \A i \in DOMAIN received :
          /\ received[i].key \in KeptKeys /\ received[i] \in History(received[i].key)
          /\ received[i].at \in Nat
    <3> SUFFICES ASSUME NEW i \in DOMAIN received
                 PROVE  /\ received[i].key \in KeptKeys /\ received[i] \in History(received[i].key)
                        /\ received[i].at \in Nat
      OBVIOUS
    <3>1. received[i] \in Kept!Received
      BY DEF KeptInv, KeptTypes
    <3>2. received[i].key \in KeptKeys /\ received[i].at \in 1..MaxDay
      BY <3>1 DEF Kept!Received
    <3>3. received[i] \in History(received[i].key)
      BY DEF History
    <3>4. QED
      BY <3>2, <3>3, BoundsAssumption
  <2>2. \A k \in KeptKeys : \A f \in History(k) :
          \E i \in DOMAIN received : f = received[i] /\ received[i].key = k
    BY DEF History
  <2>3. Kept!NoMissedAlarm
    <3> SUFFICES ASSUME NEW i \in DOMAIN received, received[i].lifecycle = "opened",
                        row[received[i].key].status # "open"
                 PROVE  \E j \in DOMAIN received :
                          /\ received[j].key = received[i].key /\ received[j].lifecycle = "recovered"
                          /\ received[j].at >= received[i].at
      BY DEF Kept!NoMissedAlarm
    <3>1. Covers(row[received[i].key], History(received[i].key))
      BY <2>1 DEF KeptInv, RowsKept
    <3>2. PICK f \in History(received[i].key) : f.lifecycle = "recovered" /\ f.at >= received[i].at
      BY <2>1, <3>1 DEF Covers
    <3>3. PICK j \in DOMAIN received : f = received[j] /\ received[j].key = received[i].key
      BY <2>1, <2>2
    <3>4. QED
      BY <3>2, <3>3
  <2>4. Kept!NoFalseAlarm
    BY <2>1 DEF Kept!NoFalseAlarm, KeptInv, RowsKept, Bounds
  <2>5. QED
    BY <2>3, <2>4
<1>4. QED
  BY <1>1, <1>2, <1>3, PTL DEF MCSpec, allVars

-----------------------------------------------------------------------------
(* Built-in projects and the recipients' subscription.                     *)

Mailing == [id : Own!Ids \cup {"unset"}, owner : Own!Users \cup {Own!Nobody}, migrated : BOOLEAN]
Subscription == Own!Row \cup {Own!NoRow}

OwnTypes ==
  /\ user \in [Own!Users -> Own!User] /\ recipients \in BOOLEAN
  /\ smtp \in Mailing /\ subs \in [Own!Ids -> Subscription]

\* In a running server: which subscription is ours is settled.
Served == OwnTypes /\ Own!RecipientsServed /\ (up => smtp.id \in Own!Ids)

\* Absent users have left no trace; the projects that get their members at the next
\* start have lost none, and the others have exactly theirs.  While the server runs,
\* there are no others.
MembersSound ==
  /\ user \in [Own!Users -> Own!User]
  /\ \A p \in BuiltInProjects, u \in Own!Users :
       IF user[u].status = "absent" \/ p \in Own!NeedingMembers
       THEN <<p, u>> \notin left_out /\ (user[u].status = "absent" => <<p, u>> \notin members)
       ELSE Own!Present(u) => (<<p, u>> \in members <=> <<p, u>> \notin left_out)
  /\ up => initialised = BuiltInProjects /\ known = BuiltInProjects

-----------------------------------------------------------------------------
(* What a step does to users.                                              *)

LEMMA OwnPost ==
  ASSUME user \in [Own!Users -> Own!User], NEW t, NEW u \in Own!Users, NEW role \in Own!Roles,
         Own!PostUser(t, u, role)
  PROVE  /\ user' \in [Own!Users -> Own!User]
         /\ user[u].status = "absent" /\ user'[u].status = "active"
         /\ \A v \in Own!Users \ {u} : user'[v] = user[v]
BY DEF Own!PostUser, Own!User

LEMMA OwnChange ==
  ASSUME user \in [Own!Users -> Own!User], NEW t, NEW u \in Own!Users, Own!ChangeUser(t, u)
  PROVE  /\ user' \in [Own!Users -> Own!User]
         /\ \A v \in Own!Users :
              /\ user'[v].status = "absent" <=> user[v].status = "absent"
              /\ Own!Present(v)' => Own!Present(v)
<1>1. CASE Own!DeleteUser(t, u)
  BY <1>1 DEF Own!DeleteUser, Own!Present, Own!User
<1>2. ASSUME NEW role \in Own!Roles, NEW status \in {"active", "disabled"},
             Own!PatchUser(t, u, role, status)
      PROVE  /\ user' \in [Own!Users -> Own!User]
             /\ \A v \in Own!Users :
                  /\ user'[v].status = "absent" <=> user[v].status = "absent"
                  /\ Own!Present(v)' => Own!Present(v)
  BY <1>2 DEF Own!PatchUser, Own!Present, Own!User
<1>3. QED
  BY <1>1, <1>2, Zenon DEF Own!ChangeUser

-----------------------------------------------------------------------------
(* Members.                                                                *)

LEMMA MembersStep ==
  ASSUME MembersSound, Own!BuiltInsNext \/ UNCHANGED <<peopleVars, ownVars>>
  PROVE  MembersSound'
<1> USE DEF MembersSound
<1>1. ASSUME user' \in [Own!Users -> Own!User],
             \A v \in Own!Users :
               /\ user'[v].status = "absent" <=> user[v].status = "absent"
               /\ Own!Present(v)' => Own!Present(v),
             UNCHANGED <<known, initialised, migrated, members, left_out>>,
             up' => up
      PROVE  MembersSound'
  BY <1>1 DEF Own!NeedingMembers
<1>2. ASSUME UNCHANGED <<user, known, initialised, migrated, members, left_out>>, up' => up
      PROVE  MembersSound'
  BY <1>2 DEF Own!NeedingMembers, Own!Present
<1>3. ASSUME NEW done \in 0..Own!Complete, Own!StartServer(done)
      PROVE  MembersSound'
  BY <1>3 DEF Own!StartServer, Own!NeedingMembers, Own!Present, Own!accountVars
<1>4. ASSUME NEW t, NEW u \in Own!Users, NEW role \in Own!Roles, NEW inserted \in BOOLEAN,
             NEW done \in 0..Own!Complete, Own!CreateUser(t, u, role, inserted, done)
      PROVE  MembersSound'
  <2>1. /\ user' \in [Own!Users -> Own!User]
        /\ user[u].status = "absent" /\ user'[u].status = "active"
        /\ \A v \in Own!Users \ {u} : user'[v] = user[v]
    BY <1>4, OwnPost DEF Own!CreateUser
  <2>2. /\ UNCHANGED <<known, initialised, migrated>> /\ up
        /\ \/ members' = members \cup (known \X {u}) /\ UNCHANGED left_out
           \/ left_out' = left_out \cup (known \X {u}) /\ UNCHANGED members
    BY <1>4, Zenon DEF Own!CreateUser
  <2>3. Own!NeedingMembers = {} /\ Own!NeedingMembers' = {}
    BY <2>2 DEF Own!NeedingMembers
  <2>4. QED
    BY <2>1, <2>2, <2>3 DEF Own!Present
<1>5. ASSUME NEW p \in BuiltInProjects \cup {MarketProject}, NEW u \in Own!Users,
             user[u].status # "absent", up,
             UNCHANGED <<user, up, known, initialised, migrated>>,
             \/ members' = members \cup {<<p, u>>} /\ left_out' = left_out \ {<<p, u>>}
             \/ members' = members \ {<<p, u>>} /\ left_out' = left_out \cup {<<p, u>>}
      PROVE  MembersSound'
  <2>1. Own!NeedingMembers = {} /\ Own!NeedingMembers' = {}
    BY <1>5 DEF Own!NeedingMembers
  <2>2. QED
    BY <1>5, <2>1 DEF Own!Present
<1>6. ASSUME NEW t, NEW p \in BuiltInProjects, NEW u \in Own!Users, Own!AddMember(t, p, u)
      PROVE  MembersSound'
  BY <1>5, <1>6 DEF Own!AddMember, Own!Active, Own!accountVars
<1>7. ASSUME NEW t, NEW p \in BuiltInProjects, NEW u \in Own!Users, Own!RemoveMember(t, p, u)
      PROVE  MembersSound'
  <2>1. up /\ <<p, u>> \in members
    BY <1>7 DEF Own!RemoveMember
  <2>2. user[u].status # "absent"
    BY <2>1
  <2>3. QED
    BY <1>5, <1>7, <2>2 DEF Own!RemoveMember, Own!accountVars
<1>8. ASSUME NEW t, Own!JoinMarket(t)
      PROVE  MembersSound'
  BY <1>5, <1>8 DEF Own!JoinMarket, Own!SessionUser, Own!Active, Own!accountVars
<1>9. ASSUME NEW t, NEW some \in BOOLEAN, NEW done \in 0..Own!Complete, Own!PutSmtp(t, some, done)
      PROVE  MembersSound'
  BY <1>2, <1>9, Zenon DEF Own!PutSmtp, Own!accountVars, Own!projectVars
<1>10. ASSUME NEW t, NEW u \in Own!Users, Own!ChangeUser(t, u)
       PROVE  MembersSound'
  BY <1>1, <1>10, OwnChange, Zenon DEF Own!ChangeUser, Own!projectVars
<1>11. ASSUME NEW t, Own!UseAccount(t)
       PROVE  MembersSound'
  BY <1>2, <1>11, Zenon DEF Own!UseAccount, Own!EndSession, Own!Login, Own!builtInVars
<1>12. ASSUME NEW t, NEW id, NEW enabled, NEW plain,
              Own!SaveSubscription(t, id, enabled, plain) \/ Own!DeleteSubscription(t, id)
       PROVE  MembersSound'
  BY <1>2, <1>12, Zenon
  DEF Own!SaveSubscription, Own!DeleteSubscription, Own!accountVars, Own!projectVars
<1>13. CASE Own!Stop
  BY <1>2, <1>13, Zenon DEF Own!Stop, Own!accountVars, Own!projectVars
<1>14. CASE UNCHANGED <<peopleVars, ownVars>>
  BY <1>2, <1>14, Zenon DEF peopleVars, ownVars
<1>15. QED
  BY <1>3, <1>4, <1>6, <1>7, <1>8, <1>9, <1>10, <1>11, <1>12, <1>13, <1>14, Zenon
  DEF Own!BuiltInsNext

\* The types of what the synchronisation leaves alone.
ProjectTypes ==
  /\ up \in BOOLEAN /\ migrated \in BOOLEAN /\ deaths \in 0..MaxDeaths
  /\ known \subseteq BuiltInProjects /\ initialised \subseteq BuiltInProjects
  /\ members \subseteq BuiltInProjects \X Own!Users
  /\ left_out \subseteq BuiltInProjects \X Own!Users

LEMMA ProjectTypesStep ==
  ASSUME ProjectTypes, Own!BuiltInsNext \/ UNCHANGED <<peopleVars, ownVars>>
  PROVE  ProjectTypes'
<1> USE DEF ProjectTypes
<1>1. ASSUME UNCHANGED <<known, initialised, migrated>>, up' \in BOOLEAN, deaths' \in 0..MaxDeaths,
             members' \subseteq BuiltInProjects \X Own!Users,
             left_out' \subseteq BuiltInProjects \X Own!Users
      PROVE  ProjectTypes'
  BY <1>1
<1>2. ASSUME NEW done \in 0..Own!Complete, Own!Survives(done)
      PROVE  up' \in BOOLEAN /\ deaths' \in 0..MaxDeaths
  BY <1>2, BoundsAssumption DEF Own!Survives
<1>3. ASSUME NEW done \in 0..Own!Complete, Own!StartServer(done)
      PROVE  ProjectTypes'
  <2>1. up' \in BOOLEAN /\ deaths' \in 0..MaxDeaths
    BY <1>2, <1>3, Zenon DEF Own!StartServer
  <2>2. QED
    BY <1>3, <2>1 DEF Own!StartServer, Own!NeedingMembers
<1>4. ASSUME NEW t, NEW u \in Own!Users, NEW role \in Own!Roles, NEW inserted \in BOOLEAN,
             NEW done \in 0..Own!Complete, Own!CreateUser(t, u, role, inserted, done)
      PROVE  ProjectTypes'
  <2>1. up' \in BOOLEAN /\ deaths' \in 0..MaxDeaths
    BY <1>2, <1>4, Zenon DEF Own!CreateUser
  <2>2. /\ UNCHANGED <<known, initialised, migrated>>
        /\ \/ members' = members \cup (known \X {u}) /\ UNCHANGED left_out
           \/ left_out' = left_out \cup (known \X {u}) /\ UNCHANGED members
    BY <1>4, Zenon DEF Own!CreateUser
  <2>3. known \X {u} \subseteq BuiltInProjects \X Own!Users
    OBVIOUS
  <2>4. QED
    BY <1>1, <2>1, <2>2, <2>3
<1>5. ASSUME NEW t, NEW some \in BOOLEAN, NEW done \in 0..Own!Complete, Own!PutSmtp(t, some, done)
      PROVE  ProjectTypes'
  <2>1. up' \in BOOLEAN /\ deaths' \in 0..MaxDeaths
    BY <1>2, <1>5, Zenon DEF Own!PutSmtp
  <2>2. UNCHANGED <<known, initialised, migrated, members, left_out>>
    BY <1>5, Zenon DEF Own!PutSmtp, Own!projectVars
  <2>3. QED
    BY <1>1, <2>1, <2>2
<1>6. ASSUME NEW t, NEW p \in BuiltInProjects, NEW u \in Own!Users,
             Own!AddMember(t, p, u) \/ Own!RemoveMember(t, p, u)
      PROVE  ProjectTypes'
  BY <1>6 DEF Own!AddMember, Own!RemoveMember
<1>7. ASSUME NEW t, Own!JoinMarket(t)
      PROVE  ProjectTypes'
  <2>1. session[t] \in Own!Users
    BY <1>7 DEF Own!JoinMarket, Own!SessionUser, Own!Active
  <2>2. QED
    BY <1>7, <2>1, BoundsAssumption DEF Own!JoinMarket
<1>8. ASSUME UNCHANGED <<known, initialised, migrated, members, left_out, up, deaths>>
      PROVE  ProjectTypes'
  BY <1>8
<1>9. ASSUME NEW t, NEW u \in Own!Users, Own!ChangeUser(t, u)
      PROVE  ProjectTypes'
  BY <1>8, <1>9, Zenon DEF Own!ChangeUser, Own!projectVars
<1>10. ASSUME NEW t, Own!UseAccount(t)
       PROVE  ProjectTypes'
  BY <1>8, <1>10, Zenon DEF Own!UseAccount, Own!builtInVars
<1>11. ASSUME NEW t, NEW id, NEW enabled, NEW plain,
              Own!SaveSubscription(t, id, enabled, plain) \/ Own!DeleteSubscription(t, id)
       PROVE  ProjectTypes'
  BY <1>8, <1>11, Zenon DEF Own!SaveSubscription, Own!DeleteSubscription, Own!projectVars
<1>12. CASE Own!Stop
  <2>1. UNCHANGED <<known, initialised, migrated, members, left_out>>
    BY <1>12, Zenon DEF Own!Stop, Own!projectVars
  <2>2. up' = FALSE /\ deaths' = deaths + 1 /\ deaths < MaxDeaths
    BY <1>12, Zenon DEF Own!Stop
  <2>3. deaths' \in 0..MaxDeaths
    BY <2>2, BoundsAssumption
  <2>4. QED
    BY <1>1, <2>1, <2>2, <2>3
<1>13. CASE UNCHANGED <<peopleVars, ownVars>>
  BY <1>8, <1>13, Zenon DEF peopleVars, ownVars
<1>14. QED
  BY <1>3, <1>4, <1>5, <1>6, <1>7, <1>9, <1>10, <1>11, <1>12, <1>13, Zenon DEF Own!BuiltInsNext

\* And the sessions: of those who use them, here too, nothing more is said.
LEMMA OwnAccountsStep ==
  ASSUME Own!AccountsTypeOK, Own!BuiltInsNext \/ UNCHANGED <<peopleVars, ownVars>>
  PROVE  Own!AccountsTypeOK'
<1>1. ASSUME UNCHANGED <<root, user, session, outdated, spared>>
      PROVE  Own!AccountsTypeOK'
  BY <1>1 DEF Own!AccountsTypeOK
<1>2. ASSUME NEW t, NEW u \in Own!Users, NEW role \in Own!Roles, Own!PostUser(t, u, role)
      PROVE  Own!AccountsTypeOK'
  BY <1>2 DEF Own!AccountsTypeOK, Own!PostUser, Own!User
<1>3. ASSUME NEW t, NEW u \in Own!Users, Own!DeleteUser(t, u)
      PROVE  Own!AccountsTypeOK'
  BY <1>3 DEF Own!AccountsTypeOK, Own!DeleteUser, Own!Without, Own!User
<1>4. ASSUME NEW t, NEW u \in Own!Users, NEW role \in Own!Roles,
             NEW status \in {"active", "disabled"}, Own!PatchUser(t, u, role, status)
      PROVE  Own!AccountsTypeOK'
  BY <1>4 DEF Own!AccountsTypeOK, Own!PatchUser, Own!PatchedSessions, Own!Without, Own!User
<1>5. ASSUME NEW t, NEW u \in Own!Users, Own!Login(t, u)
      PROVE  Own!AccountsTypeOK'
  BY <1>5 DEF Own!AccountsTypeOK, Own!Login
<1>6. ASSUME NEW t, Own!EndSession(t)
      PROVE  Own!AccountsTypeOK'
  BY <1>6 DEF Own!AccountsTypeOK, Own!EndSession, Own!Without
<1>7. ASSUME NEW t, NEW u \in Own!Users, Own!ChangeUser(t, u)
      PROVE  Own!AccountsTypeOK'
  <2>1. CASE Own!DeleteUser(t, u)
    BY <1>3, <2>1, Zenon
  <2>2. ASSUME NEW role \in Own!Roles, NEW status \in {"active", "disabled"},
               Own!PatchUser(t, u, role, status)
        PROVE  Own!AccountsTypeOK'
    BY <1>4, <2>2, Zenon
  <2>3. QED
    BY <1>7, <2>1, <2>2, Zenon DEF Own!ChangeUser
<1>8. ASSUME NEW t, NEW u \in Own!Users, NEW role \in Own!Roles, NEW inserted, NEW done,
             Own!CreateUser(t, u, role, inserted, done)
      PROVE  Own!AccountsTypeOK'
  BY <1>2, <1>8, Zenon DEF Own!CreateUser
<1>9. ASSUME NEW t, Own!UseAccount(t)
      PROVE  Own!AccountsTypeOK'
  BY <1>5, <1>6, <1>9, Zenon DEF Own!UseAccount
<1>10. ASSUME NEW t, NEW some, NEW done, Own!PutSmtp(t, some, done) \/ Own!StartServer(done)
       PROVE  Own!AccountsTypeOK'
  BY <1>1, <1>10, Zenon DEF Own!PutSmtp, Own!StartServer, Own!accountVars
<1>11. ASSUME NEW t, NEW p, NEW u,
              Own!AddMember(t, p, u) \/ Own!RemoveMember(t, p, u) \/ Own!JoinMarket(t)
       PROVE  Own!AccountsTypeOK'
  BY <1>1, <1>11, Zenon DEF Own!AddMember, Own!RemoveMember, Own!JoinMarket, Own!accountVars
<1>12. ASSUME NEW t, NEW id, NEW enabled, NEW plain,
              Own!SaveSubscription(t, id, enabled, plain) \/ Own!DeleteSubscription(t, id)
       PROVE  Own!AccountsTypeOK'
  BY <1>1, <1>12, Zenon DEF Own!SaveSubscription, Own!DeleteSubscription, Own!accountVars
<1>13. CASE Own!Stop
  BY <1>1, <1>13, Zenon DEF Own!Stop, Own!accountVars
<1>14. CASE UNCHANGED <<peopleVars, ownVars>>
  BY <1>1, <1>14, Zenon DEF peopleVars
<1>15. QED
  BY <1>7, <1>8, <1>9, <1>10, <1>11, <1>12, <1>13, <1>14, Zenon DEF Own!BuiltInsNext

LEMMA MembersStart ==
  ASSUME Own!BuiltInsInit
  PROVE  MembersSound
<1>1. /\ user \in [Own!Users -> Own!User]
      /\ \A u \in Own!Users : u # 1 => user[u].status = "absent"
      /\ user[1].status = "active" /\ 1 \in Own!Users
      /\ up = FALSE /\ initialised = {}
  BY BoundsAssumption DEF Own!BuiltInsInit, Own!Init, Own!User, Own!Roles, Own!Users
<1>2. members \subseteq known \X {1} /\ known \subseteq BuiltInProjects
  BY DEF Own!BuiltInsInit, Own!NewDatabase, Own!OldDatabase
<1>3. left_out = IF migrated THEN ((known \ {MarketProject}) \X {1}) \ members ELSE {}
  BY DEF Own!BuiltInsInit
<1>4. \A p \in BuiltInProjects :
        p \in Own!NeedingMembers <=> p \notin known \/ ~migrated \/ p = MarketProject
  BY <1>1 DEF Own!NeedingMembers
<1>5. QED
  BY <1>1, <1>2, <1>3, <1>4 DEF MembersSound, Own!Present

\* Restarts, upgrades, deaths and new users in any order: every user is a member of
\* exactly the built-in projects nobody has taken him out of
\* (MCSmall!MembersExact; db.ts, routes/users.ts, routes/notifications.ts).
THEOREM SmallMembersExact == MCSpec => []MembersExact
<1> DEFINE Inv == scene = "built-ins" => MembersSound
<1>1. MCInit => Inv
  BY MembersStart, Zenon DEF MCInit
<1>2. Inv /\ [MCNext]_allVars => Inv'
  BY Scenes, MembersStep, Zenon
<1>3. Inv => MembersExact
  <2> SUFFICES ASSUME MembersSound
               PROVE  Own!MembersExact
    BY DEF MembersExact
  <2>1. up => Own!NeedingMembers = {}
    BY DEF MembersSound, Own!NeedingMembers
  <2>2. QED
    BY <2>1 DEF MembersSound, Own!MembersExact, Own!Present
<1>4. QED
  BY <1>1, <1>2, <1>3, PTL DEF MCSpec, allVars

-----------------------------------------------------------------------------
(* The recipients' subscription.                                           *)

\* A synchronisation that is not cut short leaves the subscription with an active
\* administrator, and enabled exactly if there are recipients.
LEMMA OwnSync ==
  ASSUME OwnTypes, NEW done \in 0..Own!Complete, user' \in [Own!Users -> Own!User],
         recipients' \in BOOLEAN, Own!Sync(done)
  PROVE  /\ OwnTypes'
         /\ done = Own!Complete => smtp'.id \in Own!Ids /\ Own!RecipientsServed'
<1> DEFINE id == Own!SubscriptionId
           admins == Own!ActiveAdmins'
           owner == Own!Owner
           old == subs[id]
           moved == IF old.exists THEN [old EXCEPT !.owner = owner] ELSE old
           applied == Own!Applied(moved)
<1>1. id \in Own!Ids
  BY DEF Own!SubscriptionId, Own!Ids, OwnTypes, Mailing
<1>2. admins \subseteq Own!Users /\ admins \subseteq Nat
  BY BoundsAssumption DEF Own!ActiveAdmins, Own!Users
<1>3. admins # {} => owner \in admins
  BY <1>2, Least DEF Own!Owner, Own!Min
<1>4. old \in Subscription
  BY <1>1 DEF OwnTypes
<1>5. smtp' = [smtp EXCEPT !.id = IF done >= 1 THEN id ELSE @,
                           !.owner = IF done >= 2 /\ admins # {} THEN owner ELSE @]
  BY DEF Own!Sync
<1>6. subs' = IF admins = {} \/ done < 3 THEN subs
              ELSE [subs EXCEPT ![id] = IF done = 3 THEN moved ELSE applied]
  BY DEF Own!Sync
<1>7. applied = IF recipients'
                THEN [moved EXCEPT !.exists = TRUE, !.owner = owner, !.enabled = TRUE,
                                   !.plain = moved.plain \/ ~moved.exists, !.touched = FALSE]
                ELSE [moved EXCEPT !.enabled = FALSE, !.touched = FALSE]
  BY DEF Own!Applied
<1> HIDE DEF id, admins, owner, old, applied
<1>8. ASSUME admins # {}
      PROVE  /\ moved \in Subscription
             /\ moved.exists => moved.owner = owner
  <2>1. CASE old.exists
    <3>1. old \in Own!Row
      BY <1>4, <2>1 DEF Subscription, Own!NoRow
    <3>2. owner \in Own!Users
      BY <1>2, <1>3, <1>8
    <3>3. QED
      BY <2>1, <3>1, <3>2 DEF Subscription, Own!Row
  <2>2. CASE ~old.exists
    BY <1>4, <2>2
  <2>3. QED
    BY <2>1, <2>2
<1> HIDE DEF moved
<1>9. ASSUME admins # {}
      PROVE  /\ applied \in Subscription
             /\ applied.exists => applied.owner = owner
             /\ applied.enabled = recipients'
  <2>1. moved \in Subscription /\ owner \in Own!Users /\ recipients' \in BOOLEAN
        /\ (moved.exists => moved.owner = owner)
    BY <1>2, <1>3, <1>8, <1>9
  <2>2. CASE recipients' /\ moved \in Own!Row
    BY <1>7, <2>1, <2>2 DEF Subscription, Own!Row
  <2>3. CASE recipients' /\ moved = Own!NoRow
    BY <1>7, <2>1, <2>3 DEF Subscription, Own!Row, Own!NoRow
  <2>4. CASE ~recipients' /\ moved \in Own!Row
    BY <1>7, <2>1, <2>4 DEF Subscription, Own!Row
  <2>5. CASE ~recipients' /\ moved = Own!NoRow
    BY <1>7, <2>1, <2>5 DEF Subscription, Own!NoRow
  <2>6. QED
    BY <2>1, <2>2, <2>3, <2>4, <2>5 DEF Subscription
<1>10. smtp' \in Mailing
  BY <1>1, <1>2, <1>3, <1>5 DEF OwnTypes, Mailing
<1>11. subs' \in [Own!Ids -> Subscription]
  BY <1>1, <1>6, <1>8, <1>9 DEF OwnTypes
<1>12. ASSUME done = Own!Complete
       PROVE  smtp'.id = id /\ (admins # {} => subs'[id] = applied)
  BY <1>1, <1>5, <1>6, <1>12 DEF OwnTypes, Mailing, Own!Complete
<1>13. ASSUME done = Own!Complete
       PROVE  Own!RecipientsServed'
  BY <1>3, <1>9, <1>12, <1>13 DEF Own!RecipientsServed, admins
<1>14. QED
  BY <1>1, <1>10, <1>11, <1>12, <1>13 DEF OwnTypes

\* A step that leaves users, recipients and the choice of the subscription alone, and
\* changes no subscription without its owner.
LEMMA OwnKeeps ==
  ASSUME Served, UNCHANGED <<user, recipients, smtp>>, up' => up,
         subs' \in [Own!Ids -> Subscription],
         \A i \in Own!Ids :
           subs'[i] = subs[i] \/
           /\ subs'[i].exists = subs[i].exists /\ subs'[i].owner = subs[i].owner
           /\ subs'[i].touched
  PROVE  Served'
<1>1. OwnTypes'
  BY DEF Served, OwnTypes
<1>2. Own!ActiveAdmins' = Own!ActiveAdmins
  BY DEF Own!ActiveAdmins, Own!Admin, Own!Active
<1>3. Own!RecipientsServed'
  BY <1>2 DEF Served, Own!RecipientsServed
<1>4. QED
  BY <1>1, <1>3 DEF Served

LEMMA ServedStep ==
  ASSUME Served, Own!BuiltInsNext \/ UNCHANGED <<peopleVars, ownVars>>
  PROVE  Served'
<1>1. OwnTypes
  BY DEF Served
<1>2. ASSUME UNCHANGED <<user, recipients, smtp, subs>>, up' => up
      PROVE  Served'
  BY <1>1, <1>2, OwnKeeps DEF OwnTypes
<1>3. ASSUME NEW done \in 0..Own!Complete, user' \in [Own!Users -> Own!User],
             recipients' \in BOOLEAN, Own!Sync(done), up' => done = Own!Complete
      PROVE  Served'
  BY <1>1, <1>3, OwnSync DEF Served, Own!RecipientsServed
<1>4. ASSUME NEW done \in 0..Own!Complete, Own!StartServer(done)
      PROVE  Served'
  BY <1>1, <1>3, <1>4 DEF Own!StartServer, Own!accountVars, OwnTypes, Own!Survives
<1>5. ASSUME NEW t, NEW u \in Own!Users, NEW role \in Own!Roles, NEW inserted \in BOOLEAN,
             NEW done \in 0..Own!Complete, Own!CreateUser(t, u, role, inserted, done)
      PROVE  Served'
  <2>1. user' \in [Own!Users -> Own!User]
    BY <1>1, <1>5, OwnPost DEF Own!CreateUser, OwnTypes
  <2>2. QED
    BY <1>1, <1>3, <1>5, <2>1 DEF Own!CreateUser, OwnTypes, Own!Survives
<1>6. ASSUME NEW t, NEW u \in Own!Users, Own!ChangeUser(t, u)
      PROVE  Served'
  <2>1. user' \in [Own!Users -> Own!User]
    BY <1>1, <1>6, OwnChange, Zenon DEF OwnTypes
  <2>2. Own!Sync(Own!Complete) /\ UNCHANGED recipients
    BY <1>6, Zenon DEF Own!ChangeUser, Own!SyncInTransaction
  <2>3. Own!Complete \in 0..Own!Complete
    BY DEF Own!Complete
  <2>4. QED
    BY <1>1, <1>3, <2>1, <2>2, <2>3 DEF OwnTypes
<1>7. ASSUME NEW t, NEW some \in BOOLEAN, NEW done \in 0..Own!Complete, Own!PutSmtp(t, some, done)
      PROVE  Served'
  BY <1>1, <1>3, <1>7 DEF Own!PutSmtp, Own!accountVars, OwnTypes, Own!Survives
<1>8. ASSUME NEW t, NEW id \in Own!Ids, NEW enabled \in BOOLEAN, NEW plain \in BOOLEAN,
             Own!SaveSubscription(t, id, enabled, plain)
      PROVE  Served'
  <2> DEFINE new == [subs[id] EXCEPT !.enabled = enabled, !.plain = plain, !.touched = TRUE]
  <2>1. /\ new \in Subscription /\ new.touched
        /\ new.exists = subs[id].exists /\ new.owner = subs[id].owner
    <3>1. subs[id] \in Own!Row
      BY <1>1, <1>8 DEF OwnTypes, Subscription, Own!NoRow, Own!SaveSubscription
    <3>2. QED
      BY <3>1 DEF Subscription, Own!Row
  <2>2. subs' = [subs EXCEPT ![id] = new] /\ UNCHANGED <<user, recipients, smtp, up>>
    BY <1>1, <1>8 DEF Own!SaveSubscription, OwnTypes, Own!accountVars, Own!projectVars
  <2> HIDE DEF new
  <2>3. QED
    BY <1>1, <2>1, <2>2, OwnKeeps DEF OwnTypes
<1>9. ASSUME NEW t, NEW id \in Own!Ids, Own!DeleteSubscription(t, id)
      PROVE  Served'
  <2> DEFINE new == [subs[id] EXCEPT !.enabled = FALSE, !.touched = TRUE]
  <2>1. /\ new \in Subscription /\ new.touched
        /\ new.exists = subs[id].exists /\ new.owner = subs[id].owner
    <3>1. subs[id] \in Own!Row
      BY <1>1, <1>9 DEF OwnTypes, Subscription, Own!NoRow, Own!DeleteSubscription
    <3>2. QED
      BY <3>1 DEF Subscription, Own!Row
  <2>2. subs' = [subs EXCEPT ![id] = new] /\ UNCHANGED <<user, recipients, smtp, up>>
    BY <1>1, <1>9 DEF Own!DeleteSubscription, OwnTypes, Own!accountVars, Own!projectVars
  <2> HIDE DEF new
  <2>3. QED
    BY <1>1, <2>1, <2>2, OwnKeeps DEF OwnTypes
<1>10. ASSUME NEW t, NEW p, NEW u,
              Own!AddMember(t, p, u) \/ Own!RemoveMember(t, p, u) \/ Own!JoinMarket(t)
       PROVE  Served'
  BY <1>2, <1>10, Zenon DEF Own!AddMember, Own!RemoveMember, Own!JoinMarket, Own!accountVars
<1>11. ASSUME NEW t, Own!UseAccount(t)
       PROVE  Served'
  BY <1>2, <1>11, Zenon DEF Own!UseAccount, Own!EndSession, Own!Login, Own!builtInVars
<1>12. CASE Own!Stop
  BY <1>2, <1>12, Zenon DEF Own!Stop, Own!accountVars, Own!projectVars
<1>13. CASE UNCHANGED <<peopleVars, ownVars>>
  BY <1>2, <1>13, Zenon DEF peopleVars, ownVars
<1>14. QED
  BY <1>4, <1>5, <1>6, <1>7, <1>8, <1>9, <1>10, <1>11, <1>12, <1>13, Zenon
  DEF Own!BuiltInsNext

LEMMA ServedStart ==
  ASSUME Own!BuiltInsInit
  PROVE  Served
<1>1. user \in [Own!Users -> Own!User] /\ up = FALSE /\ 1 \in Own!Users
  BY BoundsAssumption DEF Own!BuiltInsInit, Own!Init, Own!User, Own!Roles, Own!Users
<1>2. recipients \in BOOLEAN /\ smtp \in Mailing
  <2>1. \A m \in BOOLEAN : [id |-> "unset", owner |-> Own!Nobody, migrated |-> m] \in Mailing
    BY DEF Mailing
  <2>2. /\ recipients \in BOOLEAN
        /\ \E m \in BOOLEAN : smtp = [id |-> "unset", owner |-> Own!Nobody, migrated |-> m]
    BY DEF Own!BuiltInsInit, Own!NewDatabase, Own!OldDatabase
  <2>3. QED
    BY <2>1, <2>2
<1>3. Own!NoRow \in Subscription
      /\ \A plain \in BOOLEAN :
           [exists |-> TRUE, owner |-> 1, enabled |-> TRUE, plain |-> plain, touched |-> FALSE]
             \in Subscription
  BY <1>1 DEF Own!NoRow, Subscription, Own!Row
<1>4. subs \in [Own!Ids -> Subscription]
  BY <1>3 DEF Own!BuiltInsInit, Own!NewDatabase, Own!OldDatabase
<1>5. QED
  BY <1>1, <1>2, <1>4 DEF Served, OwnTypes, Own!RecipientsServed

OwnInv == Own!AccountsTypeOK /\ ProjectTypes /\ Served

LEMMA OwnStart ==
  ASSUME Own!BuiltInsInit
  PROVE  OwnInv
<1>1. Own!AccountsTypeOK
  BY BoundsAssumption
  DEF Own!BuiltInsInit, Own!Init, Own!AccountsTypeOK, Own!User, Own!Roles, Own!Users, Own!Nobody
<1>2. 1 \in Own!Users /\ 0 \in 0..MaxDeaths
  <2>1. root \in Own!Users
    BY <1>1 DEF Own!AccountsTypeOK
  <2>2. QED
    BY <2>1, BoundsAssumption DEF Own!Users
<1>3. known \subseteq BuiltInProjects /\ migrated \in BOOLEAN /\ members \subseteq known \X {1}
  BY DEF Own!BuiltInsInit, Own!NewDatabase, Own!OldDatabase
<1>4. members \subseteq BuiltInProjects \X Own!Users
  BY <1>2, <1>3
<1>5. up = FALSE /\ deaths = 0 /\ initialised = {}
      /\ left_out \subseteq BuiltInProjects \X Own!Users
  BY <1>2, <1>3 DEF Own!BuiltInsInit
<1>6. ProjectTypes
  BY <1>2, <1>3, <1>4, <1>5 DEF ProjectTypes
<1>7. QED
  BY <1>1, <1>6, ServedStart DEF OwnInv

LEMMA OwnStep ==
  ASSUME OwnInv, Own!BuiltInsNext \/ UNCHANGED <<peopleVars, ownVars>>
  PROVE  OwnInv'
BY ProjectTypesStep, OwnAccountsStep, ServedStep, Zenon DEF OwnInv

LEMMA OwnTyped ==
  ASSUME OwnInv
  PROVE  Own!BuiltInsTypeOK
BY DEF OwnInv, ProjectTypes, Served, OwnTypes, Mailing, Subscription, Own!BuiltInsTypeOK

\* While the server runs, the recipients' subscription belongs to an active
\* administrator and is enabled exactly when there are recipients, unless its owner
\* has saved it since (MCSmall!RecipientsServed; syncSmtpRecipientSubscription).
THEOREM SmallServesRecipients == MCSpec => []RecipientsServed
<1> DEFINE Inv == scene = "built-ins" => Served
<1>1. MCInit => Inv
  BY ServedStart, Zenon DEF MCInit
<1>2. Inv /\ [MCNext]_allVars => Inv'
  BY Scenes, ServedStep, Zenon
<1>3. Inv => RecipientsServed
  BY DEF Served, RecipientsServed
<1>4. QED
  BY <1>1, <1>2, <1>3, PTL DEF MCSpec, allVars

-----------------------------------------------------------------------------
(* Quiet hours: days of M minutes of P instants.                           *)

\* The quotient is what multiples of P compare with.
LEMMA Multiples ==
  ASSUME NEW P \in Nat \ {0}, NEW t \in Nat, NEW k \in Int,
         NEW m \in Nat, NEW r \in 0..(P - 1), t = m * P + r
  PROVE  k * P <= t <=> k <= m
OBVIOUS

LEMMA Quotient ==
  ASSUME NEW P \in Nat \ {0}, NEW t \in Nat, NEW k \in Int
  PROVE  t \div P \in Nat /\ (k * P <= t <=> k <= t \div P)
<1>1. PICK m, r : m = t \div P /\ r = t % P
  OBVIOUS
<1>2. m \in Nat /\ r \in 0..(P - 1) /\ t = m * P + r
  <2>1. m \in Nat /\ r \in 0..(P - 1) /\ P > 0
    BY <1>1
  <2>2. QED
    BY <1>1, <2>1
<1>3. k * P <= t <=> k <= m
  BY <1>2, Multiples
<1>4. QED
  BY <1>1, <1>2, <1>3

LEMMA QuotientPlus ==
  ASSUME NEW P \in Nat \ {0}, NEW t \in Nat, NEW k \in Nat
  PROVE  t + k * P \in Nat /\ (t + k * P) \div P = t \div P + k
<1> DEFINE m == t \div P
           u == t + k * P
           n == u \div P
<1>1. m \in Nat /\ m * P <= t /\ ~((m + 1) * P <= t)
  BY Quotient
<1>2. u \in Nat
  OBVIOUS
<1> HIDE DEF m
<1>3. (m + k) * P <= u /\ ~((m + k + 1) * P <= u)
  BY <1>1
<1> HIDE DEF u
<1>4. n \in Nat /\ m + k <= n /\ ~(m + k + 1 <= n)
  BY <1>1, <1>2, <1>3, Quotient
<1> HIDE DEF n
<1>5. n = m + k
  BY <1>1, <1>4
<1>6. QED
  BY <1>2, <1>5 DEF m, n, u

\* A minute of the clock comes in quiet periods or in none.
QuietMinute(s, e, r) ==
  s # e /\ IF s < e THEN s <= r /\ r < e ELSE s <= r \/ r < e

LEMMA DayOfMinute ==
  ASSUME NEW M \in Nat \ {0}, NEW s \in 0..(M - 1), NEW e \in 0..(M - 1),
         NEW q \in Nat, NEW r \in 0..(M - 1), NEW d \in Int, NEW l \in Nat,
         l = IF s <= e THEN e - s ELSE e - s + M,
         d * M + s <= q * M + r, q * M + r < d * M + s + l
  PROVE  QuietMinute(s, e, r)
<1>1. d <= q
  OBVIOUS
<1>2. d >= q - 1
  OBVIOUS
<1>3. CASE d = q
  BY <1>3 DEF QuietMinute
<1>4. CASE d = q - 1
  <2>1. d * M = q * M - M
    BY <1>4
  <2>2. QED
    BY <2>1 DEF QuietMinute
<1>5. QED
  BY <1>1, <1>2, <1>3, <1>4

LEMMA MinuteOfDay ==
  ASSUME NEW M \in Nat \ {0}, NEW s \in 0..(M - 1), NEW e \in 0..(M - 1),
         NEW q \in Nat, NEW r \in 0..(M - 1), NEW l \in Nat,
         l = IF s <= e THEN e - s ELSE e - s + M,
         QuietMinute(s, e, r)
  PROVE  \/ q * M + s <= q * M + r /\ q * M + r < q * M + s + l
         \/ (q - 1) * M + s <= q * M + r /\ q * M + r < (q - 1) * M + s + l
<1>1. (q - 1) * M = q * M - M
  OBVIOUS
<1>2. CASE s <= r /\ (s < e => r < e)
  BY <1>2 DEF QuietMinute
<1>3. CASE ~(s <= r /\ (s < e => r < e))
  BY <1>1, <1>3 DEF QuietMinute
<1>4. QED
  BY <1>2, <1>3

LEMMA Residue ==
  ASSUME NEW M \in Nat \ {0}, NEW x \in 0..(M - 1), NEW k \in Nat
  PROVE  (x + k * M) % M = x /\ x % M = x /\ (x + M) % M = x
<1>1. ASSUME NEW i \in Nat, NEW y, y = x + i * M
      PROVE  y % M = x
  <2>1. PICK q, r : q = y \div M /\ r = y % M
    OBVIOUS
  <2>2. y \in Nat
    BY <1>1
  <2>3. q \in Nat /\ r \in 0..(M - 1) /\ y = q * M + r
    BY <2>1, <2>2
  <2>4. y = i * M + x
    BY <1>1
  <2>5. q * M <= y /\ ~((q + 1) * M <= y)
    BY <2>3
  <2>6. q <= i /\ ~(q + 1 <= i)
    BY <2>2, <2>3, <2>4, <2>5, Multiples
  <2>7. q = i
    BY <2>3, <2>6
  <2>8. QED
    BY <2>1, <2>3, <2>4, <2>7
<1>2. x = x + 0 * M /\ x + M = x + 1 * M
  OBVIOUS
<1>3. QED
  BY <1>1, <1>2

QuietInv ==
  /\ start \in Quiet!Clock /\ end \in Quiet!Clock
  /\ now \in Nat /\ now <= 3 * MinutesPerDay * MinuteParts

\* A minute is quiet exactly if a period of these days covers it.
LEMMA PeriodsAreQuiet ==
  ASSUME QuietInv, NEW t \in Nat
  PROVE  /\ Quiet!WithinPeriods(t) => Quiet!IsQuietTime(t)
         /\ Quiet!IsQuietTime(t) /\ t \div MinuteParts < 6 * MinutesPerDay
              => Quiet!WithinPeriods(t)
<1> DEFINE M == MinutesPerDay
           P == MinuteParts
           l == Quiet!Length
<1>1. M \in Nat \ {0} /\ P \in Nat \ {0} /\ start \in 0..(M - 1) /\ end \in 0..(M - 1)
  BY BoundsAssumption DEF QuietInv, Quiet!Clock
<1>2. l \in Nat /\ l = IF start <= end THEN end - start ELSE end - start + M
  <2>1. CASE start <= end
    <3>1. end - start \in 0..(M - 1)
      BY <1>1, <2>1
    <3>2. l = end - start
      BY <1>1, <3>1, Residue DEF Quiet!Length
    <3>3. QED
      BY <2>1, <3>1, <3>2
  <2>2. CASE ~(start <= end)
    <3>1. end - start + M \in 0..(M - 1)
      BY <1>1, <2>2
    <3>2. l = end - start + M
      BY <1>1, <3>1, Residue DEF Quiet!Length
    <3>3. QED
      BY <2>2, <3>1, <3>2
  <2>3. QED
    BY <2>1, <2>2
<1>3. PICK m : m = t \div P
  OBVIOUS
<1>4. PICK q, r : q = m \div M /\ r = m % M
  OBVIOUS
<1>5. m \in Nat
  BY <1>1, <1>3
<1>6. q \in Nat /\ r \in 0..(M - 1) /\ m = q * M + r
  BY <1>1, <1>4, <1>5
<1>7. Quiet!IsQuietTime(t) <=> QuietMinute(start, end, r)
  BY <1>3, <1>4 DEF Quiet!IsQuietTime, Quiet!MinuteOf, QuietMinute
<1> HIDE DEF l
<1>8. ASSUME NEW d \in Int
      PROVE  Quiet!InPeriod(t, d) <=> d * M + start <= m /\ m < d * M + start + l
  <2> DEFINE b == d * M + start
  <2>1. b \in Int /\ b + l \in Int
    BY <1>1, <1>2
  <2>2. Quiet!InPeriod(t, d) <=> b * P <= t /\ t < b * P + l * P
    BY DEF Quiet!InPeriod, l
  <2> HIDE DEF b
  <2>3. b * P + l * P = (b + l) * P /\ (b + l) * P \in Int
    BY <1>1, <1>2, <2>1
  <2>4. (b * P <= t <=> b <= m) /\ ((b + l) * P <= t <=> b + l <= m)
    BY <1>1, <1>3, <2>1, Quotient
  <2>5. Quiet!InPeriod(t, d) <=> b <= m /\ m < b + l
    BY <1>5, <2>1, <2>2, <2>3, <2>4
  <2>6. QED
    BY <2>5 DEF b
<1> HIDE DEF M, P
<1>9. ASSUME Quiet!WithinPeriods(t)
      PROVE  Quiet!IsQuietTime(t)
  <2>1. PICK d \in -1..5 : Quiet!InPeriod(t, d)
    BY <1>9 DEF Quiet!WithinPeriods
  <2>2. d \in Int /\ d * M + start <= m /\ m < d * M + start + l
    BY <1>8, <2>1
  <2>3. QuietMinute(start, end, r)
    BY <1>1, <1>2, <1>6, <2>2, DayOfMinute
  <2>4. QED
    BY <1>7, <2>3
<1>10. ASSUME Quiet!IsQuietTime(t), m < 6 * M
       PROVE  Quiet!WithinPeriods(t)
  <2>1. PICK d \in {q - 1, q} : d * M + start <= m /\ m < d * M + start + l
    <3>1. \/ q * M + start <= q * M + r /\ q * M + r < q * M + start + l
          \/ (q - 1) * M + start <= q * M + r /\ q * M + r < (q - 1) * M + start + l
      BY <1>1, <1>2, <1>6, <1>7, <1>10, MinuteOfDay
    <3>2. QED
      BY <1>6, <3>1
  <2>2. q < 6
    BY <1>1, <1>6, <1>10
  <2>3. d \in -1..5 /\ d \in Int
    BY <1>6, <2>1, <2>2
  <2>4. QED
    BY <1>8, <2>1, <2>3 DEF Quiet!WithinPeriods
<1>11. QED
  BY <1>3, <1>9, <1>10 DEF M, P

LEMMA MinutesDecide ==
  ASSUME NEW t
  PROVE  Quiet!IsQuietTime(t)
           <=> QuietMinute(start, end, (t \div MinuteParts) % MinutesPerDay)
BY DEF Quiet!IsQuietTime, Quiet!MinuteOf, QuietMinute

\* Within a day of a quiet instant comes the minute that is loud, `end`.
LEMMA SomeLoud ==
  ASSUME QuietInv, Quiet!IsQuietTime(now)
  PROVE  \E o \in 1..MinutesPerDay : ~Quiet!IsQuietTime(now + o * MinuteParts)
<1> DEFINE M == MinutesPerDay
           P == MinuteParts
<1>1. M \in Nat \ {0} /\ P \in Nat \ {0} /\ start \in 0..(M - 1) /\ end \in 0..(M - 1) /\ now \in Nat
  BY BoundsAssumption DEF QuietInv, Quiet!Clock
<1>2. PICK m : m = now \div P
  OBVIOUS
<1>3. m \in Nat
  BY <1>1, <1>2
<1>4. PICK q, r : q = m \div M /\ r = m % M
  OBVIOUS
<1>5. q \in Nat /\ r \in 0..(M - 1) /\ m = q * M + r
  BY <1>1, <1>3, <1>4
<1>6. PICK k \in {q, q + 1}, o \in 1..M : m + o = end + k * M
  <2>1. (q + 1) * M = q * M + M /\ q * M \in Int
    BY <1>1, <1>5
  <2>2. CASE end > r
    <3>1. end - r \in 1..M /\ m + (end - r) = end + q * M
      BY <1>1, <1>5, <2>1, <2>2
    <3>2. QED
      BY <3>1
  <2>3. CASE ~(end > r)
    <3>1. end - r + M \in 1..M /\ m + (end - r + M) = end + (q + 1) * M
      BY <1>1, <1>5, <2>1, <2>3
    <3>2. QED
      BY <3>1
  <2>4. QED
    BY <2>2, <2>3
<1>7. (m + o) % M = end
  <2>1. k \in Nat
    BY <1>5
  <2>2. QED
    BY <1>1, <1>6, <2>1, Residue
<1>8. (now + o * P) \div P = m + o
  <2>1. o \in Nat
    BY <1>1
  <2>2. QED
    BY <1>1, <1>2, <2>1, QuotientPlus
<1>9. ~QuietMinute(start, end, end)
  BY <1>1 DEF QuietMinute
<1>10. ~Quiet!IsQuietTime(now + o * P)
  BY <1>7, <1>8, <1>9, MinutesDecide
<1>11. QED
  BY <1>10

\* What waits goes out in the first loud minute, and every minute before is quiet.
LEMMA AttemptsEnd ==
  ASSUME QuietInv
  PROVE  Quiet!AttemptedAsItEnds
<1> DEFINE M == MinutesPerDay
           P == MinuteParts
           at == Quiet!AttemptAt(now)
           H == (3 * M) \div 2
           loud == {c \in Quiet!Candidates(now) : ~Quiet!IsQuietTime(c)}
<1>1. M \in Nat \ {0} /\ P \in Nat \ {0} /\ now \in Nat /\ now <= 3 * M * P
  BY BoundsAssumption DEF QuietInv
<1>2. CASE ~Quiet!IsQuietTime(now)
  <2>1. at = now
    BY <1>2 DEF Quiet!AttemptAt
  <2>2. ~Quiet!WithinPeriods(now)
    BY <1>1, <1>2, PeriodsAreQuiet
  <2>3. now..(now - P) = {}
    BY <1>1
  <2>4. QED
    BY <2>1, <2>2, <2>3 DEF Quiet!AttemptedAsItEnds
<1>3. CASE Quiet!IsQuietTime(now)
  <2>1. H \in Nat /\ M <= H /\ H <= 2 * M
    <3>1. 3 * M \in Nat /\ M * 2 <= 3 * M /\ ~((2 * M + 1) * 2 <= 3 * M)
      BY <1>1
    <3>2. H \in Nat /\ M <= H /\ ~(2 * M + 1 <= H)
      BY <1>1, <3>1, Quotient
    <3>3. QED
      BY <1>1, <3>2
  <2>2. \A o \in 1..H : o \in Nat /\ now + o * P \in Nat
    BY <1>1, <2>1
  <2>3. loud = {c \in {now + o * P : o \in 1..H} : ~Quiet!IsQuietTime(c)}
    BY DEF Quiet!Candidates
  <2> HIDE DEF H, loud
  <2>4. loud \subseteq Nat /\ loud # {}
    <3>1. PICK o \in 1..M : ~Quiet!IsQuietTime(now + o * P)
      BY <1>3, SomeLoud
    <3>2. o \in 1..H
      BY <1>1, <2>1
    <3>3. now + o * P \in loud
      BY <2>3, <3>1, <3>2
    <3>4. QED
      BY <2>2, <2>3, <3>3
  <2>5. at = Quiet!Min(loud)
    BY <1>3, <2>4 DEF Quiet!AttemptAt, Quiet!NextQuietEnd, loud
  <2> HIDE DEF at
  <2>6. at \in loud /\ \A c \in loud : at <= c
    BY <2>4, <2>5, Least DEF Quiet!Min
  <2>7. PICK o \in 1..H : at = now + o * P /\ ~Quiet!IsQuietTime(at)
    BY <2>3, <2>6
  <2>8. PICK m : m = now \div P
    OBVIOUS
  <2>9. m \in Nat /\ m <= 3 * M /\ m * P <= now /\ ~((m + 1) * P <= now)
    <3>1. m \in Nat /\ m * P <= now /\ ~((m + 1) * P <= now)
      BY <1>1, <2>8, Quotient
    <3>2. ~((3 * M + 1) * P <= now)
      BY <1>1
    <3>3. ~(3 * M + 1 <= m)
      BY <1>1, <2>8, <3>2, Quotient
    <3>4. QED
      BY <1>1, <3>1, <3>3
  <2>10. ASSUME NEW t \in now..(at - P)
         PROVE  Quiet!WithinPeriods(t)
    <3>1. t \in Nat /\ now <= t /\ t <= now + o * P - P
      BY <1>1, <2>2, <2>7
    <3>2. PICK n : n = t \div P
      OBVIOUS
    <3>3. n \in Nat /\ m <= n /\ n < m + o
      <4>1. n \in Nat
        BY <1>1, <3>1, <3>2
      <4>2. m * P <= t
        BY <1>1, <2>9, <3>1
      <4>3. m <= n
        BY <1>1, <2>9, <3>1, <3>2, <4>2, Quotient
      <4>4. (m + o) * P = (m + 1) * P + (o * P - P) /\ (m + 1) * P \in Int /\ o * P \in Int
        BY <1>1, <2>1, <2>9
      <4>5. ~((m + o) * P <= t)
        BY <1>1, <2>9, <3>1, <4>4
      <4>6. ~(m + o <= n)
        BY <1>1, <2>1, <2>9, <3>1, <3>2, <4>5, Quotient
      <4>7. QED
        BY <2>1, <2>9, <4>1, <4>3, <4>6
    <3>4. PICK j \in 0..(o - 1) : n = m + j
      <4>1. n - m \in 0..(o - 1) /\ n = m + (n - m)
        BY <2>1, <2>9, <3>3
      <4>2. QED
        BY <4>1
    <3>5. Quiet!IsQuietTime(now + j * P)
      <4>1. CASE j = 0
        BY <1>1, <1>3, <4>1
      <4>2. CASE j # 0
        <5>1. j \in 1..H /\ j < o
          BY <2>1, <4>2
        <5>2. now + j * P < at
          BY <1>1, <2>1, <2>7, <5>1
        <5>3. now + j * P \notin loud
          BY <2>2, <2>4, <2>6, <5>1, <5>2
        <5>4. QED
          BY <2>3, <5>1, <5>3
      <4>3. QED
        BY <4>1, <4>2
    <3>6. (now + j * P) \div P = n
      <4>1. j \in Nat
        BY <2>1
      <4>2. QED
        BY <1>1, <2>8, <3>4, <4>1, QuotientPlus
    <3>7. Quiet!IsQuietTime(t)
      BY <3>2, <3>5, <3>6, MinutesDecide
    <3>8. n < 6 * M
      BY <1>1, <2>1, <2>9, <3>3
    <3>9. QED
      BY <3>1, <3>2, <3>7, <3>8, PeriodsAreQuiet
  <2>11. ~Quiet!WithinPeriods(at)
    BY <2>4, <2>6, <2>7, PeriodsAreQuiet
  <2>12. QED
    BY <2>10, <2>11 DEF Quiet!AttemptedAsItEnds, at
<1>4. QED
  BY <1>2, <1>3

LEMMA QuietStep ==
  ASSUME QuietInv, Quiet!Advance \/ UNCHANGED quietVars
  PROVE  QuietInv'
<1>1. CASE UNCHANGED quietVars
  BY <1>1 DEF quietVars, QuietInv, Quiet!Clock
<1>2. CASE Quiet!Advance
  <2>1. 3 * MinutesPerDay * MinuteParts \in Nat
    BY BoundsAssumption
  <2>2. QED
    BY <1>2, <2>1 DEF Quiet!Advance, QuietInv, Quiet!Clock
<1>3. QED
  BY <1>1, <1>2

\* A delivery that has to wait goes out in the first minute after the quiet period,
\* for days and minutes of any length (MCSmall!AttemptedAsItEnds; notification-logic.ts).
THEOREM SmallAttemptsAsItEnds == MCSpec => []AttemptedAsItEnds
<1>1. MCInit => QuietInv
  <2>1. MCInit => Quiet!Init \/ QuietRests
    BY Zenon DEF MCInit
  <2>2. 3 * MinutesPerDay * MinuteParts \in Nat
    BY BoundsAssumption
  <2>3. QED
    BY <2>1, <2>2, BoundsAssumption DEF Quiet!Init, QuietRests, QuietInv, Quiet!Clock
<1>2. QuietInv /\ [MCNext]_allVars => QuietInv'
  BY Scenes, QuietStep, Zenon
<1>3. QuietInv => AttemptedAsItEnds
  BY AttemptsEnd DEF AttemptedAsItEnds
<1>4. QED
  BY <1>1, <1>2, <1>3, PTL DEF MCSpec, allVars

-----------------------------------------------------------------------------
(* Probes.                                                                 *)

Reads == response.reads
Total == Len(Reads)

\* c[i] is what the first i reads rs amount to.
IsBodyOf(c, rs) ==
  /\ c \in [0..Len(rs) -> Seq(Probe!Fragment)]
  /\ c[0] = <<>> /\ \A i \in 1..Len(rs) : c[i] = c[i - 1] \o rs[i]

BodyOf(rs) == CHOOSE c : IsBodyOf(c, rs)

Body == BodyOf(Reads)

IsBody(c) ==
  /\ c \in [0..Total -> Seq(Probe!Fragment)]
  /\ c[0] = <<>> /\ \A i \in 1..Total : c[i] = c[i - 1] \o Reads[i]

\* There is one: otherwise take the shortest prefix that has none.
LEMMA BodyExists ==
  ASSUME response \in Probe!Response
  PROVE  IsBody(Body)
<1> DEFINE Step(c, n) == /\ c \in [0..n -> Seq(Probe!Fragment)]
                         /\ c[0] = <<>> /\ \A i \in 1..n : c[i] = c[i - 1] \o Reads[i]
           Missing == {n \in 0..Total : ~\E c : Step(c, n)}
<1>1. Reads \in Seq(Seq(Probe!Fragment))
  BY DEF Probe!Response, Reads
<1>2. Total \in Nat /\ \A i \in 1..Total : Reads[i] \in Seq(Probe!Fragment)
  BY <1>1 DEF Total
<1>3. ASSUME NEW n \in Missing
      PROVE  n # 0 /\ n - 1 \in Missing
  <2>1. n # 0
    <3>1. Step([i \in 0..0 |-> <<>>], 0)
      OBVIOUS
    <3>2. QED
      BY <1>3, <3>1
  <2>2. n \in 1..Total /\ n - 1 \in 0..Total
    BY <1>2, <1>3, <2>1
  <2>3. ASSUME NEW c, Step(c, n - 1)
        PROVE  FALSE
    <3> DEFINE d == [i \in 0..n |-> IF i = n THEN c[n - 1] \o Reads[n] ELSE c[i]]
    <3>1. c[n - 1] \in Seq(Probe!Fragment) /\ Reads[n] \in Seq(Probe!Fragment)
      BY <1>2, <2>2, <2>3
    <3>2. c[n - 1] \o Reads[n] \in Seq(Probe!Fragment)
      BY <3>1
    <3>3. \A i \in 0..n : i # n => i \in 0..(n - 1)
      BY <2>2
    <3>4. d \in [0..n -> Seq(Probe!Fragment)]
      BY <2>3, <3>2, <3>3
    <3>5. d[0] = <<>>
      BY <2>2, <2>3
    <3>6. \A i \in 1..n : d[i] = d[i - 1] \o Reads[i]
      <4> SUFFICES ASSUME NEW i \in 1..n
                   PROVE  d[i] = d[i - 1] \o Reads[i]
        OBVIOUS
      <4>1. i \in 0..n /\ i - 1 \in 0..n /\ i - 1 # n
        BY <2>2
      <4>2. d[i - 1] = c[i - 1]
        BY <4>1
      <4>3. CASE i = n
        BY <4>1, <4>2, <4>3
      <4>4. CASE i # n
        <5>1. i \in 1..(n - 1) /\ d[i] = c[i]
          BY <2>2, <4>1, <4>4
        <5>2. QED
          BY <2>3, <4>2, <5>1
      <4>5. QED
        BY <4>3, <4>4
    <3>7. Step(d, n)
      BY <3>4, <3>5, <3>6
    <3>8. QED
      BY <1>3, <3>7
  <2>4. QED
    BY <2>1, <2>2, <2>3
<1> HIDE DEF Step, Missing
<1>4. Missing \subseteq Nat
  <2>1. 0..Total \subseteq Nat
    BY <1>2
  <2>2. QED
    BY <2>1, Zenon DEF Missing
<1>5. Missing = {}
  <2> SUFFICES ASSUME Missing # {} PROVE FALSE
    OBVIOUS
  <2>1. PICK n \in Missing : \A k \in Missing : n <= k
    BY <1>4, Least
  <2>2. n - 1 \in Missing /\ n \in Nat
    BY <1>3, <1>4
  <2>3. QED
    BY <2>1, <2>2
<1>6. \E c : Step(c, Total)
  <2>1. Total \in 0..Total
    BY <1>2
  <2>2. QED
    BY <1>5, <2>1, Zenon DEF Missing
<1>7. QED
  <2>1. \E c : IsBodyOf(c, Reads)
    BY <1>6, Zenon DEF Step, IsBodyOf, Total
  <2>2. IsBodyOf(Body, Reads)
    BY <2>1, Zenon DEF BodyOf, Body
  <2>3. QED
    BY <2>2, Zenon DEF IsBodyOf, IsBody, Total

LEMMA BodyGrows ==
  ASSUME response \in Probe!Response
  PROVE  /\ Total \in Nat /\ \A i \in 0..Total : Len(Body[i]) \in Nat
         /\ Len(Body[0]) = 0
         /\ \A i \in 1..Total :
              Len(Reads[i]) \in Nat /\ Len(Body[i]) = Len(Body[i - 1]) + Len(Reads[i])
<1>1. Total \in Nat /\ \A k \in 1..Total : Reads[k] \in Seq(Probe!Fragment)
  BY DEF Probe!Response, Reads, Total
<1>2. Len(Body[0]) = 0 /\ \A i \in 0..Total : Len(Body[i]) \in Nat
  BY BodyExists DEF IsBody
<1>3. ASSUME NEW i \in 1..Total
      PROVE  Len(Reads[i]) \in Nat /\ Len(Body[i]) = Len(Body[i - 1]) + Len(Reads[i])
  <2>1. i - 1 \in 0..Total
    BY <1>1
  <2>2. Body[i - 1] \in Seq(Probe!Fragment) /\ Body[i] = Body[i - 1] \o Reads[i]
    BY <2>1, BodyExists DEF IsBody
  <2>3. QED
    BY <1>1, <2>2
<1>4. QED
  BY <1>1, <1>2, <1>3

\* A prefix is no longer than the body.
LEMMA PrefixShorter ==
  ASSUME response \in Probe!Response, NEW i \in 0..Total
  PROVE  Len(Body[i]) \in Nat /\ Len(Body[i]) <= Len(Body[Total]) /\ Len(Body[Total]) \in Nat
<1> DEFINE Size(k) == Len(Body[k])
           Longer == {n \in 0..Total : ~(Size(Total - n) <= Size(Total))}
<1>1. /\ Total \in Nat /\ \A k \in 0..Total : Size(k) \in Nat
      /\ \A k \in 1..Total : Len(Reads[k]) \in Nat /\ Size(k) = Size(k - 1) + Len(Reads[k])
  BY BodyGrows
<1> HIDE DEF Size
<1>2. \A k \in 1..Total : Size(k - 1) <= Size(k)
  BY <1>1
<1>3. ASSUME NEW n \in Longer
      PROVE  n - 1 \in Longer
  <2>1. n # 0
    BY <1>1, <1>3
  <2>2. PICK k \in 1..Total : k = Total - n + 1
    BY <1>1, <1>3, <2>1
  <2>3. /\ Total - n = k - 1 /\ Total - (n - 1) = k /\ n - 1 \in 0..Total
        /\ k \in 0..Total /\ k - 1 \in 0..Total
    BY <1>1, <1>3, <2>1, <2>2
  <2>4. ~(Size(k - 1) <= Size(Total))
    BY <1>3, <2>3
  <2>5. ~(Size(k) <= Size(Total))
    BY <1>1, <1>2, <2>3, <2>4
  <2>6. QED
    BY <2>3, <2>5
<1>4. Longer \subseteq Nat
  BY <1>1
<1> HIDE DEF Longer
<1>5. Longer = {}
  <2> SUFFICES ASSUME Longer # {} PROVE FALSE
    OBVIOUS
  <2>1. PICK n \in Longer : \A k \in Longer : n <= k
    BY <1>4, Least
  <2>2. n - 1 \in Longer /\ n \in Nat
    BY <1>3, <1>4
  <2>3. QED
    BY <2>1, <2>2
<1>6. Total - i \in 0..Total /\ Total - (Total - i) = i
  BY <1>1
<1>7. Size(i) <= Size(Total)
  BY <1>5, <1>6 DEF Longer
<1>8. QED
  BY <1>1, <1>7 DEF Size

\* And its length is the sum of those of the reads.
LEMMA LengthOfBody ==
  ASSUME response \in Probe!Response
  PROVE  Probe!Length = Len(Body[Total])
<1> DEFINE f[i \in 0..Len(response.reads)] ==
             IF i = 0 THEN 0 ELSE f[i - 1] + Len(response.reads[i])
           g == [i \in 0..Len(response.reads) |-> Len(Body[i])]
           Wrong == {i \in 0..Total : f[i] # Len(Body[i])}
<1>1. Total \in Nat /\ Reads = response.reads /\ Total = Len(response.reads)
  BY BodyGrows DEF Reads, Total
<1>2. /\ Len(Body[0]) = 0
      /\ \A i \in 1..Total : Len(Body[i]) = Len(Body[i - 1]) + Len(Reads[i])
  BY BodyGrows
<1>3. g = [i \in 0..Len(response.reads) |->
             IF i = 0 THEN 0 ELSE g[i - 1] + Len(response.reads[i])]
  <2> SUFFICES ASSUME NEW i \in 0..Len(response.reads)
               PROVE  g[i] = IF i = 0 THEN 0 ELSE g[i - 1] + Len(response.reads[i])
    BY Zenon
  <2>1. CASE i = 0
    BY <1>2, <2>1
  <2>2. CASE i # 0
    <3>1. i \in 1..Total /\ i - 1 \in 0..Total
      BY <1>1, <2>2
    <3>2. QED
      BY <1>1, <1>2, <2>2, <3>1
  <2>3. QED
    BY <2>1, <2>2
<1> HIDE DEF g
<1>4. f = [i \in 0..Len(response.reads) |->
             IF i = 0 THEN 0 ELSE f[i - 1] + Len(response.reads[i])]
  BY <1>3
<1>5. Probe!Length = f[Total]
  BY <1>1, Zenon DEF Probe!Length
<1> HIDE DEF f
<1>6. f[0] = 0 /\ \A i \in 1..Total : f[i] = f[i - 1] + Len(Reads[i])
  BY <1>1, <1>4
<1>7. ASSUME NEW n \in Wrong
      PROVE  n - 1 \in Wrong
  <2>1. n # 0
    BY <1>2, <1>6
  <2>2. n \in 1..Total /\ n - 1 \in 0..Total
    BY <1>1, <2>1
  <2>3. QED
    BY <1>2, <1>6, <2>2
<1>8. Wrong \subseteq Nat
  BY <1>1
<1>9. Wrong = {}
  <2> SUFFICES ASSUME Wrong # {} PROVE FALSE
    OBVIOUS
  <2> HIDE DEF Wrong
  <2>1. PICK n \in Wrong : \A k \in Wrong : n <= k
    BY <1>8, Least
  <2>2. n - 1 \in Wrong /\ n \in Nat
    BY <1>7, <1>8
  <2>3. QED
    BY <2>1, <2>2
<1>10. Total \in 0..Total
  BY <1>1
<1>11. QED
  BY <1>5, <1>9, <1>10

-----------------------------------------------------------------------------
(* The verdicts of server and agent.                                       *)

Watcher ==
  [step : {"reading", "balance", "done"}, pos : Nat, payload : Seq(Probe!Fragment),
   success : BOOLEAN, error : BOOLEAN]

\* What an observer finds in the end, as a function of the response alone.
StreamVerdict(limit) ==
  /\ response.status = "expected" /\ response.ending = "eof"
  /\ Len(Body[Total]) <= limit /\ Probe!Valid(Body[Total])

ServerVerdict ==
  IF response.kind = "ai" THEN StreamVerdict(ServerLimit)
  ELSE response.status = "expected" /\ (response.kind = "head" \/ response.ending = "eof")

AgentVerdict ==
  IF response.kind = "ai" THEN StreamVerdict(AgentLimit)
  ELSE /\ response.status = "expected"
       /\ response.kind = "head" \/ response.ending = "eof" \/ Len(Body[Total]) >= BodyLimit

\* Who reads has the prefix he has read, and goes on if it is short enough.
Watches(o, limit) ==
  /\ o \in Watcher /\ o.pos \in 0..Total /\ o.payload = Body[o.pos]
  /\ o.step = "reading" => Len(Body[o.pos]) <= limit

ProbeInv ==
  /\ response \in Probe!Response /\ Total <= MaxReads
  /\ Watches(server, ServerLimit) /\ Watches(agent, AgentLimit)
  /\ server.step # "reading" => (server.success <=> ServerVerdict)
  /\ agent.step # "reading" => (agent.success <=> AgentVerdict)

LEMMA ReadOn ==
  ASSUME response \in Probe!Response, NEW limit \in Nat, NEW o, Watches(o, limit),
         o.step = "reading", Probe!HasMore(o)
  PROVE  LET n == Probe!NextRead(o)
         IN /\ n \in Watcher /\ n.pos \in 0..Total /\ n.step = "reading"
            /\ n.payload = Body[n.pos]
            /\ Len(n.payload) > limit => ~StreamVerdict(limit)
<1> DEFINE n == Probe!NextRead(o)
<1>1. o \in Watcher /\ o.pos \in 0..Total /\ o.payload = Body[o.pos]
  BY DEF Watches
<1>2. Total \in Nat
  BY BodyGrows
<1>3. PICK k \in 1..Total : k = o.pos + 1
  BY <1>1, <1>2 DEF Probe!HasMore, Total, Reads
<1>4. k \in 0..Total /\ k \in Nat /\ k - 1 = o.pos
  BY <1>1, <1>2, <1>3
<1>5. PICK body : body = Body[k] /\ body \in Seq(Probe!Fragment) /\ body = Body[o.pos] \o Reads[k]
  <2>1. Body[k] = Body[k - 1] \o Reads[k]
    BY BodyExists DEF IsBody
  <2>2. Body[k] \in Seq(Probe!Fragment)
    BY <1>4, BodyExists, Zenon DEF IsBody
  <2>3. QED
    BY <1>4, <2>1, <2>2
<1>6. n = [o EXCEPT !.pos = k, !.payload = body]
  BY <1>1, <1>3, <1>5, Zenon DEF Probe!NextRead, Reads
<1>7. n \in Watcher /\ n.pos = k /\ n.payload = body /\ n.step = "reading"
  <2> HIDE DEF n
  <2>1. QED
    BY <1>1, <1>4, <1>5, <1>6 DEF Watcher
<1> HIDE DEF n
<1>8. Len(n.payload) > limit => ~StreamVerdict(limit)
  <2>1. Len(body) \in Nat /\ Len(body) <= Len(Body[Total]) /\ Len(Body[Total]) \in Nat
    BY <1>4, <1>5, PrefixShorter
  <2>2. QED
    BY <1>7, <2>1 DEF StreamVerdict
<1>9. QED
  BY <1>4, <1>5, <1>7, <1>8 DEF n

LEMMA ProbeRigid ==
  ASSUME UNCHANGED response
  PROVE  Body' = Body /\ Total' = Total
BY DEF Body, Total, Reads

\* One read of a stream, or its end: o becomes p.
ReadsOne(o, p, limit) ==
  \/ response.status # "expected" /\ p = Probe!Failed(o)
  \/ /\ Probe!HasMore(o) /\ Len(Probe!NextRead(o).payload) > limit
     /\ p = Probe!Failed(Probe!NextRead(o))
  \/ /\ Probe!HasMore(o) /\ ~(Len(Probe!NextRead(o).payload) > limit)
     /\ p = Probe!NextRead(o)
  \/ /\ response.status = "expected" /\ ~Probe!HasMore(o)
     /\ p \in Watcher /\ p.step # "reading" /\ p.pos = o.pos /\ p.payload = o.payload
     /\ p.success <=> response.ending = "eof" /\ Probe!Valid(o.payload)

LEMMA GivesUp ==
  ASSUME NEW o, o \in Watcher, o.pos \in 0..Total, o.payload = Body[o.pos], NEW limit
  PROVE  /\ Watches(Probe!Failed(o), limit)
         /\ Probe!Failed(o).step # "reading" /\ ~Probe!Failed(o).success
BY DEF Watches, Watcher, Probe!Failed

LEMMA StreamStep ==
  ASSUME response \in Probe!Response, NEW limit \in Nat, NEW o, Watches(o, limit),
         o.step = "reading", NEW p, ReadsOne(o, p, limit)
  PROVE  Watches(p, limit) /\ (p.step # "reading" => (p.success <=> StreamVerdict(limit)))
<1>1. o \in Watcher /\ o.pos \in 0..Total /\ o.payload = Body[o.pos] /\ Len(Body[o.pos]) <= limit
  BY DEF Watches
<1>2. CASE response.status # "expected" /\ p = Probe!Failed(o)
  BY <1>1, <1>2, GivesUp DEF StreamVerdict
<1>3. CASE Probe!HasMore(o) /\ Len(Probe!NextRead(o).payload) > limit
           /\ p = Probe!Failed(Probe!NextRead(o))
  <2>1. /\ Probe!NextRead(o) \in Watcher /\ Probe!NextRead(o).pos \in 0..Total
        /\ Probe!NextRead(o).payload = Body[Probe!NextRead(o).pos]
        /\ ~StreamVerdict(limit)
    BY <1>3, ReadOn
  <2>2. QED
    BY <1>3, <2>1, GivesUp
<1>4. CASE Probe!HasMore(o) /\ ~(Len(Probe!NextRead(o).payload) > limit)
           /\ p = Probe!NextRead(o)
  <2>1. p \in Watcher /\ p.pos \in 0..Total /\ p.step = "reading" /\ p.payload = Body[p.pos]
    BY <1>4, ReadOn
  <2>2. Len(p.payload) \in Nat
    BY <2>1 DEF Watcher
  <2>3. Len(p.payload) <= limit
    BY <1>4, <2>2
  <2>4. QED
    BY <2>1, <2>3 DEF Watches
<1>5. CASE /\ response.status = "expected" /\ ~Probe!HasMore(o)
           /\ p \in Watcher /\ p.step # "reading" /\ p.pos = o.pos /\ p.payload = o.payload
           /\ p.success <=> response.ending = "eof" /\ Probe!Valid(o.payload)
  <2>1. o.pos = Total
    BY <1>1, <1>5, BodyGrows DEF Probe!HasMore, Total, Reads
  <2>2. o.payload = Body[Total] /\ Len(Body[Total]) <= limit
    BY <1>1, <2>1
  <2>3. p.success <=> StreamVerdict(limit)
    BY <1>5, <2>2, Zenon DEF StreamVerdict
  <2>4. QED
    BY <1>1, <1>5, <2>3 DEF Watches
<1>6. QED
  BY <1>2, <1>3, <1>4, <1>5, Zenon DEF ReadsOne

LEMMA ServerReads ==
  ASSUME ProbeInv, Probe!RunAiCheck
  PROVE  ReadsOne(server, server', ServerLimit) /\ server.step = "reading"
<1>1. server \in Watcher
  BY DEF ProbeInv, Watches
<1>2. CASE response.status # "expected"
  BY <1>2 DEF Probe!RunAiCheck, ReadsOne
<1>3. CASE response.status = "expected" /\ Probe!HasMore(server)
  BY <1>3 DEF Probe!RunAiCheck, ReadsOne
<1>4. CASE response.status = "expected" /\ ~Probe!HasMore(server) /\ response.ending = "eof"
  <2>1. PICK valid \in BOOLEAN : valid <=> Probe!Valid(server.payload)
    OBVIOUS
  <2>2. server' = [server EXCEPT !.step = "balance", !.success = valid, !.error = ~valid]
    BY <1>4, <2>1 DEF Probe!RunAiCheck, Probe!Answered, Probe!ServerValid, Probe!Valid
  <2>3. /\ server' \in Watcher /\ server'.step # "reading" /\ server'.pos = server.pos
        /\ server'.payload = server.payload
        /\ server'.success = valid
    BY <1>1, <2>2 DEF Watcher
  <2>4. QED
    BY <1>4, <2>1, <2>3 DEF ReadsOne, Probe!RunAiCheck
<1>5. CASE response.status = "expected" /\ ~Probe!HasMore(server) /\ response.ending # "eof"
  <2>1. server' = Probe!Failed(server)
    BY <1>5 DEF Probe!RunAiCheck
  <2>2. /\ server' \in Watcher /\ server'.step # "reading" /\ server'.pos = server.pos
        /\ server'.payload = server.payload
        /\ ~server'.success
    BY <1>1, <2>1 DEF Watcher, Probe!Failed
  <2>3. QED
    BY <1>5, <2>2 DEF ReadsOne, Probe!RunAiCheck
<1>6. QED
  BY <1>2, <1>3, <1>4, <1>5 DEF Probe!RunAiCheck

LEMMA AgentReads ==
  ASSUME ProbeInv, Probe!ProbeAI
  PROVE  ReadsOne(agent, agent', AgentLimit) /\ agent.step = "reading"
<1>1. agent \in Watcher
  BY DEF ProbeInv, Watches
<1>2. CASE response.status # "expected"
  BY <1>2 DEF Probe!ProbeAI, ReadsOne
<1>3. CASE response.status = "expected" /\ Probe!HasMore(agent)
  BY <1>3 DEF Probe!ProbeAI, ReadsOne
<1>4. CASE response.status = "expected" /\ ~Probe!HasMore(agent)
  <2>1. PICK success \in BOOLEAN :
          success <=> response.ending = "eof" /\ Probe!Valid(agent.payload)
    OBVIOUS
  <2>2. agent' = [agent EXCEPT !.step = "done", !.success = success, !.error = ~success]
    BY <1>4, <2>1 DEF Probe!ProbeAI
  <2>3. /\ agent' \in Watcher /\ agent'.step # "reading" /\ agent'.pos = agent.pos
        /\ agent'.payload = agent.payload
        /\ agent'.success = success
    BY <1>1, <2>2 DEF Watcher
  <2>4. QED
    BY <1>4, <2>1, <2>3 DEF ReadsOne, Probe!ProbeAI
<1>5. QED
  BY <1>2, <1>3, <1>4 DEF Probe!ProbeAI

LEMMA ProbeStep ==
  ASSUME BoundsAssumption, ProbeInv, Probe!Next \/ UNCHANGED probeVars
  PROVE  ProbeInv'
<1>1. response' = response /\ ServerLimit \in Nat /\ AgentLimit \in Nat
  BY DEF BoundsAssumption, Probe!Next, Probe!RunAiCheck, Probe!RunBalanceCheck,
         Probe!RunEndpointCheck, Probe!ProbeAI, Probe!ProbeEndpoint, probeVars
<1>2. Body' = Body /\ Total' = Total
  BY <1>1, ProbeRigid
<1>3. /\ response \in Probe!Response /\ Total \in Nat
      /\ Watches(server, ServerLimit) /\ Watches(agent, AgentLimit)
  BY BodyGrows DEF ProbeInv
<1>4. CASE Probe!RunAiCheck
  <2>1. /\ Watches(server', ServerLimit)
        /\ server'.step # "reading" => (server'.success <=> StreamVerdict(ServerLimit))
    BY <1>1, <1>3, <1>4, ServerReads, StreamStep, Zenon
  <2>2. agent' = agent /\ response.kind = "ai"
    BY <1>4 DEF Probe!RunAiCheck
  <2>3. QED
    BY <1>1, <1>2, <1>3, <2>1, <2>2
       DEF ProbeInv, Watches, ServerVerdict, AgentVerdict, StreamVerdict
<1>5. CASE Probe!ProbeAI
  <2>1. /\ Watches(agent', AgentLimit)
        /\ agent'.step # "reading" => (agent'.success <=> StreamVerdict(AgentLimit))
    BY <1>1, <1>3, <1>5, AgentReads, StreamStep, Zenon
  <2>2. server' = server /\ response.kind = "ai"
    BY <1>5 DEF Probe!ProbeAI
  <2>3. QED
    BY <1>1, <1>2, <1>3, <2>1, <2>2
       DEF ProbeInv, Watches, ServerVerdict, AgentVerdict, StreamVerdict
<1>6. CASE Probe!RunBalanceCheck
  <2>1. PICK thrown \in BOOLEAN :
          server' = [server EXCEPT !.step = "done", !.error = @ \/ thrown]
    BY <1>6 DEF Probe!RunBalanceCheck
  <2>2. /\ server' \in Watcher /\ server'.step # "reading" /\ server'.pos = server.pos
        /\ server'.payload = server.payload
        /\ server'.success = server.success /\ server.step # "reading" /\ agent' = agent
    BY <1>3, <1>6, <2>1 DEF Watcher, Watches, Probe!RunBalanceCheck
  <2>3. QED
    BY <1>1, <1>2, <1>3, <2>2
       DEF ProbeInv, Watches, ServerVerdict, AgentVerdict, StreamVerdict
<1>7. CASE Probe!RunEndpointCheck
  <2>1. PICK success \in BOOLEAN : success <=> ServerVerdict
    OBVIOUS
  <2>2. response.kind # "ai" /\ server.step = "reading" /\ agent' = agent
    BY <1>7 DEF Probe!RunEndpointCheck
  <2>3. server' = [server EXCEPT !.step = "done", !.success = success, !.error = ~success]
    BY <1>7, <2>1, <2>2 DEF Probe!RunEndpointCheck, ServerVerdict
  <2>4. /\ server' \in Watcher /\ server'.step # "reading" /\ server'.pos = server.pos
        /\ server'.payload = server.payload
        /\ server'.success = success
    BY <1>3, <2>3 DEF Watcher, Watches
  <2>5. QED
    BY <1>1, <1>2, <1>3, <2>1, <2>2, <2>4
       DEF ProbeInv, Watches, ServerVerdict, AgentVerdict, StreamVerdict
<1>8. CASE Probe!ProbeEndpoint
  <2>1. PICK success \in BOOLEAN : success <=> AgentVerdict
    OBVIOUS
  <2>2. response.kind # "ai" /\ agent.step = "reading" /\ server' = server
    BY <1>8 DEF Probe!ProbeEndpoint
  <2>3. agent' = [agent EXCEPT !.step = "done", !.success = success, !.error = ~success]
    BY <1>3, <1>8, <2>1, <2>2, LengthOfBody DEF Probe!ProbeEndpoint, AgentVerdict
  <2>4. /\ agent' \in Watcher /\ agent'.step # "reading" /\ agent'.pos = agent.pos
        /\ agent'.payload = agent.payload
        /\ agent'.success = success
    BY <1>3, <2>3 DEF Watcher, Watches
  <2>5. QED
    BY <1>1, <1>2, <1>3, <2>1, <2>2, <2>4
       DEF ProbeInv, Watches, ServerVerdict, AgentVerdict, StreamVerdict
<1>9. CASE UNCHANGED probeVars
  BY <1>1, <1>2, <1>9
     DEF ProbeInv, Watches, ServerVerdict, AgentVerdict, StreamVerdict, probeVars
<1>10. QED
  BY <1>4, <1>5, <1>6, <1>7, <1>8, <1>9, Zenon DEF Probe!Next

LEMMA CutsAreSequences ==
  \A rs \in Probe!Cuts : rs \in Seq(Seq(Probe!Fragment)) /\ Len(rs) <= MaxReads
<1>1. Probe!Read \subseteq Seq(Probe!Fragment)
  <2> SUFFICES ASSUME NEW k \in 1..MaxRead, NEW r \in [1..k -> Probe!Fragment]
               PROVE  r \in Seq(Probe!Fragment)
    BY DEF Probe!Read
  <2>1. k \in Nat
    BY BoundsAssumption
  <2>2. QED
    BY <2>1, SeqDef
<1>2. SUFFICES ASSUME NEW k \in 0..MaxReads, NEW rs \in [1..k -> Probe!Read]
               PROVE  rs \in Seq(Seq(Probe!Fragment)) /\ Len(rs) <= MaxReads
  BY DEF Probe!Cuts
<1>3. k \in Nat /\ k <= MaxReads
  BY BoundsAssumption
<1>4. rs \in [1..k -> Seq(Probe!Fragment)]
  BY <1>1, Zenon
<1>5. rs \in Seq(Seq(Probe!Fragment))
  BY <1>3, <1>4, SeqDef
<1>6. Len(rs) = k
  BY <1>3, <1>4, <1>5, LenProperties
<1>7. QED
  BY <1>3, <1>5, <1>6

LEMMA ProbeStart ==
  ASSUME Probe!Init \/ ProbeRests
  PROVE  ProbeInv
<1>1. PICK none : none = <<>> /\ none \in Seq(Probe!Fragment)
  <2>1. <<>> \in Seq(Probe!Fragment)
    OBVIOUS
  <2>2. QED
    BY <2>1, Zenon
<1>2. /\ server = [step |-> "reading", pos |-> 0, payload |-> none, success |-> FALSE, error |-> FALSE]
      /\ agent = server
  BY <1>1 DEF Probe!Init, ProbeRests, Probe!Start
<1>3. /\ server.step = "reading" /\ server \in Watcher /\ server.pos = 0
      /\ server.payload = <<>> /\ agent \in Watcher
  BY <1>1, <1>2 DEF Watcher
<1>4. PICK reads \in Seq(Seq(Probe!Fragment)), kind \in {"ai", "endpoint", "head"},
           status \in {"expected", "refused", "unreachable"}, ending \in Probe!Ending :
        /\ response = [kind |-> kind, status |-> status, reads |-> reads, ending |-> ending]
        /\ Len(reads) <= MaxReads
  <2>1. <<>> \in Seq(Seq(Probe!Fragment)) /\ "eof" \in Probe!Ending /\ Len(<<>>) <= MaxReads
    BY BoundsAssumption DEF Probe!Ending
  <2>2. CASE Probe!Init
    BY <2>1, <2>2, CutsAreSequences DEF Probe!Init
  <2>3. CASE ProbeRests
    BY <2>1, <2>3 DEF ProbeRests
  <2>4. QED
    BY <2>2, <2>3
<1>5. response \in Probe!Response /\ Total <= MaxReads
  BY <1>4 DEF Probe!Response, Total, Reads
<1>6. Body[0] = <<>> /\ Total \in Nat /\ Len(Body[0]) = 0
  BY <1>5, BodyExists, BodyGrows DEF IsBody
<1>7. QED
  BY <1>2, <1>3, <1>5, <1>6, BoundsAssumption DEF ProbeInv, Watches

LEMMA ProbeTypes ==
  ASSUME ProbeInv
  PROVE  Probe!TypeOK
<1>1. response \in Probe!Response /\ Total \in Nat /\ Total <= MaxReads
  BY BodyGrows DEF ProbeInv
<1>2. ASSUME NEW o, NEW limit, Watches(o, limit)
      PROVE  o \in Probe!Observer /\ Len(o.payload) <= Probe!Length
  <2>1. o \in Watcher /\ o.pos \in 0..Total /\ o.payload = Body[o.pos]
    BY <1>2 DEF Watches
  <2>2. Len(o.payload) <= Probe!Length
    BY <1>1, <2>1, PrefixShorter, LengthOfBody
  <2>3. o.pos \in 0..MaxReads
    BY <1>1, <2>1, BoundsAssumption
  <2>4. QED
    BY <2>1, <2>2, <2>3 DEF Watcher, Probe!Observer
<1>3. QED
  BY <1>1, <1>2 DEF ProbeInv, Probe!TypeOK

\* Server and agent judge alike, for streams and reads of any length and any
\* limits in the order they have (MCSmall!VerdictsAgree; probes.ts and main.go).
THEOREM SmallVerdictsAgree == MCSpec => []VerdictsAgree
<1>1. MCInit => ProbeInv
  <2>1. MCInit => Probe!Init \/ ProbeRests
    BY Zenon DEF MCInit
  <2>2. QED
    BY <2>1, ProbeStart
<1>2. ProbeInv /\ [MCNext]_allVars => ProbeInv'
  BY Scenes, ProbeStep, BoundsAssumption, Zenon
<1>3. ProbeInv => VerdictsAgree
  <2> SUFFICES ASSUME ProbeInv, Probe!Done,
                      response.kind = "ai" =>
                        Len(Body[Total]) <= ServerLimit \/ Len(Body[Total]) > AgentLimit,
                      response.kind = "endpoint" => Len(Body[Total]) < BodyLimit
               PROVE  server.success = agent.success
    BY LengthOfBody DEF VerdictsAgree, Probe!VerdictsAgree, ProbeInv
  <2>1. response \in Probe!Response /\ server.success \in BOOLEAN /\ agent.success \in BOOLEAN
    BY DEF ProbeInv, Watches, Watcher
  <2>2. Total \in Nat /\ Len(Body[Total]) \in Nat
    BY <2>1, BodyGrows
  <2>3. (server.success <=> ServerVerdict) /\ (agent.success <=> AgentVerdict)
    BY DEF ProbeInv, Probe!Done
  <2>4. ServerVerdict <=> AgentVerdict
    BY <2>1, <2>2, BoundsAssumption
       DEF ServerVerdict, AgentVerdict, StreamVerdict, Probe!Response
  <2>5. QED
    BY <2>1, <2>3, <2>4
<1>4. QED
  BY <1>1, <1>2, <1>3, PTL DEF MCSpec, allVars

-----------------------------------------------------------------------------
(* The types of all parts.                                                 *)

TypesInv ==
  /\ IInv /\ ProbeInv /\ KeptInv /\ KeptLinked /\ ApiInv /\ ApiTyped
  /\ scene = "accounts" => PeopleInv
  /\ scene = "built-ins" => OwnInv

\* Every part keeps its types; a row of an incident names an event that is there
\* (the foreign key of db.ts), idempotency keys are unique, no observer has read more
\* than the response (MCSmall!TypesOK).
THEOREM SmallTypes == MCSpec => []TypesOK
<1>1. MCInit => TypesInv
  <2> SUFFICES ASSUME MCInit PROVE TypesInv
    OBVIOUS
  <2>1. IInv
    BY InitInv, Zenon DEF MCInit
  <2>2. ProbeInv
    BY ProbeStart, Zenon DEF MCInit
  <2>3. KeptInv /\ KeptLinked
    BY KeptStart, LinkedStart, Zenon DEF MCInit, KeptRests
  <2>4. ApiInv /\ ApiTyped
    BY ApiStart, TypedStart, Zenon DEF MCInit, ApiRests
  <2>5. scene = "accounts" => PeopleInv
    BY PeopleStart, Zenon DEF MCInit
  <2>6. scene = "built-ins" => OwnInv
    BY OwnStart, Zenon DEF MCInit
  <2>7. QED
    BY <2>1, <2>2, <2>3, <2>4, <2>5, <2>6 DEF TypesInv
<1>2. TypesInv /\ [MCNext]_allVars => TypesInv'
  <2> SUFFICES ASSUME TypesInv, [MCNext]_allVars PROVE TypesInv'
    OBVIOUS
  <2>1. IInv' /\ ProbeInv'
    BY Scenes, NextInv, ProbeStep, BoundsAssumption, Zenon DEF TypesInv
  <2>2. KeptInv' /\ KeptLinked'
    BY Scenes, KeptStep, LinkedStep, Zenon DEF TypesInv
  <2>3. ApiInv' /\ ApiTyped'
    BY Scenes, ApiStep, TypedStep, Zenon DEF TypesInv
  <2>4. scene' = "accounts" => PeopleInv'
    BY Scenes, PeopleStep, Zenon DEF TypesInv
  <2>5. scene' = "built-ins" => OwnInv'
    BY Scenes, OwnStep, Zenon DEF TypesInv
  <2>6. QED
    BY <2>1, <2>2, <2>3, <2>4, <2>5 DEF TypesInv
<1>3. TypesInv => TypesOK
  <2> SUFFICES ASSUME TypesInv PROVE TypesOK
    OBVIOUS
  <2>1. TypeOK
    BY DEF TypesInv, IInv
  <2>2. Kept!RetentionTypeOK
    BY DEF TypesInv, KeptInv, KeptTypes, KeptLinked, Kept!RetentionTypeOK
  <2>3. Probe!TypeOK /\ Api!ApiTypeOK
    BY ProbeTypes, ApiTypes, Zenon DEF TypesInv
  <2>4. scene = "accounts" => People!AccountsTypeOK
    BY DEF TypesInv, PeopleInv
  <2>5. scene = "built-ins" => Own!BuiltInsTypeOK
    BY OwnTyped DEF TypesInv
  <2>6. QED
    BY <2>1, <2>2, <2>3, <2>4, <2>5 DEF TypesOK
<1>4. QED
  BY <1>1, <1>2, <1>3, PTL DEF MCSpec, allVars
=============================================================================
