------------------------------ MODULE EventApi ------------------------------
(***************************************************************************)
(* Publishers outside OmniDeck: the client of packages/sdk, their project  *)
(* token, and the route that records events under an idempotency key.      *)
(*                                                                         *)
(* A request may be executed and its answer lost, be lost itself, or be    *)
(* executed after its publisher gave it up; the SDK retries nothing, its   *)
(* caller does by publishing again.  One project with one event type: what *)
(* an event takes from it, when the publisher leaves it out, is its        *)
(* `version`, what it takes in any case its lifecycle.  Fan-out and        *)
(* incidents are module NotificationService's; retries do not go on for    *)
(* the 90 days after which events are deleted.                             *)
(***************************************************************************)
EXTENDS Integers, FiniteSets

CONSTANTS Publishers,
          Keys, NoKey,              \* keys publishers choose; none: the SDK draws one
          Patient, MaxCalls,        \* bounds: who publishes more than once, how often,
          MaxVersions,              \* edits of the type's texts,
          MaxFaults                 \* updates that fail after an event was recorded

VARIABLES
  admitted,   \* the token is neither revoked nor expired; the project and the type are
              \* enabled, under the keys and with a schema that publishers keep to
  type,       \* notification_event_types
  publisher,  \* what each publishes, and what it knows of it
  requests,   \* requests nobody has executed yet
  events,     \* notification_events
  faults

apiVars == <<admitted, type, publisher, requests, events, faults>>

MaxEvents == Cardinality(Publishers) * MaxCalls
None == "none"
Lifecycles == {"event", "opened"}

\* `fixed`: the title, the body and the priority are given.  `answer` is that to
\* the last call, with the event it names.
Publisher == [key : Keys \cup {NoKey}, fixed : BOOLEAN, calls : 0..MaxCalls, waiting : BOOLEAN,
              answer : {None, "error", "rejected", "accepted", "duplicate"}, event : 0..MaxEvents]

Request == [publisher : Publishers, call : 1..MaxCalls]

Event == [id : 1..MaxEvents, key : Keys \cup (Publishers \X (1..MaxCalls)),
          data : Publishers, version : 0..MaxVersions, lifecycle : Lifecycles]

\* Every call has a key of its own.
FaultyKeyOf(p, call) == <<p, call>>

KeyOf(p, call) == IF publisher[p].key # NoKey THEN publisher[p].key ELSE <<p, call>>

\* Nobody waits for the answer to an earlier call.
Answer(p, call, answer, id) ==
  publisher' = IF publisher[p].waiting /\ publisher[p].calls = call
               THEN [publisher EXCEPT ![p].waiting = FALSE, ![p].answer = answer, ![p].event = id]
               ELSE publisher

-----------------------------------------------------------------------------
(* The SDK.                                                                *)

Publish(p) ==
  /\ ~publisher[p].waiting /\ publisher[p].answer \notin {"accepted", "duplicate"}
  /\ publisher[p].calls < IF p \in Patient THEN MaxCalls ELSE 1
  /\ publisher' = [publisher EXCEPT ![p].calls = @ + 1, ![p].waiting = TRUE]
  /\ requests' = requests \cup {[publisher |-> p, call |-> publisher[p].calls + 1]}
  /\ UNCHANGED <<admitted, type, events, faults>>

\* fetch fails; the request is lost, on its way, or executed.
Disconnect(p) ==
  /\ publisher[p].waiting
  /\ Answer(p, publisher[p].calls, "error", 0)
  /\ requests' \in {requests, requests \ {[publisher |-> p, call |-> publisher[p].calls]}}
  /\ UNCHANGED <<admitted, type, events, faults>>

-----------------------------------------------------------------------------
(* POST /api/v1/projects/:projectKey/events                                *)

\* An edit of the type makes another event of it.
FaultyFingerprint(p) == [data |-> p, version |-> type.version, lifecycle |-> type.lifecycle]

Fingerprint(p) ==
  [data |-> p, version |-> IF publisher[p].fixed THEN 0 ELSE type.version, lifecycle |-> type.lifecycle]

\* The fingerprint of a recorded event.
Payload(e) == [data |-> e.data, version |-> e.version, lifecycle |-> e.lifecycle]

Recorded(r) == {e \in events : e.key = KeyOf(r.publisher, r.call)}

\* The key is all that is compared.
FaultySame(e, p) == TRUE

Same(e, p) == Payload(e) = Fingerprint(p)

Reject(r) ==
  /\ ~admitted \/ \E e \in Recorded(r) : ~Same(e, r.publisher)
  /\ Answer(r.publisher, r.call, "rejected", 0)
  /\ UNCHANGED <<events, faults>>

\* The update of last_used_at, after the commit, may fail: a rejection as well.
Record(r) ==
  LET id == Cardinality(events) + 1
      payload == Fingerprint(r.publisher)
  IN /\ admitted /\ Recorded(r) = {}
     /\ events' = events \cup
          {[id |-> id, key |-> KeyOf(r.publisher, r.call), data |-> payload.data,
            version |-> payload.version, lifecycle |-> payload.lifecycle]}
     /\ \/ Answer(r.publisher, r.call, "accepted", id) /\ UNCHANGED faults
        \/ Answer(r.publisher, r.call, "rejected", 0) /\ faults < MaxFaults /\ faults' = faults + 1

Repeat(r) ==
  /\ admitted
  /\ \E e \in Recorded(r) :
       Same(e, r.publisher) /\ Answer(r.publisher, r.call, "duplicate", e.id)
  /\ UNCHANGED <<events, faults>>

Execute(r) ==
  /\ Reject(r) \/ Record(r) \/ Repeat(r)
  /\ requests' = requests \ {r}
  /\ UNCHANGED <<admitted, type>>

-----------------------------------------------------------------------------
(* Administration.                                                         *)

\* Tokens, the project and the type decide together on who is admitted.
ChangeAdmission ==
  /\ admitted' = ~admitted
  /\ UNCHANGED <<type, publisher, requests, events, faults>>

PutEventType(version, lifecycle) ==
  /\ type' = [version |-> version, lifecycle |-> lifecycle]
  /\ type' # type /\ version >= type.version
  /\ UNCHANGED <<admitted, publisher, requests, events, faults>>

ApiInit ==
  /\ admitted = TRUE /\ type = [version |-> 1, lifecycle |-> "event"]
  /\ \E key \in [Publishers -> Keys \cup {NoKey}], fixed \in [Publishers -> BOOLEAN] :
       publisher = [p \in Publishers |->
         [key |-> key[p], fixed |-> fixed[p], calls |-> 0, waiting |-> FALSE, answer |-> None,
          event |-> 0]]
  /\ requests = {} /\ events = {} /\ faults = 0

ApiNext ==
  \/ \E p \in Publishers : Publish(p) \/ Disconnect(p)
  \/ \E r \in requests : Execute(r)
  \/ ChangeAdmission
  \/ \E version \in 1..MaxVersions, lifecycle \in Lifecycles : PutEventType(version, lifecycle)

ApiSpec == ApiInit /\ [][ApiNext]_apiVars

-----------------------------------------------------------------------------
\* UNIQUE(project_id, idempotency_key) among them.
ApiTypeOK ==
  /\ admitted \in BOOLEAN /\ type \in [version : 1..MaxVersions, lifecycle : Lifecycles]
  /\ publisher \in [Publishers -> Publisher]
  /\ requests \subseteq Request /\ events \subseteq Event /\ faults \in 0..MaxFaults
  /\ \A e, f \in events : e.key = f.key => e = f

\* However often its publisher retries, whatever answers were lost and whatever is
\* edited in between: what is published under a key of the publisher's own is
\* recorded once.  A key the SDK draws is the call's and not the publication's: a
\* retry records it again.
RecordedOnce ==
  \A p \in Publishers :
    publisher[p].key # NoKey => Cardinality({e \in events : e.data = p}) <= 1

\* Who is told that an event was accepted, or is a duplicate, finds his own under
\* the id he was given: that of another publisher with the same key never stands in
\* for it.
ToldTruly ==
  \A p \in Publishers :
    publisher[p].answer \in {"accepted", "duplicate"} =>
      \E e \in events : e.id = publisher[p].event /\ e.data = p

\* A publisher who leaves nothing to the event type may retry safely: once recorded,
\* his event is not rejected while he is admitted, however the texts and the
\* priority of the type were edited.  Who leaves one of them to the type, or whose
\* type has got another lifecycle, is told that his key was used for another event.
RetryRecognised ==
  \A p \in Publishers :
    /\ publisher[p].fixed /\ publisher[p].key # NoKey /\ admitted
    /\ \E e \in events : e.data = p /\ e.lifecycle = type.lifecycle
    /\ publisher[p].waiting /\ ~publisher[p].waiting'
    => publisher[p].answer' # "rejected"

RetriesRecognised == [][RetryRecognised]_apiVars
=============================================================================
