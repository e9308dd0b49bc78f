------------------------------ MODULE MCSmall ------------------------------
(***************************************************************************)
(* Seven parts, each small and none touching another's state, share this   *)
(* instance: `scene` tells which of them runs, the others stand still.     *)
(* Two keys and three instants for the incidents; days of seven minutes of *)
(* three instants; responses of up to three reads of two fragments, with a *)
(* limit on either side of their length; three users with two sessions;    *)
(* two users and one session for the built-in projects and subscriptions;  *)
(* four days and three events under a retention of one day; two publishers *)
(* that may choose the same key, one of which publishes again.  The parts  *)
(* that are proved about have their bounds as constants.                   *)
(***************************************************************************)
EXTENDS Incident, FiniteSets

CONSTANTS MinutesPerDay, MinuteParts,
          ServerLimit, AgentLimit, BodyLimit, MaxReads, MaxRead,
          Cookies, MaxUsers,
          OwnCookies, MaxOwners, BuiltInProjects, MarketProject, MaxDeaths,
          KeptKeys, Keep, MaxDay, MaxReceived,
          Publishers, Patient, PublisherKeys, NoKey, MaxCalls, MaxVersions, MaxFaults

ASSUME BoundsAssumption ==
  /\ MinutesPerDay \in Nat \ {0} /\ MinuteParts \in Nat \ {0}
  /\ ServerLimit \in Nat /\ AgentLimit \in Nat /\ ServerLimit <= AgentLimit
  /\ BodyLimit \in Nat /\ MaxReads \in Nat /\ MaxRead \in Nat
  /\ MaxUsers \in Nat /\ MaxOwners \in Nat /\ MaxDeaths \in Nat
  /\ MarketProject \in BuiltInProjects
  /\ Keep \in Nat /\ MaxDay \in Nat \ {0} /\ MaxReceived \in Nat
  /\ IsFiniteSet(Publishers)
  /\ MaxCalls \in Nat \ {0} /\ MaxVersions \in Nat \ {0} /\ MaxFaults \in Nat

VARIABLES scene,
  start, end, now,
  response, server, agent,
  root, user, session, outdated, spared,
  up, deaths, known, initialised, migrated, members, left_out, recipients, smtp, subs,
  day, received, stored, row, opened, forgotten,
  admitted, type, publisher, requests, events, faults

MCTimes == 1..3

Quiet == INSTANCE QuietHours
Probe == INSTANCE ProbeExchange
People == INSTANCE Accounts WITH Tokens <- Cookies
Own == INSTANCE BuiltIns
       WITH Tokens <- OwnCookies, MaxUsers <- MaxOwners, Projects <- BuiltInProjects,
            Market <- MarketProject
Kept == INSTANCE Retention
        WITH Keys <- KeptKeys, MaxTime <- MaxDay, MaxEvents <- MaxReceived, now <- day
Api == INSTANCE EventApi WITH Keys <- PublisherKeys

quietVars == <<start, end, now>>
probeVars == <<response, server, agent>>
peopleVars == <<root, user, session, outdated, spared>>
ownVars == <<up, deaths, known, initialised, migrated, members, left_out, recipients, smtp, subs>>
keptVars == <<day, received, stored, row, opened, forgotten>>
apiVars == <<admitted, type, publisher, requests, events, faults>>

QuietRests == start = 0 /\ end = 0 /\ now = 0
ProbeRests ==
  /\ response = [kind |-> "head", status |-> "expected", reads |-> <<>>, ending |-> "eof"]
  /\ server = Probe!Start /\ agent = Probe!Start
PeopleRest == People!Init /\ root = 1
OwnRests ==
  /\ Own!NewDatabase /\ up = FALSE /\ deaths = 0 /\ initialised = {} /\ left_out = {}
KeptRests == Kept!RetentionInit
ApiRests == Api!ApiInit /\ \A p \in Publishers : publisher[p].key = NoKey /\ publisher[p].fixed

MCInit ==
  /\ scene \in {"incident", "quiet", "probe", "accounts", "built-ins", "retention", "api"}
  /\ Init /\ KeptRests
  /\ IF scene = "quiet" THEN Quiet!Init ELSE QuietRests
  /\ IF scene = "probe" THEN Probe!Init ELSE ProbeRests
  /\ CASE scene = "accounts" -> People!Init /\ OwnRests
       [] scene = "built-ins" -> Own!BuiltInsInit
       [] OTHER -> PeopleRest /\ OwnRests
  /\ IF scene = "api" THEN Api!ApiInit ELSE ApiRests

MCNext ==
  /\ UNCHANGED scene
  /\ \/ /\ scene = "incident" /\ Next
        /\ UNCHANGED <<quietVars, probeVars, peopleVars, ownVars, keptVars, apiVars>>
     \/ /\ scene = "quiet" /\ Quiet!Advance
        /\ UNCHANGED <<vars, probeVars, peopleVars, ownVars, keptVars, apiVars>>
     \/ /\ scene = "probe" /\ Probe!Next
        /\ UNCHANGED <<vars, quietVars, peopleVars, ownVars, keptVars, apiVars>>
     \/ /\ scene = "accounts" /\ People!Next
        /\ UNCHANGED <<vars, quietVars, probeVars, ownVars, keptVars, apiVars>>
     \/ /\ scene = "built-ins" /\ Own!BuiltInsNext
        /\ UNCHANGED <<vars, quietVars, probeVars, keptVars, apiVars>>
     \/ /\ scene = "retention" /\ Kept!RetentionNext
        /\ UNCHANGED <<vars, quietVars, probeVars, peopleVars, ownVars, apiVars>>
     \/ /\ scene = "api" /\ Api!ApiNext
        /\ UNCHANGED <<vars, quietVars, probeVars, peopleVars, ownVars, keptVars>>

MCSpec ==
  MCInit /\ [][MCNext]_<<scene, vars, quietVars, probeVars, peopleVars, ownVars, keptVars, apiVars>>

-----------------------------------------------------------------------------
\* The type invariants of the parts; a row of an incident names an event that
\* is there, and idempotency keys are unique.
TypesOK ==
  /\ TypeOK /\ Probe!TypeOK /\ Kept!RetentionTypeOK /\ Api!ApiTypeOK
  /\ scene = "accounts" => People!AccountsTypeOK
  /\ scene = "built-ins" => Own!BuiltInsTypeOK

\* The other properties, each stated and explained in the module of its part.
AttemptedAsItEnds == Quiet!AttemptedAsItEnds
VerdictsAgree == Probe!VerdictsAgree
SessionsAreCurrent == scene = "accounts" => People!SessionsAreCurrent
LastStepsDown == [][scene = "accounts" => People!OnlyStepsDown]_peopleVars
MembersExact == scene = "built-ins" => Own!MembersExact
RecipientsServed == scene = "built-ins" => Own!RecipientsServed
NothingThatMattersForgotten == Kept!NothingThatMattersForgotten
RecordedOnce == Api!RecordedOnce
ToldTruly == Api!ToldTruly
RetriesRecognised == [][scene = "api" => Api!RetryRecognised]_apiVars
=============================================================================
