------------------------- MODULE MCNotificationLive -------------------------
(***************************************************************************)
(* The notification service under the scheduling its liveness rests on.    *)
(* Ticks recur every few seconds and providers answer or time out within   *)
(* seconds, while leases, retries and cooldowns are minutes: the clock of  *)
(* the model, which counts minutes, moves only when no tick is under way   *)
(* and nothing is left to do at the present instant.  Crashes are finitely *)
(* many and events are published early, so that the clock's bound leaves   *)
(* room for every retry and repeat: a delivery still queued at MaxTime     *)
(* would be reported.                                                      *)
(***************************************************************************)
EXTENDS MCNotification

CONSTANTS MaxCrashes, LastPublish

VARIABLE crashes

liveVars == <<vars, crashes>>

NothingDue ==
  /\ \A w \in Workers : pc[w] = "idle"
  /\ ResolvedAway \cup UnauthorizedAway = {}
  /\ ~\E d \in DOMAIN deliveries : Claimable(d)

Minute == NothingDue /\ Advance /\ UNCHANGED crashes
PublishEarly == now <= LastPublish /\ Publish /\ UNCHANGED crashes
Work(w) == WorkerStep(w) /\ UNCHANGED crashes
ManageLive == Manage /\ UNCHANGED crashes
CrashLive == crashes < MaxCrashes /\ Crash /\ crashes' = crashes + 1

LiveInit == Init /\ crashes = 0

LiveNext ==
  \/ Minute
  \/ PublishEarly
  \/ \E w \in Workers : Work(w)
  \/ ManageLive
  \/ CrashLive

\* A tick that can go on does (setInterval, and promises that settle); time
\* passes whenever it may.
LiveSpec ==
  /\ LiveInit /\ [][LiveNext]_liveVars
  /\ \A w \in Workers : WF_liveVars(Work(w))
  /\ SF_liveVars(Minute)

Ids == [event : 1..MaxEvents, sub : Subs, channel : Channels, index : 0..1]

Queued(d) == d \in DOMAIN deliveries /\ deliveries[d].status \in {"pending", "processing"}

\* Every delivery reaches the end of its life, through retries, repeats, quiet
\* hours, crashed ticks, and users, members and projects that come and go.
EveryDeliverySettles == \A d \in Ids : Queued(d) ~> ~Queued(d)
=============================================================================
