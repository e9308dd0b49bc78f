--------------------------- MODULE MCNotification ---------------------------
(***************************************************************************)
(* Small instances of the notification service.                            *)
(***************************************************************************)
EXTENDS NotificationProperties, TLC

CONSTANTS user, project, up, down, notice

\* down opens an incident, up resolves it, notice is a plain event.
MCLifecycle == (down :> "opened") @@ (up :> "recovered") @@ (notice :> "event")
MCLifecycleOf == [t \in EventTypes |-> MCLifecycle[t]]
MCProjectOf == [t \in EventTypes |-> project]
MCOwnerOf == [s \in Subs |-> user]

Rule(mode, summary) ==
  [project |-> Unset, type |-> Unset, min_priority |-> 1, delivery_priority |-> Unset,
   channels |-> Channels, cooldown_mode |-> mode, cooldown |-> 1, repeat_count |-> 2,
   quiet |-> FALSE, summary |-> summary, enabled |-> TRUE]

MergedOnce == [s \in Subs |-> Rule("once", "merged")]
MergedRepeating == [s \in Subs |-> Rule("until_recovery", "merged")]
MergedTwice == [s \in Subs |-> Rule("repeat_count", "merged")]
AllOnce == [s \in Subs |-> Rule("once", "all")]
QuietOnce == [s \in Subs |-> [Rule("once", "merged") EXCEPT !.quiet = TRUE]]

\* What the owner of a subscription edits it to.
Edits == {[Rule("interval", "all") EXCEPT !.type = down]}

OneRetry == <<1>>
NoRetry == <<>>

\* Ticks are interchangeable.
Ticks == Permutations(Workers)
=============================================================================
