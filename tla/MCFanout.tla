------------------------------ MODULE MCFanout ------------------------------
(***************************************************************************)
(* Fan-out: two owners, one of them an administrator, a channel each, plain *)
(* events next to openings, targets, priorities and idempotency keys.      *)
(***************************************************************************)
EXTENDS MCNotification

CONSTANTS boss, watch   \* the administrator, and the administrator's subscription

MCOwners == [s \in Subs |-> IF s = watch THEN boss ELSE user]

\* The user reads everything in the inbox, at most once per interval; the
\* administrator gets what is urgent by mail, with a priority of their own.
MCRules ==
  [s \in Subs |->
     IF s = watch
     THEN [Rule("interval", "recovery_only") EXCEPT !.channels = Channels \ {InApp},
             !.project = project, !.min_priority = 4, !.delivery_priority = 3, !.quiet = TRUE]
     ELSE [Rule("interval", "merged") EXCEPT !.channels = {InApp}, !.quiet = TRUE]]
=============================================================================
