----------------------------- MODULE MCEpisodes -----------------------------
(***************************************************************************)
(* Two instances in one: events stamped late and early while nothing is    *)
(* managed, and up to ManagedEvents events stamped as they occur while     *)
(* users, members, projects and the subscription are managed.              *)
(***************************************************************************)
EXTENDS MCNotification

CONSTANT ManagedEvents

VARIABLE managed

MCInit == Init /\ managed \in BOOLEAN

PublishOnTime ==
  /\ Len(events) < ManagedEvents
  /\ \E type \in EventTypes, key \in DedupeKeys, priority \in Priorities :
       Emit(type, key, now, priority, Unset, NoIdempotencyKey)

MCNext ==
  /\ \/ ~managed /\ Publish
     \/ managed /\ (PublishOnTime \/ Manage)
     \/ \E w \in Workers : WorkerStep(w)
     \/ Advance
     \/ Crash
  /\ UNCHANGED managed

MCSpec == MCInit /\ [][MCNext]_<<vars, managed>>
=============================================================================
