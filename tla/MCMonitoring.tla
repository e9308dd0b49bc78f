---------------------------- MODULE MCMonitoring ----------------------------
(***************************************************************************)
(* Two small worlds in one instance: an installation starts without nodes  *)
(* and watches its clock, or it has a node and its clock stands at the end *)
(* of the bound.  A deleted monitor or node stays out of play for ever.    *)
(***************************************************************************)
EXTENDS Monitoring

Started(clock, gone, goneNodes, died) ==
  /\ now = clock /\ assigned = {} /\ alerts = {} /\ crashes = died
  /\ monitor = [m \in Monitors |-> IF m \in gone THEN "deleted" ELSE "absent"]
  /\ node = [n \in Nodes |->
               IF n \in goneNodes THEN [NewNode EXCEPT !.status = "deleted"] ELSE NewNode]
  /\ checks = [m \in Monitors |-> [l \in Locations |-> <<>>]]
  /\ active = [m \in Monitors |-> {}]
  /\ agent = [n \in Nodes |-> NewAgent(1)]
  /\ reachable = Monitors \X Locations
  /\ late = [m \in Monitors |-> [l \in Locations |-> 0]]

MCInit == Started(0, {}, Nodes, 0) \/ Started(MaxTime, AiTargets, {}, 0)
MCSpec == MCInit /\ [][Next]_vars

\* For the liveness properties the server of the world with a node is not
\* restarted any more.
MCLiveInit == Started(0, {}, Nodes, 0) \/ Started(0, {}, {}, MaxCrashes)
MCFairSpec == MCLiveInit /\ [][Next]_vars /\ Fairness
=============================================================================
