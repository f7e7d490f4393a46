-------------------------- MODULE DeploymentRollout --------------------------
(***************************************************************************)
(* How the rollout of a Site's Deployment goes on, as status.go tells it:  *)
(* rolling, stalled (its progress deadline has passed) or ready.  A rollout *)
(* that was complete is never taken for a stalled one: what ends Available *)
(* rolls first, and a Site turns Degraded only when that takes too long.   *)
(* The pods and the counters of SitePods implement these steps.            *)
(***************************************************************************)
VARIABLE rollout    \* "none" while there is no Deployment

Init == rollout = "none"

\* The Deployment is created.
Create == rollout = "none" /\ rollout' = "rolling"

\* The progress deadline passes.
Expire == rollout = "rolling" /\ rollout' = "stalled"

\* The last pod of the template is ready and those of other templates are gone.
Complete == rollout \in { "rolling", "stalled" } /\ rollout' = "ready"

\* The template is replaced, a pod stops being ready, or goes on after the deadline.
Restart == rollout \in { "ready", "stalled" } /\ rollout' = "rolling"

Next == Create \/ Expire \/ Complete \/ Restart

Spec == Init /\ [][Next]_rollout
=============================================================================
