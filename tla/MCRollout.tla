----------------------------- MODULE MCRollout -----------------------------
(***************************************************************************)
(* Instances of Rollout for TLC: the plans a Rollout is created with.      *)
(***************************************************************************)
EXTENDS Rollout

Weight(w) == [weight |-> w, pause |-> "none"]
Timed == [weight |-> Unset, pause |-> "timed"]

Plan(steps, replicas, threshold, probe, auto) ==
    [steps |-> steps, replicas |-> replicas, failureThreshold |-> threshold,
     activeProbe |-> probe, autoRollback |-> auto]

\* Half the traffic, a pause, all of it: rolled back when its pods fail.  A single step
\* to half of three pods: given up when its probes fail twice.
SafePlans == {Plan(<< Weight(50), Timed, Weight(100) >>, 2, 2, FALSE, TRUE),
              Plan(<< Weight(50) >>, 3, 2, TRUE, FALSE)}

\* Two steps: rolled back when its probe fails.
Once == {Plan(<< Weight(50), Weight(100) >>, 2, 1, TRUE, TRUE)}
=============================================================================
