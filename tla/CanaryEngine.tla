---------------------------- MODULE CanaryEngine ----------------------------
(***************************************************************************)
(* The decision logic of a progressive delivery (pkg/canary): from the     *)
(* spec and status of a Rollout and what is seen of the canary Deployment, *)
(* the phase, step, weight and replica counts to bring about.  Steps are   *)
(* counted from 0, as in the status.                                       *)
(***************************************************************************)
EXTENDS Integers, Sequences

Unset == -1

\* weight: SetWeight, or Unset; pause: "timed" if Pause.Duration is set.
CanarySteps == [weight : 0..100 \cup {Unset}, pause : {"none", "indefinite", "timed"}]

\* activeProbe: HealthCheck.Type is HTTPProbe or PrometheusQuery, not PodReady.
Specs ==
    [steps : Seq(CanarySteps), replicas : Nat \cup {Unset}, failureThreshold : Int,
     activeProbe : BOOLEAN, autoRollback : BOOLEAN]

RolloutPhases ==
    {"", "Progressing", "Paused", "Healthy", "Degraded", "RollingBack", "Failed", "RolledBack"}

Statuses ==
    [phase : RolloutPhases, index : Nat, weight : 0..100, failures : Nat]

\* The status Evaluate asks for, the replicas to scale the Deployments to, and whether
\* to come back after a while (RequeueAfter).
Decisions == [status : Statuses, canary : Int, stable : Int, again : BOOLEAN]

WeightReplicas(weight, total) ==
    IF total <= 0 THEN 0 ELSE (weight * total) \div 100

\* Each Deployment's share is rounded down.
MutDecide(status, weight, total, again) ==
    [status |-> [status EXCEPT !.weight = weight],
     canary |-> WeightReplicas(weight, total),
     stable |-> WeightReplicas(100 - weight, total),
     again  |-> again]

\* A decision for a canary that takes `weight' of the traffic.
Decide(status, weight, total, again) ==
    [status |-> [status EXCEPT !.weight = weight],
     canary |-> WeightReplicas(weight, total),
     stable |-> total - WeightReplicas(weight, total),
     again  |-> again]

RollbackDecision(status, total) ==
    Decide([status EXCEPT !.phase = "RollingBack", !.failures = @ + 1], 0, total, FALSE)

InSteps(spec, index) == index < Len(spec.steps)
StepAt(spec, index) == spec.steps[index + 1]

\* A rollout takes on the weight of the step after the next.
MutNextWeight(spec, index, weight) ==
    IF InSteps(spec, index + 2) /\ StepAt(spec, index + 2).weight # Unset
    THEN StepAt(spec, index + 2).weight
    ELSE weight

\* The next step's weight is taken on though it may have none.
MutAnyWeight(spec, index, weight) ==
    IF InSteps(spec, index + 1) THEN StepAt(spec, index + 1).weight ELSE weight

\* The weight a rollout takes on when it leaves the step at `index'.
NextWeight(spec, index, weight) ==
    IF InSteps(spec, index + 1) /\ StepAt(spec, index + 1).weight # Unset
    THEN StepAt(spec, index + 1).weight
    ELSE weight

\* At the weight of the step: count a probe that failed though the pods are ready, and
\* give the rollout up when there were too many.
AwaitHealth(spec, status, ready, desired, total, healthy) ==
    LET podsReady == desired > 0 /\ ready >= desired
        failures == IF podsReady /\ ~healthy THEN status.failures + 1 ELSE status.failures
        tooMany == spec.failureThreshold > 0 /\ failures >= spec.failureThreshold
    IN  IF tooMany /\ spec.autoRollback
        THEN RollbackDecision(status, total)
        ELSE Decide([status EXCEPT !.phase = IF tooMany THEN "Failed" ELSE "Progressing",
                                   !.failures = failures],
                    status.weight, total, ~tooMany)

\* `elapsed': the pause was stamped for this step and its duration is over.
Evaluate(spec, status, elapsed, ready, desired, total, healthy) ==
    LET step == StepAt(spec, status.index)
        at(phase, index) == [status EXCEPT !.phase = phase, !.index = index, !.failures = 0]
        advanced == at("Progressing", status.index + 1)
    IN  IF ~InSteps(spec, status.index)
        THEN Decide(at("Healthy", status.index), status.weight, total, FALSE)
        ELSE IF step.pause # "none"
        THEN Decide(IF step.pause = "timed" /\ elapsed /\ healthy
                       THEN advanced
                       ELSE at("Paused", status.index),
                    status.weight, total, step.pause = "timed")
        ELSE IF step.weight = Unset
        THEN Decide(advanced, status.weight, total, FALSE)
        ELSE IF status.weight # step.weight
        THEN Decide(at("Progressing", status.index), step.weight, total, TRUE)
        ELSE IF desired > 0 /\ ready >= desired /\ healthy
        THEN Decide(advanced, NextWeight(spec, status.index, status.weight), total, TRUE)
        ELSE AwaitHealth(spec, status, ready, desired, total, healthy)
=============================================================================
