----------------------------- MODULE WalkProofs -----------------------------
(***************************************************************************)
(* Proofs about the walk of a Rollout over its steps: how much of the      *)
(* canary is exposed, how fast failures are counted, how the replicas are  *)
(* shared out, and that the controller implements RolloutWalk.             *)
(***************************************************************************)
EXTENDS RolloutProofs

-----------------------------------------------------------------------------
(* The inductive invariant behind ExposureBounded. *)

\* The weight is one of the steps up to the one at `index', or none has been taken on.
Reached(weight, index) ==
    \/ weight = 0
    \/ \E i \in 1..Len(spec.steps) : i <= index + 1 /\ spec.steps[i].weight = weight

\* A step up to the one at `index' gives the canary that many replicas.
Allowed(replicas, index) ==
    replicas > 0 =>
        \E i \in 1..Len(spec.steps) :
            /\ i <= index + 1
            /\ spec.steps[i].weight # Unset
            /\ replicas <= WeightReplicas(spec.steps[i].weight, spec.replicas)

\* The versions of the Rollout that may still be read.
Versions == {ro, roCache} \cup {roWatch[i] : i \in 1..Len(roWatch)}

\* They are where the Rollout was, and have the weight of a step it came to.
VersionsReached ==
    \A v \in Versions : /\ v.status.index <= ro.status.index
                        /\ Reached(v.status.weight, v.status.index)

\* A reconcile goes at most one step further than the Rollout, and back only with a
\* copy of which a newer version is known.
PlanReached ==
    roc.step # "idle" =>
        /\ roc.status.index <= ro.status.index + 1
        /\ Reached(roc.status.weight, roc.status.index)
        /\ current /\ Deciding => ro.status.index <= roc.status.index

\* It scales the canary as the step it goes to allows.
ScalesAllowed ==
    spec.replicas # Unset =>
        /\ roc.step = "scale" => Allowed(roc.canary, roc.status.index)
        /\ Allowed(canary.replicas, ro.status.index + 1)

WalkHolds ==
    /\ VersionsReached
    /\ PlanReached
    /\ ScalesAllowed
-----------------------------------------------------------------------------
(* The inductive invariant behind PacedFailures. *)

\* A status that counts one more failure than the Rollout, and will pass the version
\* check, is the outcome of a check that was due.
PacingHolds ==
    current /\ Deciding /\ roc.status.failures > ro.status.failures => due \/ GivenUp
-----------------------------------------------------------------------------
(* What is reached and allowed. *)

LEMMA ReachedGrows ==
    ASSUME NEW weight, NEW index \in Int, NEW later \in Int, index <= later, spec \in Specs,
           Reached(weight, index)
    PROVE  Reached(weight, later)
<1>1. CASE weight = 0
  BY <1>1 DEF Reached
<1>2. CASE weight # 0
  <2>1. PICK i \in 1..Len(spec.steps) : i <= index + 1 /\ spec.steps[i].weight = weight
    BY <1>2 DEF Reached
  <2>2. i <= later + 1
    BY <2>1
  <2> QED
    BY <2>1, <2>2 DEF Reached
<1> QED
  BY <1>1, <1>2

LEMMA AllowedGrows ==
    ASSUME NEW replicas \in Int, NEW index \in Int, NEW later \in Int, index <= later,
           spec \in Specs, Allowed(replicas, index)
    PROVE  Allowed(replicas, later)
<1> SUFFICES ASSUME replicas > 0
             PROVE  \E i \in 1..Len(spec.steps) :
                        /\ i <= later + 1
                        /\ spec.steps[i].weight # Unset
                        /\ replicas <= WeightReplicas(spec.steps[i].weight, spec.replicas)
  BY DEF Allowed
<1>1. PICK i \in 1..Len(spec.steps) :
          /\ i <= index + 1
          /\ spec.steps[i].weight # Unset
          /\ replicas <= WeightReplicas(spec.steps[i].weight, spec.replicas)
  BY DEF Allowed
<1>2. i <= later + 1
  BY <1>1
<1> QED
  BY <1>1, <1>2

LEMMA NothingAllowed ==
    ASSUME NEW replicas \in Int, replicas <= 0, NEW index
    PROVE  Allowed(replicas, index)
BY DEF Allowed

\* No traffic takes no replicas.
LEMMA NoWeight ==
    ASSUME NEW total \in Int
    PROVE  WeightReplicas(0, total) = 0
<1>1. 0 * total = 0
  OBVIOUS
<1>2. 0 \div 100 = 0
  OBVIOUS
<1> QED
  BY <1>1, <1>2 DEF WeightReplicas

\* The replicas for a weight that was reached are allowed.
LEMMA ReachedAllowed ==
    ASSUME spec \in Specs, spec.replicas # Unset, NEW weight \in 0..100, NEW index \in Int,
           Reached(weight, index)
    PROVE  Allowed(WeightReplicas(weight, spec.replicas), index)
<1>1. spec.replicas \in Int
  BY DEF Specs, Unset
<1>2. CASE weight = 0
  <2>1. WeightReplicas(weight, spec.replicas) = 0
    BY <1>1, <1>2, NoWeight
  <2> QED
    BY <2>1, NothingAllowed
<1>3. CASE weight # 0
  <2> DEFINE replicas == WeightReplicas(weight, spec.replicas)
  <2>1. PICK i \in 1..Len(spec.steps) : i <= index + 1 /\ spec.steps[i].weight = weight
    BY <1>3 DEF Reached
  <2>2. spec.steps[i].weight # Unset
    BY <2>1 DEF Unset
  <2>3. replicas <= replicas
    <3>1. replicas \in Int
      <4>1. weight \in Int
        OBVIOUS
      <4> QED
        BY <1>1, <4>1, WeightReplicasType
    <3> HIDE DEF replicas
    <3> QED
      BY <3>1
  <2>4. replicas <= WeightReplicas(spec.steps[i].weight, spec.replicas)
    BY <2>1, <2>3
  <2> HIDE DEF replicas
  <2>5. Allowed(replicas, index)
    BY <2>1, <2>2, <2>4 DEF Allowed
  <2> QED
    BY <2>5 DEF replicas
<1> QED
  BY <1>2, <1>3

\* The weight taken on with a step is that of the step, or the one before.
LEMMA NextReached ==
    ASSUME spec \in Specs, NEW weight, NEW index \in Nat, Reached(weight, index)
    PROVE  Reached(NextWeight(spec, index, weight), index + 1)
<1>1. CASE InSteps(spec, index + 1) /\ StepAt(spec, index + 1).weight # Unset
  <2>1. spec.steps \in Seq(CanarySteps)
    BY DEF Specs
  <2>2. index + 2 \in 1..Len(spec.steps) /\ StepAt(spec, index + 1) = spec.steps[index + 2]
    <3>1. (index + 1) + 1 = index + 2
      OBVIOUS
    <3> QED
      BY <1>1, <2>1, <3>1, LenProperties DEF InSteps, StepAt
  <2>3. NextWeight(spec, index, weight) = spec.steps[index + 2].weight
    BY <1>1, <2>2 DEF NextWeight
  <2>4. index + 2 <= (index + 1) + 1
    OBVIOUS
  <2> QED
    BY <2>2, <2>3, <2>4 DEF Reached
<1>2. CASE ~(InSteps(spec, index + 1) /\ StepAt(spec, index + 1).weight # Unset)
  <2>1. NextWeight(spec, index, weight) = weight
    BY <1>2 DEF NextWeight
  <2> QED
    BY <2>1, ReachedGrows
<1> QED
  BY <1>1, <1>2
-----------------------------------------------------------------------------
(* What the engine decides. *)

\* The decision goes one step on at most, to a weight that was reached by then, and
\* scales the canary to it.
Walks(decision, status, total) ==
    /\ decision.status.index \in {status.index, status.index + 1}
    /\ Reached(decision.status.weight, decision.status.index)
    /\ decision.canary = WeightReplicas(decision.status.weight, total)

LEMMA DecideWalks ==
    ASSUME NEW status \in Statuses, NEW weight \in 0..100, NEW total \in Int,
           NEW again \in BOOLEAN
    PROVE  /\ Decide(status, weight, total, again).status.index = status.index
           /\ Decide(status, weight, total, again).status.weight = weight
           /\ Decide(status, weight, total, again).status.failures = status.failures
           /\ Decide(status, weight, total, again).canary = WeightReplicas(weight, total)
<1>1. /\ [status EXCEPT !.weight = weight].index = status.index
      /\ [status EXCEPT !.weight = weight].weight = weight
      /\ [status EXCEPT !.weight = weight].failures = status.failures
  BY DEF Statuses
<1> QED
  BY <1>1 DEF Decide

\* Waiting for health, the rollout stays at its step and at its weight or none; it counts
\* a failure if a check failed, or if too many had failed before.
LEMMA AwaitHealthWalks ==
    ASSUME NEW status \in Statuses, NEW ready \in Int, NEW desired \in Int, NEW total \in Int,
           NEW healthy \in BOOLEAN, spec \in Specs, Reached(status.weight, status.index),
           NEW decision, decision = AwaitHealth(spec, status, ready, desired, total, healthy)
    PROVE  /\ Walks(decision, status, total)
           /\ decision.status.failures > status.failures =>
                 \/ desired > 0 /\ ready >= desired /\ ~healthy
                 \/ spec.failureThreshold > 0 /\ status.failures >= spec.failureThreshold
<1> DEFINE podsReady == desired > 0 /\ ready >= desired
           failures == IF podsReady /\ ~healthy THEN status.failures + 1 ELSE status.failures
           tooMany == spec.failureThreshold > 0 /\ failures >= spec.failureThreshold
           counted == [status EXCEPT !.phase = IF tooMany THEN "Failed" ELSE "Progressing",
                                     !.failures = failures]
           back == [status EXCEPT !.phase = "RollingBack", !.failures = @ + 1]
<1>1. status.index \in Nat /\ status.weight \in 0..100 /\ status.failures \in Nat
  BY DEF Statuses
<1>2. failures \in Nat
  BY <1>1
<1>3. CASE tooMany /\ spec.autoRollback
  <2>1. back \in Statuses /\ back.index = status.index
    <3>1. status.failures + 1 \in Nat /\ "RollingBack" \in RolloutPhases
      BY <1>1 DEF RolloutPhases
    <3> QED
      BY <3>1 DEF Statuses
  <2>2. decision = Decide(back, 0, total, FALSE)
    BY <1>3 DEF AwaitHealth, RollbackDecision
  <2>3. /\ decision.status.index = status.index
        /\ decision.status.weight = 0
        /\ decision.canary = WeightReplicas(0, total)
    <3> HIDE DEF back
    <3>1. \A weight \in 0..100, again \in BOOLEAN :
              /\ Decide(back, weight, total, again).status.index = back.index
              /\ Decide(back, weight, total, again).status.weight = weight
              /\ Decide(back, weight, total, again).canary = WeightReplicas(weight, total)
      BY <2>1, DecideWalks
    <3>2. 0 \in 0..100 /\ FALSE \in BOOLEAN
      OBVIOUS
    <3> QED
      BY <2>1, <2>2, <3>1, <3>2
  <2>4. Walks(decision, status, total)
    BY <2>3 DEF Walks, Reached
  <2>5. \/ podsReady /\ ~healthy
        \/ spec.failureThreshold > 0 /\ status.failures >= spec.failureThreshold
    BY <1>3
  <2> QED
    BY <2>4, <2>5
<1>4. CASE ~(tooMany /\ spec.autoRollback)
  <2>1. counted \in Statuses /\ counted.index = status.index /\ counted.failures = failures
    <3>1. (IF tooMany THEN "Failed" ELSE "Progressing") \in RolloutPhases
      BY DEF RolloutPhases
    <3> HIDE DEF failures, tooMany
    <3> QED
      BY <1>2, <3>1 DEF Statuses
  <2>2. decision = Decide(counted, status.weight, total, ~tooMany)
    BY <1>4 DEF AwaitHealth
  <2>3. /\ decision.status.index = status.index
        /\ decision.status.weight = status.weight
        /\ decision.status.failures = failures
        /\ decision.canary = WeightReplicas(status.weight, total)
    <3>1. (~tooMany) \in BOOLEAN
      OBVIOUS
    <3> HIDE DEF counted, failures, tooMany
    <3>2. \A weight \in 0..100, again \in BOOLEAN :
              /\ Decide(counted, weight, total, again).status.index = counted.index
              /\ Decide(counted, weight, total, again).status.weight = weight
              /\ Decide(counted, weight, total, again).status.failures = counted.failures
              /\ Decide(counted, weight, total, again).canary = WeightReplicas(weight, total)
      BY <2>1, DecideWalks
    <3> QED
      BY <1>1, <2>1, <2>2, <3>1, <3>2
  <2>4. Walks(decision, status, total)
    BY <2>3 DEF Walks
  <2>5. failures > status.failures => podsReady /\ ~healthy
    BY <1>1
  <2> QED
    BY <2>3, <2>4, <2>5
<1> QED
  BY <1>3, <1>4

\* Evaluate goes one step on at most, takes on no weight but that of a step it came to,
\* and counts failures as AwaitHealth does.
LEMMA EvaluateWalks ==
    ASSUME NEW status \in Statuses, NEW over \in BOOLEAN, NEW ready \in Int,
           NEW desired \in Int, NEW total \in Int, NEW healthy \in BOOLEAN, spec \in Specs,
           Reached(status.weight, status.index),
           NEW decision,
           decision = Evaluate(spec, status, over, ready, desired, total, healthy)
    PROVE  /\ Walks(decision, status, total)
           /\ decision.status.failures > status.failures =>
                 \/ desired > 0 /\ ready >= desired /\ ~healthy
                 \/ spec.failureThreshold > 0 /\ status.failures >= spec.failureThreshold
<1> DEFINE at(phase, index) == [status EXCEPT !.phase = phase, !.index = index, !.failures = 0]
           step == StepAt(spec, status.index)
           passed == desired > 0 /\ ready >= desired /\ healthy
<1>1. /\ status.index \in Nat /\ status.index + 1 \in Nat
      /\ status.weight \in 0..100 /\ status.failures \in Nat
  BY DEF Statuses
<1>2. \A phase \in RolloutPhases, index \in Nat :
          at(phase, index) \in Statuses /\ at(phase, index).index = index
                                        /\ at(phase, index).failures = 0
  BY DEF Statuses
<1>3. ASSUME NEW phase \in RolloutPhases, NEW index \in {status.index, status.index + 1},
             NEW weight \in 0..100, Reached(weight, index), NEW again \in BOOLEAN,
             decision = Decide(at(phase, index), weight, total, again)
      PROVE  Walks(decision, status, total) /\ ~(decision.status.failures > status.failures)
  <2>1. at(phase, index) \in Statuses /\ at(phase, index).index = index
                                      /\ at(phase, index).failures = 0
    BY <1>1, <1>2
  <2> HIDE DEF at
  <2>2. /\ decision.status.index = index
        /\ decision.status.weight = weight
        /\ decision.status.failures = 0
        /\ decision.canary = WeightReplicas(weight, total)
    BY <1>3, <2>1, DecideWalks
  <2> QED
    BY <1>1, <1>3, <2>2 DEF Walks
<1>4. {"Progressing", "Paused", "Healthy"} \subseteq RolloutPhases
  BY DEF RolloutPhases
<1>5. Reached(status.weight, status.index + 1)
  BY <1>1, ReachedGrows
<1>6. CASE ~InSteps(spec, status.index)
  <2>1. decision = Decide(at("Healthy", status.index), status.weight, total, FALSE)
    BY <1>6 DEF Evaluate
  <2> HIDE DEF at
  <2> QED
    BY <2>1, <1>1, <1>3, <1>4
<1>7. CASE InSteps(spec, status.index) /\ step.pause # "none"
  <2>1. PICK again \in BOOLEAN :
            \/ decision = Decide(at("Progressing", status.index + 1), status.weight, total, again)
            \/ decision = Decide(at("Paused", status.index), status.weight, total, again)
    BY <1>7 DEF Evaluate
  <2> HIDE DEF at
  <2> QED
    BY <2>1, <1>1, <1>3, <1>4, <1>5
<1>8. CASE InSteps(spec, status.index) /\ step.pause = "none" /\ step.weight = Unset
  <2>1. decision = Decide(at("Progressing", status.index + 1), status.weight, total, FALSE)
    BY <1>8 DEF Evaluate
  <2> HIDE DEF at
  <2> QED
    BY <2>1, <1>1, <1>3, <1>4, <1>5
<1>9. CASE /\ InSteps(spec, status.index) /\ step.pause = "none"
           /\ step.weight # Unset /\ status.weight # step.weight
  <2>1. decision = Decide(at("Progressing", status.index), step.weight, total, TRUE)
    BY <1>9 DEF Evaluate
  <2>2. step \in CanarySteps
    BY <1>9, <1>1, StepType
  <2>3. step.weight \in 0..100
    BY <1>9, <2>2 DEF CanarySteps
  <2>4. Reached(step.weight, status.index)
    <3>1. spec.steps \in Seq(CanarySteps)
      BY DEF Specs
    <3>2. status.index + 1 \in 1..Len(spec.steps)
      BY <1>1, <1>9, <3>1, LenProperties DEF InSteps
    <3>3. status.index + 1 <= status.index + 1 /\ step = spec.steps[status.index + 1]
      BY <1>1 DEF StepAt
    <3> HIDE DEF step
    <3> QED
      BY <3>2, <3>3 DEF Reached
  <2> HIDE DEF at, step
  <2> QED
    BY <2>1, <2>3, <2>4, <1>1, <1>3, <1>4
<1>10. CASE /\ InSteps(spec, status.index) /\ step.pause = "none"
            /\ step.weight # Unset /\ status.weight = step.weight /\ passed
  <2>1. decision = Decide(at("Progressing", status.index + 1),
                          NextWeight(spec, status.index, status.weight), total, TRUE)
    BY <1>10 DEF Evaluate
  <2>2. NextWeight(spec, status.index, status.weight) \in 0..100
    BY <1>1, NextWeightType
  <2>3. Reached(NextWeight(spec, status.index, status.weight), status.index + 1)
    BY <1>1, NextReached
  <2> HIDE DEF at, step
  <2> QED
    BY <2>1, <2>2, <2>3, <1>1, <1>3, <1>4
<1>11. CASE /\ InSteps(spec, status.index) /\ step.pause = "none"
            /\ step.weight # Unset /\ status.weight = step.weight /\ ~passed
  <2>1. decision = AwaitHealth(spec, status, ready, desired, total, healthy)
    BY <1>11 DEF Evaluate
  <2> QED
    BY <2>1, AwaitHealthWalks
<1> QED
  BY <1>6, <1>7, <1>8, <1>9, <1>10, <1>11
-----------------------------------------------------------------------------
(* What the controller does. *)

\* What a decision does to the reconcile in hand and to the canary.
LEMMA ApplyWalks ==
    ASSUME TypeOK, NEW decision \in Decisions, NEW made, NEW probed \in BOOLEAN,
           Apply(decision, made, probed)
    PROVE  /\ roc'.step = "scale"
           /\ roc'.status = decision.status
           /\ roc'.canary \in {decision.canary, Unset}
           /\ canary'.replicas \in {canary.replicas, 0}
           /\ current' = (roWatch = << >>)
           /\ UNCHANGED <<spec, ro, roWatch, roCache, due>>
<1> DEFINE toCanary == Scale(CanarySeen(made), decision.canary)
           toStable == Scale(depCache.stable, decision.stable)
<1>1. toCanary \in {decision.canary, Unset}
  BY DEF Scale
<1>2. roc' = [step |-> "scale", action |-> "none", status |-> decision.status,
              stable |-> toStable, canary |-> toCanary,
              again |-> decision.again, probed |-> probed]
  BY DEF Apply
<1>3. roc'.step = "scale" /\ roc'.status = decision.status /\ roc'.canary = toCanary
  <2> HIDE DEF toCanary, toStable
  <2> QED
    BY <1>2
<1>4. canary'.replicas \in {canary.replicas, 0}
  <2>1. canary' = canary \/ canary' = NewDeployment(0)
    BY DEF Apply, Ensure
  <2>2. NewDeployment(0).replicas = 0
    BY DEF NewDeployment, NoDeployment
  <2> QED
    BY <2>1, <2>2
<1>5. /\ current' = (roWatch = << >>)
      /\ UNCHANGED <<spec, ro, roWatch, roCache, due>>
  BY DEF Apply, rollout, time
<1> QED
  BY <1>1, <1>3, <1>4, <1>5

\* A reconcile that comes to a decision goes one step on at most from where its copy is.
LEMMA DecisionWalks ==
    ASSUME TypeOK, VersionsReached, HoldAborted \/ HoldPaused \/ RollBackStuck \/ WalkSteps
    PROVE  /\ roc'.step = "scale"
           /\ roc'.status \in Statuses
           /\ roc'.status.index \in {roCache.status.index, roCache.status.index + 1}
           /\ Reached(roc'.status.weight, roc'.status.index)
           /\ spec.replicas # Unset => Allowed(roc'.canary, roc'.status.index)
           /\ canary'.replicas \in {canary.replicas, 0}
           /\ current' = (roWatch = << >>)
           /\ UNCHANGED <<spec, ro, roWatch, roCache, due>>
           /\ roWatch = << >> /\ roc'.status.failures > roCache.status.failures =>
                 \/ due
                 \/ /\ spec.failureThreshold > 0
                    /\ roCache.status.failures >= spec.failureThreshold
<1>1. /\ Seen.status \in Statuses
      /\ Seen.status.index = roCache.status.index
      /\ Seen.status.weight = roCache.status.weight
      /\ Seen.status.failures = roCache.status.failures
  <2>1. Seen.status.failures = roCache.status.failures
    BY DEF Seen, TypeOK, Rollouts, Statuses
  <2> QED
    BY <2>1, SeenType
<1>2. /\ Seen.status.index \in Nat
      /\ Seen.status.weight \in 0..100
      /\ Seen.status.failures \in Nat
  BY <1>1 DEF Statuses
<1>3. Reached(Seen.status.weight, Seen.status.index)
  BY <1>1 DEF VersionsReached, Versions
<1>4. spec \in Specs /\ Total \in Int /\ (spec.replicas # Unset => Total = spec.replicas)
  BY RolloutAssumption, TotalType DEF TypeOK, Total
<1>5. ASSUME NEW decision \in Decisions, NEW made, NEW probed \in BOOLEAN,
             Apply(decision, made, probed),
             decision.status.index \in {Seen.status.index, Seen.status.index + 1},
             Reached(decision.status.weight, decision.status.index),
             decision.canary \in {WeightReplicas(decision.status.weight, Total), 0}
      PROVE  /\ roc'.step = "scale"
             /\ roc'.status = decision.status
             /\ roc'.status \in Statuses
             /\ roc'.status.index \in {roCache.status.index, roCache.status.index + 1}
             /\ Reached(roc'.status.weight, roc'.status.index)
             /\ spec.replicas # Unset => Allowed(roc'.canary, roc'.status.index)
             /\ canary'.replicas \in {canary.replicas, 0}
             /\ current' = (roWatch = << >>)
             /\ UNCHANGED <<spec, ro, roWatch, roCache, due>>
  <2>1. decision.status \in Statuses
    BY DEF Decisions
  <2>2. decision.status.index \in Int /\ decision.status.weight \in 0..100
    BY <2>1 DEF Statuses
  <2>3. Allowed(0, decision.status.index) /\ Allowed(Unset, decision.status.index)
    <3>1. 0 \in Int /\ 0 <= 0 /\ Unset \in Int /\ Unset <= 0
      BY DEF Unset
    <3> QED
      BY <3>1, NothingAllowed
  <2>4. spec.replicas # Unset =>
            Allowed(WeightReplicas(decision.status.weight, Total), decision.status.index)
    BY <1>4, <1>5, <2>2, ReachedAllowed
  <2>5. /\ roc'.step = "scale"
        /\ roc'.status = decision.status
        /\ roc'.canary \in {decision.canary, Unset}
        /\ canary'.replicas \in {canary.replicas, 0}
        /\ current' = (roWatch = << >>)
        /\ UNCHANGED <<spec, ro, roWatch, roCache, due>>
    BY <1>5, ApplyWalks
  <2>6. spec.replicas # Unset => Allowed(roc'.canary, roc'.status.index)
    BY <1>5, <2>3, <2>4, <2>5
  <2> QED
    BY <1>1, <1>5, <2>1, <2>5, <2>6
<1> DEFINE at(phase) == [Seen.status EXCEPT !.phase = phase]
<1>6. \A phase \in RolloutPhases :
          /\ at(phase) \in Statuses
          /\ at(phase).index = Seen.status.index
          /\ at(phase).weight = Seen.status.weight
          /\ at(phase).failures = Seen.status.failures
  BY <1>1 DEF Statuses
<1>7. "RolledBack" \in RolloutPhases /\ "Paused" \in RolloutPhases
  BY DEF RolloutPhases
<1>8. ASSUME NEW phase \in RolloutPhases, NEW weight \in 0..100, NEW again \in BOOLEAN,
             weight \in {0, Seen.status.weight},
             NEW made, Apply(Decide(at(phase), weight, Total, again), made, FALSE)
      PROVE  /\ roc'.step = "scale"
             /\ roc'.status \in Statuses
             /\ roc'.status.index \in {roCache.status.index, roCache.status.index + 1}
             /\ Reached(roc'.status.weight, roc'.status.index)
             /\ spec.replicas # Unset => Allowed(roc'.canary, roc'.status.index)
             /\ canary'.replicas \in {canary.replicas, 0}
             /\ current' = (roWatch = << >>)
             /\ UNCHANGED <<spec, ro, roWatch, roCache, due>>
             /\ ~(roc'.status.failures > roCache.status.failures)
  <2> DEFINE decision == Decide(at(phase), weight, Total, again)
  <2>1. /\ at(phase) \in Statuses
        /\ at(phase).index = Seen.status.index
        /\ at(phase).failures = Seen.status.failures
    BY <1>6
  <2> HIDE DEF at
  <2>2. /\ decision \in Decisions
        /\ decision.status.index = Seen.status.index
        /\ decision.status.weight = weight
        /\ decision.status.failures = Seen.status.failures
        /\ decision.canary = WeightReplicas(weight, Total)
    <3>1. \A w \in 0..100, a \in BOOLEAN : Decide(at(phase), w, Total, a) \in Decisions
      BY <1>4, <2>1, DecideType
    <3>2. \A w \in 0..100, a \in BOOLEAN :
              /\ Decide(at(phase), w, Total, a).status.index = at(phase).index
              /\ Decide(at(phase), w, Total, a).status.weight = w
              /\ Decide(at(phase), w, Total, a).status.failures = at(phase).failures
              /\ Decide(at(phase), w, Total, a).canary = WeightReplicas(w, Total)
      BY <1>4, <2>1, DecideWalks
    <3> QED
      BY <2>1, <3>1, <3>2
  <2>3. Reached(weight, Seen.status.index)
    BY <1>3, <1>8 DEF Reached
  <2>4. Apply(decision, made, FALSE) /\ FALSE \in BOOLEAN
    BY <1>8
  <2> HIDE DEF decision
  <2>5. /\ decision.status.index \in {Seen.status.index, Seen.status.index + 1}
        /\ Reached(decision.status.weight, decision.status.index)
        /\ decision.canary \in {WeightReplicas(decision.status.weight, Total), 0}
    BY <2>2, <2>3
  <2>6. roc'.status = decision.status
    BY <1>5, <2>2, <2>4, <2>5
  <2>7. ~(roc'.status.failures > roCache.status.failures)
    BY <1>1, <1>2, <2>2, <2>6
  <2> QED
    BY <1>5, <2>2, <2>4, <2>5, <2>7
<1>9. CASE HoldAborted
  <2>1. PICK made : Apply(Decide(at("RolledBack"), 0, Total, FALSE), made, FALSE)
    BY <1>9 DEF HoldAborted
  <2>2. 0 \in 0..100 /\ 0 \in {0, Seen.status.weight} /\ FALSE \in BOOLEAN
    OBVIOUS
  <2> HIDE DEF at
  <2> QED
    BY <1>7, <1>8, <2>1, <2>2
<1>10. CASE HoldPaused
  <2>1. PICK made : Apply(Decide(at("Paused"), Seen.status.weight, Total, TRUE), made, FALSE)
    BY <1>10 DEF HoldPaused
  <2> HIDE DEF at
  <2> QED
    BY <1>2, <1>7, <1>8, <2>1
<1>11. CASE RollBackStuck
  <2> DEFINE decision == [RollbackDecision(Seen.status, Total) EXCEPT !.status = at("RolledBack")]
             counted == [Seen.status EXCEPT !.phase = "RollingBack", !.failures = @ + 1]
  <2>1. PICK made : Apply(decision, made, FALSE)
    BY <1>11 DEF RollBackStuck
  <2>2. decision \in Decisions
    BY HoldTypes
  <2>3. decision.canary = 0
    <3>1. RollbackDecision(Seen.status, Total).canary = WeightReplicas(0, Total)
      BY DEF RollbackDecision, Decide
    <3>2. RollbackDecision(Seen.status, Total) \in Decisions
      BY <1>1, <1>4, RollbackType
    <3> HIDE DEF at
    <3> QED
      BY <1>4, <3>1, <3>2, NoWeight DEF Decisions
  <2>4. decision.status = at("RolledBack")
    <3>1. RollbackDecision(Seen.status, Total) \in Decisions
      BY <1>1, <1>4, RollbackType
    <3> HIDE DEF at
    <3> QED
      BY <3>1 DEF Decisions
  <2>5. /\ decision.status.index = Seen.status.index
        /\ decision.status.weight = Seen.status.weight
        /\ decision.status.failures = Seen.status.failures
    BY <1>6, <1>7, <2>4
  <2>6. FALSE \in BOOLEAN
    OBVIOUS
  <2> HIDE DEF decision
  <2>7. /\ decision.status.index \in {Seen.status.index, Seen.status.index + 1}
        /\ Reached(decision.status.weight, decision.status.index)
        /\ decision.canary \in {WeightReplicas(decision.status.weight, Total), 0}
    BY <1>3, <2>3, <2>5
  <2>8. roc'.status = decision.status
    BY <1>5, <2>1, <2>2, <2>6, <2>7
  <2>9. ~(roc'.status.failures > roCache.status.failures)
    BY <1>1, <1>2, <2>5, <2>8
  <2> QED
    BY <1>5, <2>1, <2>2, <2>6, <2>7, <2>9
<1>12. CASE WalkSteps
  <2> DEFINE ready == depCache.canary.ready
             desired == depCache.canary.replicas
             over == elapsed /\ Seen.pauseStart = Seen.status.index
  <2>1. PICK made \in SUBSET Lacking, p \in Probe(desired > 0 /\ ready >= desired) :
            Apply(Evaluate(spec, Seen.status, over, ready, desired, Total, p.healthy),
                  made, p.probed)
    BY <1>12 DEF WalkSteps
  <2>2. p.probed \in BOOLEAN /\ p.healthy \in BOOLEAN
    <3>1. due \in BOOLEAN
      BY DEF TypeOK
    <3> QED
      BY <3>1 DEF Probe
  <2>3. ready \in Int /\ desired \in Int /\ over \in BOOLEAN
    BY DEF TypeOK, Deployments
  <2> DEFINE decision == Evaluate(spec, Seen.status, over, ready, desired, Total, p.healthy)
  <2>4. roWatch = << >> /\ desired > 0 /\ ready >= desired /\ ~p.healthy => due
    <3>1. roWatch = << >> => p.probed = due
      BY DEF Probe
    <3>2. desired > 0 /\ ready >= desired /\ ~p.healthy => p.probed
      BY <2>2 DEF Probe
    <3> QED
      BY <3>1, <3>2
  <2> HIDE DEF ready, desired, over
  <2>5. decision \in Decisions
    BY <1>1, <1>4, <2>2, <2>3, EvaluateType
  <2>6. /\ Walks(decision, Seen.status, Total)
        /\ decision.status.failures > Seen.status.failures =>
              \/ desired > 0 /\ ready >= desired /\ ~p.healthy
              \/ spec.failureThreshold > 0 /\ Seen.status.failures >= spec.failureThreshold
    BY <1>1, <1>3, <1>4, <2>2, <2>3, EvaluateWalks
  <2>7. Apply(decision, made, p.probed)
    BY <2>1
  <2> HIDE DEF decision
  <2>8. /\ roc'.step = "scale"
        /\ roc'.status = decision.status
        /\ roc'.status \in Statuses
        /\ roc'.status.index \in {roCache.status.index, roCache.status.index + 1}
        /\ Reached(roc'.status.weight, roc'.status.index)
        /\ spec.replicas # Unset => Allowed(roc'.canary, roc'.status.index)
        /\ canary'.replicas \in {canary.replicas, 0}
        /\ current' = (roWatch = << >>)
        /\ UNCHANGED <<spec, ro, roWatch, roCache, due>>
    BY <1>5, <2>2, <2>5, <2>6, <2>7 DEF Walks
  <2> QED
    BY <1>1, <2>4, <2>6, <2>8
<1> HIDE DEF at
<1> QED
  BY <1>9, <1>10, <1>11, <1>12

\* A command is obeyed on the status as it is: it moves the rollout one step on at most,
\* and counts no failure.
LEMMA CommandWalks ==
    ASSUME TypeOK, DecisionsHeed, VersionsReached, ObeyPause \/ ObeyPromote \/ ObeyRollback
    PROVE  /\ roc.step = "command"
           /\ roc'.step = "status"
           /\ roc'.status.index \in {ro.status.index, ro.status.index + 1}
           /\ Reached(roc'.status.weight, roc'.status.index)
           /\ roc'.status.failures = ro.status.failures
<1>1. /\ ro.status \in Statuses /\ roc \in Reconciles /\ spec \in Specs
      /\ ro.status.index \in Nat
  BY RolloutAssumption DEF TypeOK, Rollouts, Statuses
<1>2. roc.step = "command" /\ roc.status = ro.status
  BY DEF DecisionsHeed, CommandCopyHolds, ObeyPause, ObeyPromote, ObeyRollback, Commanded
<1>3. Reached(ro.status.weight, ro.status.index)
  BY DEF VersionsReached, Versions
<1>4. ASSUME NEW status, Obey(status) PROVE roc'.step = "status" /\ roc'.status = status
  BY <1>1, <1>4 DEF Obey, Reconciles
<1>5. ASSUME NEW phase, Obey([ro.status EXCEPT !.phase = phase])
      PROVE  /\ roc'.step = "status"
             /\ roc'.status.index = ro.status.index
             /\ roc'.status.weight = ro.status.weight
             /\ roc'.status.failures = ro.status.failures
  BY <1>1, <1>4, <1>5 DEF Statuses
<1>6. CASE Obey(ro.status)
  BY <1>2, <1>3, <1>4, <1>6
<1>7. CASE \E phase : Obey([ro.status EXCEPT !.phase = phase])
  BY <1>2, <1>3, <1>5, <1>7
<1>8. CASE Obey(Promoted(ro.status)) /\ InSteps(spec, ro.status.index)
  <2> DEFINE weight == NextWeight(spec, ro.status.index, ro.status.weight)
  <2>1. Reached(weight, ro.status.index + 1)
    BY <1>1, <1>3, NextReached
  <2>2. /\ Promoted(ro.status).index = ro.status.index + 1
        /\ Promoted(ro.status).weight = weight
        /\ Promoted(ro.status).failures = ro.status.failures
    BY <1>1, <1>8 DEF Promoted, Statuses
  <2>3. roc'.step = "status" /\ roc'.status = Promoted(ro.status)
    BY <1>4, <1>8
  <2> HIDE DEF weight
  <2> QED
    BY <1>2, <2>1, <2>2, <2>3
<1>9. \/ Obey(ro.status)
      \/ \E phase : Obey([ro.status EXCEPT !.phase = phase])
      \/ Obey(Promoted(ro.status)) /\ InSteps(spec, ro.status.index)
  <2>1. ObeyPause => Obey(ro.status) \/ \E phase : Obey([ro.status EXCEPT !.phase = phase])
    BY <1>2 DEF ObeyPause
  <2>2. ObeyRollback => \E phase : Obey([ro.status EXCEPT !.phase = phase])
    BY <1>2 DEF ObeyRollback
  <2>3. ObeyPromote => Obey(ro.status) \/ Obey(Promoted(ro.status))
    BY <1>2 DEF ObeyPromote
  <2>4. ~InSteps(spec, ro.status.index) =>
            Promoted(ro.status) = [ro.status EXCEPT !.phase = "Healthy"]
    BY DEF Promoted
  <2> QED
    BY <2>1, <2>2, <2>3, <2>4
<1> QED
  BY <1>6, <1>7, <1>8, <1>9

\* A write adds the Rollout as written to the versions, and the streams deliver what
\* they have.
LEMMA PatchVersions ==
    ASSUME TypeOK, NEW obj \in Rollouts, Patch(obj) \/ NewVersion(obj), UNCHANGED roCache
    PROVE  Versions' \subseteq Versions \cup {ro'}
<1>1. roWatch \in Seq(Rollouts)
  BY DEF TypeOK
<1>2. CASE UNCHANGED rollout
  BY <1>2 DEF rollout, Versions
<1>3. CASE NewVersion(obj)
  <2>1. /\ ro' = obj
        /\ Len(roWatch') = Len(roWatch) + 1
        /\ \A i \in 1..Len(roWatch) : roWatch'[i] = roWatch[i]
        /\ roWatch'[Len(roWatch) + 1] = obj
    BY <1>1, <1>3, AppendProperties DEF NewVersion
  <2>2. Len(roWatch) \in Nat
    BY <1>1, LenProperties
  <2>3. ASSUME NEW i \in 1..Len(roWatch') PROVE roWatch'[i] \in Versions \cup {ro'}
    <3>1. i \in 1..Len(roWatch) \/ i = Len(roWatch) + 1
      BY <2>1, <2>2
    <3> QED
      BY <2>1, <3>1 DEF Versions
  <2> QED
    BY <2>3 DEF Versions
<1> QED
  BY <1>2, <1>3 DEF Patch

\* What a step does to the Rollout: it is written, and only the status update of a
\* reconcile whose copy is current writes the status.
LEMMA StepVersions ==
    ASSUME TypeOK, DecisionsHeed, [Next]_vars
    PROVE  /\ spec' = spec
           /\ Versions' \subseteq Versions \cup {ro'}
           /\ \/ ro'.status = ro.status
              \/ UpdateStatus /\ current /\ ro'.status = roc.status
<1>1. ro \in Rollouts /\ roWatch \in Seq(Rollouts) /\ roc.status \in Statuses
  BY DEF TypeOK, Reconciles
<1>2. spec' = spec
  BY DEF Next, Reconcile, vars, SyncRollout, SyncDeployments, TimerFires, PodsFollow, PodsFail,
     HealthCheckDue, PauseElapses, RolloutControl, ClearCommand, ObeyPause, ObeyPromote,
     ObeyRollback, Obey, HoldAborted, HoldPaused, HoldTerminal, StampPause, RollBackStuck,
     WalkSteps, Apply, ApplyDecision, UpdateStatus, CallFails, Restart
<1>3. ASSUME NEW obj \in Rollouts, Patch(obj) \/ NewVersion(obj), UNCHANGED roCache,
             obj.status = ro.status
      PROVE  Versions' \subseteq Versions \cup {ro'} /\ ro'.status = ro.status
  <2>1. ro' = obj
    BY <1>3 DEF Patch, NewVersion, rollout
  <2> QED
    BY <1>3, <2>1, PatchVersions
<1>4. \A action \in Actions \cup {"none"}, paused \in BOOLEAN, aborted \in BOOLEAN,
         start \in Nat :
          /\ [ro EXCEPT !.action = action] \in Rollouts
          /\ [ro EXCEPT !.action = action].status = ro.status
          /\ [ro EXCEPT !.paused = paused] \in Rollouts
          /\ [ro EXCEPT !.paused = paused].status = ro.status
          /\ [ro EXCEPT !.paused = paused, !.aborted = aborted] \in Rollouts
          /\ [ro EXCEPT !.paused = paused, !.aborted = aborted].status = ro.status
          /\ [ro EXCEPT !.pauseStart = start] \in Rollouts
          /\ [ro EXCEPT !.pauseStart = start].status = ro.status
  BY <1>1 DEF Rollouts
<1>5. UNCHANGED <<ro, roWatch, roCache>> => Versions' \subseteq Versions /\ ro'.status = ro.status
  BY DEF Versions
<1>6. CASE SyncRollout
  <2>1. /\ roWatch # << >> /\ roCache' = Head(roWatch) /\ roWatch' = Tail(roWatch) /\ ro' = ro
    BY <1>6 DEF SyncRollout
  <2>2. /\ Head(roWatch) = roWatch[1]
        /\ Len(Tail(roWatch)) = Len(roWatch) - 1
        /\ \A i \in 1..(Len(roWatch) - 1) : Tail(roWatch)[i] = roWatch[i + 1]
    BY <1>1, <2>1, HeadTailProperties
  <2>3. Len(roWatch) \in Nat /\ Len(roWatch) >= 1
    BY <1>1, <2>1, EmptySeq, LenProperties
  <2>4. roCache' \in Versions
    BY <2>1, <2>2, <2>3 DEF Versions
  <2>5. ASSUME NEW i \in 1..Len(roWatch') PROVE roWatch'[i] \in Versions
    <3>1. i \in 1..(Len(roWatch) - 1) /\ i + 1 \in 1..Len(roWatch)
      BY <2>1, <2>2, <2>3
    <3> QED
      BY <2>1, <2>2, <3>1 DEF Versions
  <2> QED
    BY <1>2, <2>1, <2>4, <2>5 DEF Versions
<1>7. CASE \E action \in Actions : RolloutControl(action)
  BY <1>2, <1>3, <1>4, <1>7 DEF RolloutControl
<1>8. CASE ClearCommand
  BY <1>2, <1>3, <1>4, <1>8 DEF ClearCommand
<1>9. CASE ObeyPause
  BY <1>2, <1>3, <1>4, <1>5, <1>9 DEF ObeyPause, Obey, Flag, rollout
<1>10. CASE ObeyPromote
  BY <1>2, <1>3, <1>4, <1>5, <1>10 DEF ObeyPromote, Obey, Flag, rollout
<1>11. CASE ObeyRollback
  BY <1>2, <1>3, <1>4, <1>11 DEF ObeyRollback, Obey, Flag
<1>12. CASE StampPause
  <2>1. Seen.status.index \in Nat
    BY SeenType DEF Statuses
  <2> QED
    BY <1>2, <1>3, <1>4, <1>12, <2>1 DEF StampPause
<1>13. CASE UpdateStatus
  <2>1. CASE ~current
    BY <1>2, <1>5, <1>13, <2>1 DEF UpdateStatus, rollout
  <2>2. CASE current
    <3> DEFINE obj == [ro EXCEPT !.status = roc.status]
    <3>1. obj \in Rollouts /\ obj.status = roc.status
      BY <1>1 DEF Rollouts
    <3>2. (Patch(obj) \/ NewVersion(obj)) /\ UNCHANGED roCache
      BY <1>13, <2>2 DEF UpdateStatus
    <3> HIDE DEF obj
    <3>3. ro' = obj
      BY <3>2 DEF Patch, NewVersion, rollout
    <3> QED
      BY <1>2, <1>13, <2>2, <3>1, <3>2, <3>3, PatchVersions
  <2> QED
    BY <2>1, <2>2
<1>14. CASE Restart
  <2>1. ro' = ro /\ roCache' = ro /\ roWatch' = << >>
    BY <1>14 DEF Restart
  <2>2. Len(roWatch') = 0
    <3>1. Len(<< >>) = 0
      OBVIOUS
    <3> QED
      BY <2>1, <3>1, Zenon
  <2> QED
    BY <1>2, <2>1, <2>2 DEF Versions
<1>15. CASE HoldAborted \/ HoldPaused \/ RollBackStuck \/ WalkSteps
  <2>1. UNCHANGED <<ro, roWatch, roCache>>
    BY <1>15, DecisionType
  <2> QED
    BY <1>2, <1>5, <2>1
<1>16. CASE SyncDeployments \/ TimerFires \/ PodsFollow \/ PodsFail \/ HealthCheckDue
            \/ PauseElapses \/ HoldTerminal \/ ApplyDecision \/ CallFails \/ UNCHANGED vars
  BY <1>2, <1>5, <1>16 DEF SyncDeployments, TimerFires, PodsFollow, PodsFail, HealthCheckDue,
     PauseElapses, HoldTerminal, ApplyDecision, CallFails, rollout, vars
<1> QED
  BY <1>6, <1>7, <1>8, <1>9, <1>10, <1>11, <1>12, <1>13, <1>14, <1>15, <1>16
     DEF Next, Reconcile
-----------------------------------------------------------------------------
(* The invariants. *)

\* What a step does to the reconcile in hand and to the canary: nothing, the reconcile
\* ends, a command is taken up or obeyed, a decision is taken, or it is applied.
LEMMA StepPlans ==
    ASSUME TypeOK, DecisionsHeed, VersionsReached, [Next]_vars
    PROVE  \/ /\ UNCHANGED roc
              /\ current' => current
              /\ due => due'
              /\ ro'.status = ro.status
              /\ canary'.replicas = canary.replicas
           \/ roc'.step = "idle" /\ canary'.replicas = canary.replicas
           \/ /\ roc'.step \in {"command", "status"}
              /\ roc'.status.index \in {ro.status.index, ro.status.index + 1}
              /\ Reached(roc'.status.weight, roc'.status.index)
              /\ roc'.status.failures = ro.status.failures
              /\ ro'.status = ro.status
              /\ canary'.replicas = canary.replicas
           \/ HoldAborted \/ HoldPaused \/ RollBackStuck \/ WalkSteps
           \/ /\ roc.step = "scale"
              /\ roc'.step = "status" /\ roc'.status = roc.status
              /\ UNCHANGED <<ro, current, due>>
              /\ canary'.replicas \in {canary.replicas, roc.canary}
<1>1. /\ ro \in Rollouts /\ ro.status \in Statuses /\ canary \in Deployments
      /\ roc \in Reconciles
  BY DEF TypeOK, Rollouts
<1>2. \/ ro'.status = ro.status
      \/ UpdateStatus /\ current /\ ro'.status = roc.status
  BY StepVersions
<1>3. UpdateStatus => roc.step = "status" /\ roc'.step = "idle" /\ UNCHANGED canary
  BY DEF UpdateStatus, RoIdle, deployments
<1>4. CASE PodsFollow \/ PodsFail
  <2>1. canary'.replicas = canary.replicas
    BY <1>1, <1>4 DEF PodsFollow, PodsFail, Deployments
  <2>2. UNCHANGED <<roc, current, due, ro>>
    BY <1>4 DEF PodsFollow, PodsFail, control, time, rollout
  <2> QED
    BY <2>1, <2>2
<1>5. CASE SyncRollout \/ SyncDeployments \/ TimerFires \/ PauseElapses \/ HoldTerminal
           \/ StampPause \/ UNCHANGED vars
  <2>1. UNCHANGED <<roc, current, due, canary>> /\ ~UpdateStatus
    <3>1. UNCHANGED <<roc, current, due, canary>>
      BY <1>5 DEF SyncRollout, SyncDeployments, TimerFires, PauseElapses, HoldTerminal,
         StampPause, vars, control, time, deployments
    <3> QED
      BY <1>3, <3>1 DEF UpdateStatus
  <2> QED
    BY <1>2, <2>1
<1>6. CASE HealthCheckDue
  BY <1>6 DEF HealthCheckDue, control, rollout, deployments
<1>7. CASE \E action \in Actions : RolloutControl(action)
  <2>1. UNCHANGED <<roc, due, canary>> /\ (current' => current) /\ ~UpdateStatus
    <3>1. UNCHANGED <<roc, due, canary>> /\ (current' => current)
      BY <1>7 DEF RolloutControl, time, deployments
    <3> QED
      BY <1>3, <3>1 DEF UpdateStatus
  <2> QED
    BY <1>2, <2>1
<1>8. CASE ClearCommand
  <2>1. roc' = [RoIdle EXCEPT !.step = "command", !.action = Seen.action,
                              !.status = ro.status, !.again = TRUE]
    BY <1>8 DEF ClearCommand
  <2>2. roc'.step = "command" /\ roc'.status = ro.status
    BY <2>1 DEF RoIdle
  <2>3. ro'.status = ro.status /\ UNCHANGED canary
    BY <1>2, <1>3, <1>8, <2>2 DEF ClearCommand, deployments
  <2>4. Reached(ro.status.weight, ro.status.index)
    BY DEF VersionsReached, Versions
  <2> QED
    BY <2>2, <2>3, <2>4
<1>9. CASE ObeyPause \/ ObeyPromote \/ ObeyRollback
  <2>1. UNCHANGED canary
    BY <1>9 DEF ObeyPause, ObeyPromote, ObeyRollback, Obey, deployments
  <2> QED
    BY <1>2, <1>3, <1>9, <2>1, CommandWalks
<1>10. CASE ApplyDecision
  <2>1. roc.step = "scale" /\ UNCHANGED <<ro, current, due>>
    BY <1>10 DEF ApplyDecision, rollout, time
  <2>2. roc' = [roc EXCEPT !.step = "status", !.stable = Unset, !.canary = Unset]
    BY <1>10 DEF ApplyDecision
  <2>3. roc'.step = "status" /\ roc'.status = roc.status
    BY <1>1, <2>2 DEF Reconciles
  <2>4. canary' = canary \/ canary' = [canary EXCEPT !.replicas = roc.canary]
    BY <1>10 DEF ApplyDecision
  <2>5. canary'.replicas \in {canary.replicas, roc.canary}
    BY <1>1, <2>4 DEF Deployments
  <2> QED
    BY <2>1, <2>3, <2>5
<1>11. CASE CallFails \/ Restart
  BY <1>11 DEF CallFails, Restart, RoIdle, deployments
<1> QED
  BY <1>3, <1>4, <1>5, <1>6, <1>7, <1>8, <1>9, <1>10, <1>11 DEF Next, Reconcile

LEMMA StepKeepsWalk ==
    ASSUME TypeOK, DecisionsHeed, WalkHolds, [Next]_vars
    PROVE  WalkHolds'
<1>1. /\ ro.status.index \in Nat /\ roCache.status.index \in Nat /\ roc.status.index \in Nat
      /\ roc.canary \in Int /\ canary.replicas \in Int /\ spec \in Specs
  BY RolloutAssumption DEF TypeOK, Rollouts, Reconciles, Statuses, Deployments
<1>2. VersionsReached /\ PlanReached /\ ScalesAllowed
  BY DEF WalkHolds
<1>3. /\ spec' = spec
      /\ Versions' \subseteq Versions \cup {ro'}
      /\ \/ ro'.status = ro.status
         \/ UpdateStatus /\ current /\ ro'.status = roc.status
  BY StepVersions
<1>4. /\ ro'.status.index \in Nat /\ ro.status.index <= ro'.status.index
      /\ Reached(ro'.status.weight, ro'.status.index)
  <2>1. CASE ro'.status = ro.status
    BY <1>1, <1>2, <2>1 DEF VersionsReached, Versions
  <2>2. CASE UpdateStatus /\ current /\ ro'.status = roc.status
    BY <1>1, <1>2, <2>2 DEF PlanReached, Deciding, UpdateStatus
  <2> QED
    BY <1>3, <2>1, <2>2
<1>5. VersionsReached'
  <2>1. ASSUME NEW v \in Versions'
        PROVE  v.status.index <= ro'.status.index /\ Reached(v.status.weight, v.status.index)
    <3>1. CASE v = ro'
      BY <1>4, <3>1
    <3>2. CASE v \in Versions
      <4>1. v.status.index \in Nat
        <5>1. v \in Rollouts
          <6>1. \A i \in 1..Len(roWatch) : roWatch[i] \in Rollouts
            BY ElementOfSeq DEF TypeOK
          <6> QED
            BY <3>2, <6>1 DEF TypeOK, Versions
        <5> QED
          BY <5>1 DEF Rollouts, Statuses
      <4>2. v.status.index <= ro.status.index /\ Reached(v.status.weight, v.status.index)
        BY <1>2, <3>2 DEF VersionsReached
      <4> QED
        BY <1>1, <1>4, <4>1, <4>2
    <3> QED
      BY <1>3, <2>1, <3>1, <3>2
  <2> QED
    BY <1>3, <2>1 DEF VersionsReached, Reached
<1>6. roCache.status.index <= ro.status.index
  BY <1>2 DEF VersionsReached, Versions
<1>7. CASE /\ UNCHANGED roc /\ (current' => current) /\ ro'.status = ro.status
           /\ canary'.replicas = canary.replicas
  <2>1. PlanReached'
    BY <1>2, <1>3, <1>7 DEF PlanReached, Deciding, Reached
  <2>2. ScalesAllowed'
    BY <1>2, <1>3, <1>7 DEF ScalesAllowed, Allowed
  <2> QED
    BY <1>5, <2>1, <2>2 DEF WalkHolds
<1>8. ASSUME canary'.replicas = canary.replicas
      PROVE  spec.replicas # Unset => Allowed(canary'.replicas, ro'.status.index + 1)
  <2>1. ro.status.index + 1 <= ro'.status.index + 1
    BY <1>1, <1>4
  <2>2. spec.replicas # Unset => Allowed(canary.replicas, ro.status.index + 1)
    BY <1>2 DEF ScalesAllowed
  <2>3. spec.replicas # Unset => Allowed(canary.replicas, ro'.status.index + 1)
    BY <1>1, <1>4, <2>1, <2>2, AllowedGrows
  <2> QED
    BY <1>8, <2>3
<1>9. CASE roc'.step = "idle" /\ canary'.replicas = canary.replicas
  <2>1. PlanReached'
    BY <1>9 DEF PlanReached
  <2>2. ScalesAllowed'
    BY <1>3, <1>8, <1>9 DEF ScalesAllowed, Allowed
  <2> QED
    BY <1>5, <2>1, <2>2 DEF WalkHolds
<1>10. CASE /\ roc'.step \in {"command", "status"}
            /\ roc'.status.index \in {ro.status.index, ro.status.index + 1}
            /\ Reached(roc'.status.weight, roc'.status.index)
            /\ ro'.status = ro.status
            /\ canary'.replicas = canary.replicas
  <2>1. PlanReached'
    BY <1>1, <1>3, <1>10 DEF PlanReached, Reached
  <2>2. ScalesAllowed'
    BY <1>3, <1>8, <1>10 DEF ScalesAllowed, Allowed
  <2> QED
    BY <1>5, <2>1, <2>2 DEF WalkHolds
<1>11. CASE HoldAborted \/ HoldPaused \/ RollBackStuck \/ WalkSteps
  <2>1. /\ roc'.step = "scale"
        /\ roc'.status.index \in {roCache.status.index, roCache.status.index + 1}
        /\ Reached(roc'.status.weight, roc'.status.index)
        /\ spec.replicas # Unset => Allowed(roc'.canary, roc'.status.index)
        /\ canary'.replicas \in {canary.replicas, 0}
        /\ current' = (roWatch = << >>)
        /\ ro' = ro
    BY <1>2, <1>11, DecisionWalks
  <2>2. current' => roCache = ro
    BY <2>1 DEF DecisionsHeed, CacheCatchesUp
  <2>3. PlanReached'
    <3>1. roc'.status.index <= ro'.status.index + 1
      BY <1>1, <1>6, <2>1
    <3>2. current' => ro'.status.index <= roc'.status.index
      BY <1>1, <2>1, <2>2
    <3> QED
      BY <1>3, <2>1, <3>1, <3>2 DEF PlanReached, Reached
  <2>4. spec.replicas # Unset => Allowed(canary'.replicas, ro'.status.index + 1)
    <3>1. Allowed(0, ro'.status.index + 1)
      <4>1. 0 \in Int /\ 0 <= 0
        OBVIOUS
      <4> QED
        BY <4>1, NothingAllowed
    <3> QED
      BY <1>8, <2>1, <3>1
  <2>5. ScalesAllowed'
    BY <1>3, <2>1, <2>4 DEF ScalesAllowed, Allowed
  <2> QED
    BY <1>5, <2>3, <2>5 DEF WalkHolds
<1>12. CASE /\ roc.step = "scale"
            /\ roc'.step = "status" /\ roc'.status = roc.status
            /\ UNCHANGED <<ro, current>>
            /\ canary'.replicas \in {canary.replicas, roc.canary}
  <2>1. PlanReached'
    BY <1>2, <1>3, <1>12 DEF PlanReached, Deciding, Reached
  <2>2. spec.replicas # Unset => Allowed(roc.canary, ro.status.index + 1)
    <3>1. roc.status.index <= ro.status.index + 1
      BY <1>2, <1>12 DEF PlanReached
    <3>2. spec.replicas # Unset => Allowed(roc.canary, roc.status.index)
      BY <1>2, <1>12 DEF ScalesAllowed
    <3>3. ro.status.index + 1 \in Int /\ roc.status.index \in Int
      BY <1>1
    <3> QED
      BY <1>1, <3>1, <3>2, <3>3, AllowedGrows
  <2>3. ScalesAllowed'
    BY <1>3, <1>8, <1>12, <2>2 DEF ScalesAllowed, Allowed
  <2> QED
    BY <1>5, <2>1, <2>3 DEF WalkHolds
<1> QED
  BY <1>2, <1>7, <1>9, <1>10, <1>11, <1>12, StepPlans

LEMMA WalkIsKept == Spec => []WalkHolds
<1>1. Init => WalkHolds
  <2> SUFFICES ASSUME Init PROVE WalkHolds
    OBVIOUS
  <2>1. ro = NewRollout /\ roCache = NewRollout /\ roWatch = << >> /\ roc.step = "idle"
        /\ canary.replicas = 0
    BY DEF Init, RoIdle, NoDeployment
  <2>2. Len(roWatch) = 0
    <3>1. Len(<< >>) = 0
      OBVIOUS
    <3> QED
      BY <2>1, <3>1, Zenon
  <2>3. Versions = {NewRollout}
    BY <2>1, <2>2 DEF Versions
  <2>4. NewRollout.status.index = 0 /\ NewRollout.status.weight = 0
    BY DEF NewRollout
  <2>5. VersionsReached
    BY <2>1, <2>3, <2>4 DEF VersionsReached, Reached
  <2> QED
    BY <2>1, <2>5 DEF WalkHolds, PlanReached, ScalesAllowed, Allowed
<1>2. TypeOK /\ DecisionsHeed /\ WalkHolds /\ [Next]_vars => WalkHolds'
  BY StepKeepsWalk
<1> QED
  BY <1>1, <1>2, TypeCorrect, CopiesAreCurrent, PTL DEF Spec

\* The canary never has more replicas than a step up to the next one gives it, for every
\* plan, however old the copies it was scaled from (Evaluate, applyControlCommand).
THEOREM ExposureIsBounded == Spec => []ExposureBounded
<1>1. TypeOK /\ WalkHolds => ExposureBounded
  <2> SUFFICES ASSUME TypeOK, WalkHolds, spec.replicas # Unset, canary.replicas > 0
               PROVE  \E i \in 1..Len(spec.steps) :
                          /\ i <= ro.status.index + 2
                          /\ spec.steps[i].weight # Unset
                          /\ canary.replicas <= WeightReplicas(spec.steps[i].weight, spec.replicas)
    BY DEF ExposureBounded
  <2>1. PICK i \in 1..Len(spec.steps) :
            /\ i <= (ro.status.index + 1) + 1
            /\ spec.steps[i].weight # Unset
            /\ canary.replicas <= WeightReplicas(spec.steps[i].weight, spec.replicas)
    BY DEF WalkHolds, ScalesAllowed, Allowed
  <2>2. ro.status.index \in Nat
    BY DEF TypeOK, Rollouts, Statuses
  <2>3. i <= ro.status.index + 2
    BY <2>1, <2>2
  <2> QED
    BY <2>1, <2>3
<1> QED
  BY <1>1, TypeCorrect, WalkIsKept, PTL

LEMMA StepKeepsPacing ==
    ASSUME TypeOK, DecisionsHeed, VersionsReached, PacingHolds, [Next]_vars
    PROVE  PacingHolds'
<1>1. /\ ro.status.failures \in Nat /\ roc.status.failures \in Nat
      /\ roCache.status.failures \in Nat
  BY DEF TypeOK, Rollouts, Reconciles, Statuses
<1>2. spec' = spec
  BY StepVersions
<1>3. CASE /\ UNCHANGED roc /\ (current' => current) /\ (due => due')
           /\ ro'.status = ro.status
  BY <1>2, <1>3 DEF PacingHolds, Deciding, GivenUp
<1>4. CASE roc'.step = "idle"
  BY <1>4 DEF PacingHolds, Deciding
<1>5. CASE roc'.status.failures = ro.status.failures /\ ro'.status = ro.status
  <2>1. ~(roc'.status.failures > ro'.status.failures)
    BY <1>1, <1>5
  <2> QED
    BY <2>1 DEF PacingHolds
<1>6. CASE HoldAborted \/ HoldPaused \/ RollBackStuck \/ WalkSteps
  <2>1. /\ current' = (roWatch = << >>)
        /\ UNCHANGED <<ro, due>>
        /\ roWatch = << >> /\ roc'.status.failures > roCache.status.failures =>
              \/ due
              \/ /\ spec.failureThreshold > 0
                 /\ roCache.status.failures >= spec.failureThreshold
    BY <1>6, DecisionWalks
  <2>2. roWatch = << >> => roCache = ro
    BY DEF DecisionsHeed, CacheCatchesUp
  <2> QED
    BY <1>2, <2>1, <2>2 DEF PacingHolds, GivenUp
<1>7. CASE /\ roc.step = "scale" /\ roc'.status = roc.status
           /\ UNCHANGED <<ro, current, due>>
  BY <1>2, <1>7 DEF PacingHolds, Deciding, GivenUp
<1> QED
  BY <1>3, <1>4, <1>5, <1>6, <1>7, StepPlans

\* Below the threshold a failure is counted only after a check that was due, for every
\* plan and whatever the operator commands (the pacing of the active probe in Reconcile).
THEOREM FailuresArePaced == Spec => PacedFailures
<1>1. Init => PacingHolds
  BY DEF Init, PacingHolds, Deciding, RoIdle
<1>2. TypeOK /\ DecisionsHeed /\ WalkHolds /\ PacingHolds /\ [Next]_vars => PacingHolds'
  BY StepKeepsPacing DEF WalkHolds
<1>3. TypeOK /\ DecisionsHeed /\ PacingHolds /\ [Next]_vars
        => [ro'.status.failures > ro.status.failures => due \/ GivenUp]_vars
  <2> SUFFICES ASSUME TypeOK, DecisionsHeed, PacingHolds, [Next]_vars,
                      ro'.status.failures > ro.status.failures
               PROVE  due \/ GivenUp
    OBVIOUS
  <2>1. \/ ro'.status = ro.status
        \/ UpdateStatus /\ current /\ ro'.status = roc.status
    BY StepVersions
  <2>2. ro.status.failures \in Nat
    BY DEF TypeOK, Rollouts, Statuses
  <2>3. UpdateStatus /\ current /\ ro'.status = roc.status
    BY <2>1, <2>2
  <2> QED
    BY <2>3 DEF PacingHolds, Deciding, UpdateStatus
<1> QED
  BY <1>1, <1>2, <1>3, TypeCorrect, CopiesAreCurrent, WalkIsKept, PTL DEF Spec, PacedFailures
-----------------------------------------------------------------------------
(* The two Deployments share the replicas of the Rollout. *)

\* A decision gives every replica to one of the Deployments, and none to both.
Splits(decision, total) ==
    /\ decision.canary \in 0..total /\ decision.stable \in 0..total
    /\ decision.canary + decision.stable = total

\* A weight of at most 100 per cent takes a share of the replicas.
LEMMA WeightIsShare ==
    ASSUME NEW weight \in 0..100, NEW total \in Nat
    PROVE  WeightReplicas(weight, total) \in 0..total
<1>1. CASE total = 0
  BY <1>1 DEF WeightReplicas
<1>2. CASE total > 0
  <2>1. PICK product : product = weight * total
    OBVIOUS
  <2>2. product \in Nat /\ product <= 100 * total
    <3>1. \A n \in Nat, m \in Nat : n * m \in Nat
      OBVIOUS
    <3>2. (100 - weight) * total \in Nat
      BY <3>1
    <3>3. (100 - weight) * total = 100 * total - weight * total
      OBVIOUS
    <3> QED
      BY <2>1, <3>1, <3>2, <3>3
  <2>3. product \div 100 \in 0..total
    BY <2>2
  <2> QED
    BY <1>2, <2>1, <2>3 DEF WeightReplicas
<1> QED
  BY <1>1, <1>2

LEMMA DecideSplits ==
    ASSUME NEW status, NEW weight \in 0..100, NEW total \in Nat, NEW again
    PROVE  Splits(Decide(status, weight, total, again), total)
<1>1. PICK share : share = WeightReplicas(weight, total)
  OBVIOUS
<1>2. share \in 0..total /\ total - share \in 0..total /\ share + (total - share) = total
  <2>1. share \in 0..total
    BY <1>1, WeightIsShare
  <2> QED
    BY <2>1
<1>3. /\ Decide(status, weight, total, again).canary = share
      /\ Decide(status, weight, total, again).stable = total - share
  BY <1>1 DEF Decide
<1> QED
  BY <1>2, <1>3 DEF Splits

\* Whatever the engine decides, it decides for a weight of at most 100 per cent.
LEMMA EvaluateSplits ==
    ASSUME NEW status \in Statuses, NEW over, NEW ready, NEW desired, NEW total \in Nat,
           NEW healthy, spec \in Specs,
           NEW decision, decision = Evaluate(spec, status, over, ready, desired, total, healthy)
    PROVE  Splits(decision, total)
<1> DEFINE at(phase, index) == [status EXCEPT !.phase = phase, !.index = index, !.failures = 0]
           step == StepAt(spec, status.index)
<1>1. status.index \in Nat /\ status.weight \in 0..100
  BY DEF Statuses
<1>2. ASSUME NEW to, NEW weight \in 0..100, NEW again,
             decision = Decide(to, weight, total, again)
      PROVE  Splits(decision, total)
  BY <1>2, DecideSplits
<1>3. CASE ~InSteps(spec, status.index)
  <2>1. decision = Decide(at("Healthy", status.index), status.weight, total, FALSE)
    BY <1>3 DEF Evaluate
  <2> HIDE DEF at
  <2> QED
    BY <1>1, <1>2, <2>1
<1>4. CASE InSteps(spec, status.index) /\ step.pause # "none"
  <2>1. PICK to, again : decision = Decide(to, status.weight, total, again)
    BY <1>4 DEF Evaluate
  <2> QED
    BY <1>1, <1>2, <2>1
<1>5. CASE InSteps(spec, status.index) /\ step.pause = "none" /\ step.weight = Unset
  <2>1. decision = Decide(at("Progressing", status.index + 1), status.weight, total, FALSE)
    BY <1>5 DEF Evaluate
  <2> HIDE DEF at
  <2> QED
    BY <1>1, <1>2, <2>1
<1>6. CASE /\ InSteps(spec, status.index) /\ step.pause = "none"
           /\ step.weight # Unset /\ status.weight # step.weight
  <2>1. decision = Decide(at("Progressing", status.index), step.weight, total, TRUE)
    BY <1>6 DEF Evaluate
  <2>2. step.weight \in 0..100
    BY <1>1, <1>6, StepType DEF CanarySteps
  <2> HIDE DEF at, step
  <2> QED
    BY <1>2, <2>1, <2>2
<1>7. CASE /\ InSteps(spec, status.index) /\ step.pause = "none"
           /\ step.weight # Unset /\ status.weight = step.weight
           /\ desired > 0 /\ ready >= desired /\ healthy
  <2>1. decision = Decide(at("Progressing", status.index + 1),
                          NextWeight(spec, status.index, status.weight), total, TRUE)
    BY <1>7 DEF Evaluate
  <2>2. NextWeight(spec, status.index, status.weight) \in 0..100
    BY <1>1, NextWeightType
  <2> HIDE DEF at
  <2> QED
    BY <1>2, <2>1, <2>2
<1>8. CASE /\ InSteps(spec, status.index) /\ step.pause = "none"
           /\ step.weight # Unset /\ status.weight = step.weight
           /\ ~(desired > 0 /\ ready >= desired /\ healthy)
  <2>1. decision = AwaitHealth(spec, status, ready, desired, total, healthy)
    BY <1>8 DEF Evaluate
  <2>2. PICK to, weight, again :
            decision = Decide(to, weight, total, again) /\ weight \in {0, status.weight}
    BY <2>1 DEF AwaitHealth, RollbackDecision
  <2>3. weight \in 0..100
    BY <1>1, <2>2
  <2> QED
    BY <1>2, <2>2, <2>3
<1> QED
  BY <1>3, <1>4, <1>5, <1>6, <1>7, <1>8

\* Every decision splits the total that the reconcile found.
LEMMA DecisionSplits ==
    ASSUME TypeOK, spec.replicas # Unset, HoldAborted \/ HoldPaused \/ RollBackStuck \/ WalkSteps
    PROVE  ScalesSplit'
<1>1. /\ Seen.status \in Statuses /\ Seen.status.weight \in 0..100
      /\ spec \in Specs /\ Total \in Nat /\ Total = spec.replicas
  <2>1. Seen.status \in Statuses /\ spec \in Specs
    BY SeenType, RolloutAssumption DEF TypeOK
  <2> QED
    BY <2>1 DEF Total, Statuses, Specs
<1>2. ASSUME NEW decision, NEW made, NEW probed, Apply(decision, made, probed),
             Splits(decision, Total)
      PROVE  ScalesSplit'
  <2> DEFINE toCanary == Scale(CanarySeen(made), decision.canary)
             toStable == Scale(depCache.stable, decision.stable)
  <2>1. toCanary \in {decision.canary, Unset} /\ toStable \in {decision.stable, Unset}
    BY DEF Scale
  <2>2. roc' = [step |-> "scale", action |-> "none", status |-> decision.status,
                stable |-> toStable, canary |-> toCanary,
                again |-> decision.again, probed |-> probed]
        /\ spec' = spec
    BY <1>2 DEF Apply
  <2> HIDE DEF toCanary, toStable
  <2>3. roc'.canary = toCanary /\ roc'.stable = toStable
    BY <2>2
  <2>4. /\ decision.canary \in 0..spec.replicas /\ decision.stable \in 0..spec.replicas
        /\ decision.canary + decision.stable = spec.replicas
    BY <1>1, <1>2 DEF Splits
  <2>5. /\ roc'.canary \in {decision.canary, Unset} /\ roc'.stable \in {decision.stable, Unset}
        /\ spec'.replicas = spec.replicas
    BY <2>1, <2>2, <2>3
  <2> QED
    BY <2>4, <2>5 DEF ScalesSplit
<1>3. CASE HoldAborted
  <2>1. PICK to, made : Apply(Decide(to, 0, Total, FALSE), made, FALSE)
    BY <1>3 DEF HoldAborted
  <2>2. 0 \in 0..100
    OBVIOUS
  <2> QED
    BY <1>1, <1>2, <2>1, <2>2, DecideSplits
<1>4. CASE HoldPaused
  <2>1. PICK to, made : Apply(Decide(to, Seen.status.weight, Total, TRUE), made, FALSE)
    BY <1>4 DEF HoldPaused
  <2> QED
    BY <1>1, <1>2, <2>1, DecideSplits
<1>5. CASE RollBackStuck
  <2>1. PICK status, made :
            Apply([RollbackDecision(Seen.status, Total) EXCEPT !.status = status], made, FALSE)
    BY <1>5 DEF RollBackStuck
  <2>2. PICK decision : decision = RollbackDecision(Seen.status, Total)
    OBVIOUS
  <2>3. decision \in Decisions /\ Splits(decision, Total)
    <3>1. 0 \in 0..100
      OBVIOUS
    <3>2. Total \in Int
      BY <1>1
    <3>3. decision \in Decisions
      BY <1>1, <2>2, <3>2, RollbackType
    <3>4. PICK to : decision = Decide(to, 0, Total, FALSE)
      BY <2>2 DEF RollbackDecision
    <3>5. Splits(decision, Total)
      BY <1>1, <3>1, <3>4, DecideSplits
    <3> QED
      BY <3>3, <3>5
  <2>4. Splits([decision EXCEPT !.status = status], Total)
    BY <2>3 DEF Splits, Decisions
  <2> QED
    BY <1>2, <2>1, <2>2, <2>4
<1>6. CASE WalkSteps
  <2>1. PICK over, ready, desired, healthy, made, probed :
            Apply(Evaluate(spec, Seen.status, over, ready, desired, Total, healthy), made, probed)
    BY <1>6 DEF WalkSteps
  <2> QED
    BY <1>1, <1>2, <2>1, EvaluateSplits
<1> QED
  BY <1>3, <1>4, <1>5, <1>6

\* A Rollout that says how many replicas it has is never scaled to more nor to fewer: the
\* scales that one reconcile has in hand share them out, whatever the plan, the rounding
\* and the copies it decided on (weightReplicas and Evaluate in pkg/canary).
THEOREM ReplicasAreSplit == Spec => []ScalesSplit
<1>1. Init => ScalesSplit
  BY DEF Init, ScalesSplit, RoIdle
<1>2. ASSUME TypeOK, DecisionsHeed, WalkHolds, ScalesSplit, [Next]_vars PROVE ScalesSplit'
  <2>1. spec' = spec
    BY <1>2, StepVersions
  <2>2. CASE UNCHANGED roc
    BY <1>2, <2>1, <2>2 DEF ScalesSplit
  <2>3. CASE roc'.step # "scale"
    BY <2>3 DEF ScalesSplit
  <2>4. CASE HoldAborted \/ HoldPaused \/ RollBackStuck \/ WalkSteps
    <3>1. CASE spec.replicas # Unset
      BY <1>2, <2>4, <3>1, DecisionSplits
    <3>2. CASE spec.replicas = Unset
      BY <2>1, <3>2 DEF ScalesSplit
    <3> QED
      BY <3>1, <3>2
  <2> QED
    BY <1>2, <2>2, <2>3, <2>4, StepPlans DEF WalkHolds
<1> QED
  BY <1>1, <1>2, TypeCorrect, CopiesAreCurrent, WalkIsKept, PTL DEF Spec
-----------------------------------------------------------------------------
(* The walk that is promised. *)

\* The place is the same; a step that has a weight gives it.
Same(p, s) == s.index = p.index /\ s.weight = p.weight
Gives(i, w) == InSteps(spec, i) /\ StepAt(spec, i).weight = w /\ w # Unset

\* What may become of a status p that no flag protects.
Advances(p, s) ==
    /\ InSteps(spec, p.index)
    /\ s.phase = "Progressing" /\ s.index = p.index + 1
    /\ s.weight = p.weight \/ Gives(p.index + 1, s.weight)
Shifts(p, s) ==
    /\ InSteps(spec, p.index)
    /\ s.phase = "Progressing" /\ s.index = p.index /\ Gives(p.index, s.weight)
Waits(p, s) ==
    InSteps(spec, p.index) /\ s.phase \in {"Progressing", "Paused", "Failed"} /\ Same(p, s)
Completes(p, s) == ~InSteps(spec, p.index) /\ s.phase = "Healthy" /\ Same(p, s)
RollsBack(p, s) ==
    /\ s.index = p.index
    /\ \/ s.phase = "RollingBack" /\ s.weight = 0
       \/ s.phase = "RolledBack" /\ s.weight = p.weight

\* What becomes of it altogether: what is over is taken up by a promote alone.
Ended(p) == p.phase \in {"Failed", "RolledBack"}
Moves(p, s) ==
    \/ Advances(p, s) \/ Completes(p, s)
    \/ ~Ended(p) /\ (Shifts(p, s) \/ Waits(p, s) \/ RollsBack(p, s))

\* What may become of the status of the version r.
Goes(r, s) ==
    \/ ~r.paused /\ ~r.aborted /\ Moves(r.status, s)
    \/ r.paused /\ s.phase = "Paused" /\ Same(r.status, s)
    \/ /\ r.aborted /\ s.index = r.status.index
       /\ \/ s.phase = "RollingBack" /\ s.weight = r.status.weight
          \/ s.phase = "RolledBack" /\ s.weight = 0
Stays(r, s) == s.phase = r.status.phase /\ Same(r.status, s)

\* A decision that will pass the version check goes where the Rollout may go.
DecisionGoes == Deciding /\ current => Goes(ro, roc.status) \/ Stays(ro, roc.status)

\* A decision leaves the phase and the step of its status.
LEMMA DecideStatus ==
    ASSUME NEW status \in Statuses, NEW weight \in 0..100, NEW total \in Int,
           NEW again \in BOOLEAN
    PROVE  /\ Decide(status, weight, total, again).status.phase = status.phase
           /\ Decide(status, weight, total, again).status.index = status.index
           /\ Decide(status, weight, total, again).status.weight = weight
<1>1. /\ [status EXCEPT !.weight = weight].phase = status.phase
      /\ [status EXCEPT !.weight = weight].index = status.index
      /\ [status EXCEPT !.weight = weight].weight = weight
  BY DEF Statuses
<1> QED
  BY <1>1 DEF Decide

\* Waiting for health, a rollout waits, fails or rolls back.
LEMMA AwaitHealthMoves ==
    ASSUME NEW status \in Statuses, NEW ready \in Int, NEW desired \in Int, NEW total \in Int,
           NEW healthy \in BOOLEAN, InSteps(spec, status.index),
           NEW decision, decision = AwaitHealth(spec, status, ready, desired, total, healthy)
    PROVE  Waits(status, decision.status) \/ RollsBack(status, decision.status)
<1> DEFINE podsReady == desired > 0 /\ ready >= desired
            failures == IF podsReady /\ ~healthy THEN status.failures + 1 ELSE status.failures
            tooMany == spec.failureThreshold > 0 /\ failures >= spec.failureThreshold
<1>1. status.weight \in 0..100 /\ status.failures \in Nat /\ failures \in Nat
      /\ status.failures + 1 \in Nat
  BY DEF Statuses
<1>2. \A phase \in RolloutPhases, n \in Nat :
          /\ [status EXCEPT !.phase = phase, !.failures = n] \in Statuses
          /\ [status EXCEPT !.phase = phase, !.failures = n].phase = phase
          /\ [status EXCEPT !.phase = phase, !.failures = n].index = status.index
  BY DEF Statuses
<1>3. {"Failed", "Progressing", "RollingBack"} \subseteq RolloutPhases /\ 0 \in 0..100
  BY DEF RolloutPhases
<1>4. CASE tooMany /\ spec.autoRollback
  <2>1. PICK back : back = [status EXCEPT !.phase = "RollingBack", !.failures = @ + 1]
    OBVIOUS
  <2>2. back \in Statuses /\ back.phase = "RollingBack" /\ back.index = status.index
    BY <1>1, <1>2, <1>3, <2>1
  <2>3. decision = Decide(back, 0, total, FALSE)
    BY <1>4, <2>1 DEF AwaitHealth, RollbackDecision
  <2>4. \A w \in 0..100, a \in BOOLEAN :
            /\ Decide(back, w, total, a).status.phase = back.phase
            /\ Decide(back, w, total, a).status.index = back.index
            /\ Decide(back, w, total, a).status.weight = w
    BY <2>2, DecideStatus
  <2>5. FALSE \in BOOLEAN
    OBVIOUS
  <2> QED
    BY <1>3, <2>2, <2>3, <2>4, <2>5 DEF RollsBack
<1>5. CASE ~(tooMany /\ spec.autoRollback)
  <2>1. PICK phase : phase = IF tooMany THEN "Failed" ELSE "Progressing"
    OBVIOUS
  <2>2. PICK n, again : n = failures /\ again = ~tooMany
    OBVIOUS
  <2>3. PICK counted : counted = [status EXCEPT !.phase = phase, !.failures = n]
    OBVIOUS
  <2>4. phase \in {"Failed", "Progressing"} /\ n \in Nat /\ again \in BOOLEAN
    BY <1>1, <2>1, <2>2
  <2>5. decision = Decide(counted, status.weight, total, again)
    BY <1>5, <2>1, <2>2, <2>3 DEF AwaitHealth
  <2>6. counted \in Statuses /\ counted.phase = phase /\ counted.index = status.index
    BY <1>2, <1>3, <2>3, <2>4
  <2>7. \A w \in 0..100, a \in BOOLEAN :
            /\ Decide(counted, w, total, a).status.phase = counted.phase
            /\ Decide(counted, w, total, a).status.index = counted.index
            /\ Decide(counted, w, total, a).status.weight = w
    BY <2>6, DecideStatus
  <2>8. /\ decision.status.phase = phase
        /\ decision.status.index = status.index
        /\ decision.status.weight = status.weight
    <3>1. again \in BOOLEAN /\ status.weight \in 0..100
      BY <1>1, <2>4, Zenon
    <3>2. /\ Decide(counted, status.weight, total, again).status.phase = counted.phase
          /\ Decide(counted, status.weight, total, again).status.index = counted.index
          /\ Decide(counted, status.weight, total, again).status.weight = status.weight
      BY <2>7, <3>1, Zenon
    <3> QED
      BY <2>5, <2>6, <3>2, Zenon
  <2>9. decision.status.phase \in {"Progressing", "Paused", "Failed"}
    BY <2>4, <2>8, Zenon
  <2>10. Same(status, decision.status)
    BY <2>8, Zenon DEF Same
  <2> QED
    BY <2>9, <2>10, Zenon DEF Waits
<1> QED
  BY <1>4, <1>5

\* What the engine decides moves a rollout that is not over.
LEMMA EvaluateMoves ==
    ASSUME NEW status \in Statuses, ~Ended(status), NEW over \in BOOLEAN, NEW ready \in Int,
           NEW desired \in Int, NEW total \in Int, NEW healthy \in BOOLEAN, spec \in Specs,
           NEW decision,
           decision = Evaluate(spec, status, over, ready, desired, total, healthy)
    PROVE  Moves(status, decision.status)
<1> DEFINE at(phase, index) == [status EXCEPT !.phase = phase, !.index = index, !.failures = 0]
            step == StepAt(spec, status.index)
            passed == desired > 0 /\ ready >= desired /\ healthy
<1>1. status.index \in Nat /\ status.index + 1 \in Nat /\ status.weight \in 0..100
  BY DEF Statuses
<1>2. \A phase \in RolloutPhases, index \in Nat :
          /\ at(phase, index) \in Statuses
          /\ at(phase, index).phase = phase /\ at(phase, index).index = index
  BY DEF Statuses
<1>3. ASSUME NEW phase \in {"Progressing", "Paused", "Healthy"}, NEW index \in Nat,
             NEW weight \in 0..100, NEW again \in BOOLEAN,
             decision = Decide(at(phase, index), weight, total, again)
      PROVE  /\ decision.status.phase = phase /\ decision.status.index = index
             /\ decision.status.weight = weight
  <2>1. phase \in RolloutPhases
    BY DEF RolloutPhases
  <2>2. /\ at(phase, index) \in Statuses
        /\ at(phase, index).phase = phase /\ at(phase, index).index = index
    BY <1>2, <2>1
  <2> HIDE DEF at
  <2>3. \A w \in 0..100, a \in BOOLEAN :
            /\ Decide(at(phase, index), w, total, a).status.phase = at(phase, index).phase
            /\ Decide(at(phase, index), w, total, a).status.index = at(phase, index).index
            /\ Decide(at(phase, index), w, total, a).status.weight = w
    BY <2>2, DecideStatus
  <2>4. decision.status = Decide(at(phase, index), weight, total, again).status
    BY <1>3, Zenon
  <2>5. /\ Decide(at(phase, index), weight, total, again).status.phase = phase
        /\ Decide(at(phase, index), weight, total, again).status.index = index
        /\ Decide(at(phase, index), weight, total, again).status.weight = weight
    BY <2>2, <2>3, Zenon
  <2> QED
    BY <2>4, <2>5, Zenon
<1> HIDE DEF at
<1>4. CASE ~InSteps(spec, status.index)
  <2>1. decision = Decide(at("Healthy", status.index), status.weight, total, FALSE)
    BY <1>4 DEF Evaluate, at
  <2>2. /\ decision.status.phase = "Healthy"
        /\ decision.status.index = status.index
        /\ decision.status.weight = status.weight
    BY <1>1, <1>3, <2>1
  <2> QED
    BY <1>4, <2>2 DEF Moves, Completes, Same
<1>5. CASE InSteps(spec, status.index) /\ step.pause # "none"
  <2>1. PICK again \in BOOLEAN :
            \/ decision = Decide(at("Progressing", status.index + 1), status.weight, total, again)
            \/ decision = Decide(at("Paused", status.index), status.weight, total, again)
    BY <1>5 DEF Evaluate, at
  <2>2. CASE decision = Decide(at("Progressing", status.index + 1), status.weight, total, again)
    <3>1. /\ decision.status.phase = "Progressing"
          /\ decision.status.index = status.index + 1
          /\ decision.status.weight = status.weight
      BY <1>1, <1>3, <2>2
    <3> QED
      BY <1>5, <3>1 DEF Moves, Advances
  <2>3. CASE decision = Decide(at("Paused", status.index), status.weight, total, again)
    <3>1. /\ decision.status.phase = "Paused"
          /\ decision.status.index = status.index
          /\ decision.status.weight = status.weight
      BY <1>1, <1>3, <2>3
    <3> QED
      BY <1>5, <3>1 DEF Moves, Waits, Same
  <2> QED
    BY <2>1, <2>2, <2>3
<1>6. CASE InSteps(spec, status.index) /\ step.pause = "none" /\ step.weight = Unset
  <2>1. decision = Decide(at("Progressing", status.index + 1), status.weight, total, FALSE)
    BY <1>6 DEF Evaluate, at
  <2>2. /\ decision.status.phase = "Progressing"
        /\ decision.status.index = status.index + 1
        /\ decision.status.weight = status.weight
    BY <1>1, <1>3, <2>1
  <2> QED
    BY <1>6, <2>2 DEF Moves, Advances
<1>7. CASE /\ InSteps(spec, status.index) /\ step.pause = "none"
           /\ step.weight # Unset /\ status.weight # step.weight
  <2>1. decision = Decide(at("Progressing", status.index), step.weight, total, TRUE)
    BY <1>7 DEF Evaluate, at
  <2>2. step.weight \in 0..100
    BY <1>1, <1>7, StepType DEF CanarySteps
  <2>3. /\ decision.status.phase = "Progressing"
        /\ decision.status.index = status.index
        /\ decision.status.weight = step.weight
    BY <1>1, <1>3, <2>1, <2>2
  <2>4. Shifts(status, decision.status)
    BY <1>7, <2>3 DEF Shifts, Gives
  <2> QED
    BY <1>7, <2>4, Zenon DEF Moves
<1>8. CASE /\ InSteps(spec, status.index) /\ step.pause = "none"
           /\ step.weight # Unset /\ status.weight = step.weight /\ passed
  <2>1. PICK next : next = NextWeight(spec, status.index, status.weight)
    OBVIOUS
  <2>2. decision = Decide(at("Progressing", status.index + 1), next, total, TRUE)
    BY <1>8, <2>1 DEF Evaluate, at
  <2>3. next \in 0..100
    BY <1>1, <2>1, NextWeightType
  <2>4. next = status.weight \/ Gives(status.index + 1, next)
    BY <2>1 DEF NextWeight, Gives
  <2>5. /\ decision.status.phase = "Progressing"
        /\ decision.status.index = status.index + 1
        /\ decision.status.weight = next
    BY <1>1, <1>3, <2>2, <2>3
  <2> QED
    BY <1>8, <2>4, <2>5 DEF Moves, Advances
<1>9. CASE /\ InSteps(spec, status.index) /\ step.pause = "none"
           /\ step.weight # Unset /\ status.weight = step.weight /\ ~passed
  <2>1. decision = AwaitHealth(spec, status, ready, desired, total, healthy)
    BY <1>9 DEF Evaluate
  <2> QED
    BY <1>9, <2>1, AwaitHealthMoves DEF Moves
<1> QED
  BY <1>4, <1>5, <1>6, <1>7, <1>8, <1>9

\* The step a promote takes.
LEMMA PromotedMoves ==
    ASSUME spec \in Specs, NEW status \in Statuses
    PROVE  Moves(status, Promoted(status))
<1>1. status.index \in Nat /\ status.weight \in 0..100
  BY DEF Statuses
<1>2. CASE InSteps(spec, status.index)
  <2>1. PICK next : next = NextWeight(spec, status.index, status.weight)
    OBVIOUS
  <2>2. next = status.weight \/ Gives(status.index + 1, next)
    BY <2>1 DEF NextWeight, Gives
  <2>3. PICK s : s = [status EXCEPT !.phase = "Progressing", !.index = @ + 1, !.weight = next]
    OBVIOUS
  <2>4. s.phase = "Progressing" /\ s.index = status.index + 1 /\ s.weight = next
    BY <2>3 DEF Statuses
  <2>5. Promoted(status) = s
    BY <1>2, <2>1, <2>3 DEF Promoted
  <2> QED
    BY <1>2, <2>2, <2>4, <2>5 DEF Moves, Advances
<1>3. CASE ~InSteps(spec, status.index)
  <2>1. Promoted(status) = [status EXCEPT !.phase = "Healthy"]
    BY <1>3 DEF Promoted
  <2>2. /\ [status EXCEPT !.phase = "Healthy"].phase = "Healthy"
        /\ Same(status, [status EXCEPT !.phase = "Healthy"])
    BY DEF Statuses, Same
  <2> QED
    BY <1>3, <2>1, <2>2 DEF Moves, Completes
<1> QED
  BY <1>2, <1>3

\* A reconcile that comes to a decision goes where its copy may go.
LEMMA DecisionMoves ==
    ASSUME TypeOK, HoldAborted \/ HoldPaused \/ RollBackStuck \/ WalkSteps
    PROVE  Goes(roCache, roc'.status)
<1>1. /\ Seen.status \in Statuses
      /\ Seen.status.index = roCache.status.index
      /\ Seen.status.weight = roCache.status.weight
      /\ Seen.paused = roCache.paused /\ Seen.aborted = roCache.aborted
      /\ Total \in Int /\ spec \in Specs
  BY SeenType, TotalType, RolloutAssumption DEF TypeOK
<1>2. Ended(Seen.status) <=> Ended(roCache.status)
  BY DEF Seen, Ended, TypeOK, Rollouts, Statuses
<1>3. ASSUME NEW s, Moves(Seen.status, s) PROVE Moves(roCache.status, s)
  BY <1>1, <1>2, <1>3 DEF Moves, Advances, Completes, Shifts, Waits, RollsBack, Same
<1>4. ASSUME NEW decision, NEW made, NEW probed, Apply(decision, made, probed)
      PROVE  roc'.status = decision.status
  <2> DEFINE toCanary == Scale(CanarySeen(made), decision.canary)
              toStable == Scale(depCache.stable, decision.stable)
  <2>1. roc' = [step |-> "scale", action |-> "none", status |-> decision.status,
                stable |-> toStable, canary |-> toCanary,
                again |-> decision.again, probed |-> probed]
    BY <1>4 DEF Apply
  <2> HIDE DEF toCanary, toStable
  <2> QED
    BY <2>1
<1>5. \A phase \in RolloutPhases :
          /\ [Seen.status EXCEPT !.phase = phase] \in Statuses
          /\ [Seen.status EXCEPT !.phase = phase].phase = phase
          /\ [Seen.status EXCEPT !.phase = phase].index = Seen.status.index
          /\ [Seen.status EXCEPT !.phase = phase].weight = Seen.status.weight
  BY <1>1 DEF Statuses
<1>6. {"RolledBack", "Paused"} \subseteq RolloutPhases /\ 0 \in 0..100
      /\ Seen.status.weight \in 0..100
  <2>1. Seen.status.weight \in 0..100
    BY <1>1 DEF Statuses
  <2> QED
    BY <2>1 DEF RolloutPhases
<1>7. CASE HoldAborted
  <2>1. PICK status : status = [Seen.status EXCEPT !.phase = "RolledBack"]
    OBVIOUS
  <2>2. PICK made : Apply(Decide(status, 0, Total, FALSE), made, FALSE)
    BY <1>7, <2>1 DEF HoldAborted
  <2>3. status \in Statuses /\ status.phase = "RolledBack" /\ status.index = Seen.status.index
    BY <1>5, <1>6, <2>1
  <2>4. roc'.status.phase = "RolledBack" /\ roc'.status.index = Seen.status.index
        /\ roc'.status.weight = 0
    <3>1. \A w \in 0..100, a \in BOOLEAN :
              /\ Decide(status, w, Total, a).status.phase = status.phase
              /\ Decide(status, w, Total, a).status.index = status.index
              /\ Decide(status, w, Total, a).status.weight = w
      BY <1>1, <2>3, DecideStatus
    <3>2. roc'.status = Decide(status, 0, Total, FALSE).status
      BY <1>4, <2>2
    <3>3. FALSE \in BOOLEAN
      OBVIOUS
    <3> QED
      BY <1>6, <2>3, <3>1, <3>2, <3>3
  <2>5. Seen.aborted
    BY <1>7 DEF HoldAborted
  <2> QED
    BY <1>1, <2>4, <2>5 DEF Goes
<1>8. CASE HoldPaused
  <2>1. PICK status : status = [Seen.status EXCEPT !.phase = "Paused"]
    OBVIOUS
  <2>2. PICK made : Apply(Decide(status, Seen.status.weight, Total, TRUE), made, FALSE)
    BY <1>8, <2>1 DEF HoldPaused
  <2>3. status \in Statuses /\ status.phase = "Paused" /\ status.index = Seen.status.index
    BY <1>5, <1>6, <2>1
  <2>4. roc'.status.phase = "Paused" /\ roc'.status.index = Seen.status.index
        /\ roc'.status.weight = Seen.status.weight
    <3>1. \A w \in 0..100, a \in BOOLEAN :
              /\ Decide(status, w, Total, a).status.phase = status.phase
              /\ Decide(status, w, Total, a).status.index = status.index
              /\ Decide(status, w, Total, a).status.weight = w
      BY <1>1, <2>3, DecideStatus
    <3>2. roc'.status = Decide(status, Seen.status.weight, Total, TRUE).status
      BY <1>4, <2>2
    <3>3. TRUE \in BOOLEAN
      OBVIOUS
    <3> QED
      BY <1>6, <2>3, <3>1, <3>2, <3>3
  <2>5. Seen.paused
    BY <1>8 DEF HoldPaused
  <2> QED
    BY <1>1, <2>4, <2>5 DEF Goes, Same
<1>9. CASE RollBackStuck
  <2>1. PICK status : status = [Seen.status EXCEPT !.phase = "RolledBack"]
    OBVIOUS
  <2>2. PICK made :
            Apply([RollbackDecision(Seen.status, Total) EXCEPT !.status = status], made, FALSE)
    BY <1>9, <2>1 DEF RollBackStuck
  <2>3. status.phase = "RolledBack" /\ status.index = Seen.status.index
        /\ status.weight = Seen.status.weight
    BY <1>5, <1>6, <2>1
  <2>4. RollbackDecision(Seen.status, Total) \in Decisions
    BY <1>1, RollbackType
  <2>5. [RollbackDecision(Seen.status, Total) EXCEPT !.status = status].status = status
    BY <2>4 DEF Decisions
  <2>6. roc'.status = status
    BY <1>4, <2>2, <2>5
  <2>7. RollsBack(Seen.status, roc'.status) /\ ~Ended(Seen.status)
        /\ ~Seen.paused /\ ~Seen.aborted
    BY <1>9, <2>3, <2>6 DEF RollsBack, RollBackStuck, Unheld, Ended
  <2> QED
    BY <1>1, <1>3, <2>7 DEF Goes, Moves
<1>10. CASE WalkSteps
  <2> DEFINE ready == depCache.canary.ready
              desired == depCache.canary.replicas
              over == elapsed /\ Seen.pauseStart = Seen.status.index
  <2>1. PICK made \in SUBSET Lacking, p \in Probe(desired > 0 /\ ready >= desired) :
            Apply(Evaluate(spec, Seen.status, over, ready, desired, Total, p.healthy),
                  made, p.probed)
    BY <1>10 DEF WalkSteps
  <2>2. p.healthy \in BOOLEAN
    <3>1. due \in BOOLEAN
      BY DEF TypeOK
    <3> QED
      BY <3>1 DEF Probe
  <2>3. ready \in Int /\ desired \in Int /\ over \in BOOLEAN
    BY DEF TypeOK, Deployments
  <2> HIDE DEF ready, desired, over
  <2>4. PICK decision :
            decision = Evaluate(spec, Seen.status, over, ready, desired, Total, p.healthy)
    OBVIOUS
  <2>5. ~Ended(Seen.status) /\ ~Seen.paused /\ ~Seen.aborted
    BY <1>10 DEF WalkSteps, Unheld, Ended
  <2>6. Moves(Seen.status, decision.status)
    BY <1>1, <2>2, <2>3, <2>4, <2>5, EvaluateMoves
  <2>7. roc'.status = decision.status
    BY <1>4, <2>1, <2>4
  <2> QED
    BY <1>1, <1>3, <2>5, <2>6, <2>7 DEF Goes
<1> QED
  BY <1>7, <1>8, <1>9, <1>10
-----------------------------------------------------------------------------
(* The decisions in hand go where the Rollout may go. *)

\* A step that leaves the Rollout and the reconcile alone.
LEMMA QuietGoes ==
    ASSUME DecisionGoes, UNCHANGED spec, UNCHANGED roc, UNCHANGED ro, current' => current
    PROVE  DecisionGoes'
BY DEF DecisionGoes, Deciding, Goes, Stays, Moves, Advances, Shifts, Waits, Completes, RollsBack,
       Gives, Same, Ended

\* Only the reconcile that has a decision in hand is looked at.
LEMMA NewGoes ==
    ASSUME UNCHANGED spec,
           Deciding' /\ current' => Goes(ro', roc'.status) \/ Stays(ro', roc'.status)
    PROVE  DecisionGoes'
BY DEF DecisionGoes, Deciding, Goes, Stays, Moves, Advances, Shifts, Waits, Completes, RollsBack,
       Gives, Same, Ended

\* A command is obeyed on the status as it is, and under the flags it leaves.
LEMMA CommandGoes ==
    ASSUME TypeOK, DecisionsHeed, ObeyPause \/ ObeyPromote \/ ObeyRollback
    PROVE  Goes(ro', roc'.status) \/ Stays(ro', roc'.status)
<1>1. /\ ro \in Rollouts /\ ro.status \in Statuses /\ roc \in Reconciles /\ spec \in Specs
  BY RolloutAssumption DEF TypeOK, Rollouts
<1>2. roc.status = ro.status
  BY DEF DecisionsHeed, CommandCopyHolds, ObeyPause, ObeyPromote, ObeyRollback, Commanded
<1>3. ASSUME NEW status, Obey(status) PROVE roc'.status = status
  BY <1>1, <1>3 DEF Obey, Reconciles
<1>4. \A obj : Patch(obj) => ro' = obj
  BY DEF Patch, NewVersion, rollout
<1>5. \A phase \in RolloutPhases :
          /\ [ro.status EXCEPT !.phase = phase].phase = phase
          /\ [ro.status EXCEPT !.phase = phase].index = ro.status.index
          /\ [ro.status EXCEPT !.phase = phase].weight = ro.status.weight
  BY <1>1 DEF Statuses
<1>6. {"Paused", "RollingBack"} \subseteq RolloutPhases
  BY DEF RolloutPhases
<1>7. CASE ObeyPause
  <2>1. CASE Obey(ro.status) /\ UNCHANGED ro
    BY <1>3, <2>1 DEF Stays, Same
  <2>2. CASE Obey([ro.status EXCEPT !.phase = "Paused"]) /\ Patch([ro EXCEPT !.paused = TRUE])
    <3>1. ro' = [ro EXCEPT !.paused = TRUE]
      BY <1>4, <2>2
    <3>2. ro'.paused /\ ro'.status = ro.status
      BY <1>1, <3>1 DEF Rollouts
    <3>3. roc'.status = [ro.status EXCEPT !.phase = "Paused"]
      BY <1>3, <2>2
    <3>4. roc'.status.phase = "Paused" /\ Same(ro.status, roc'.status)
      BY <1>5, <1>6, <3>3 DEF Same
    <3> QED
      BY <3>2, <3>4 DEF Goes
  <2> QED
    BY <1>2, <1>7, <2>1, <2>2 DEF ObeyPause, Flag, rollout
<1>8. CASE ObeyPromote
  <2>1. CASE ro.aborted
    <3>1. Obey(ro.status) /\ UNCHANGED ro
      BY <1>2, <1>8, <2>1 DEF ObeyPromote, rollout
    <3> QED
      BY <1>3, <3>1 DEF Stays, Same
  <2>2. CASE ~ro.aborted
    <3>1. Obey(Promoted(ro.status))
      BY <1>2, <1>8, <2>2 DEF ObeyPromote
    <3>2. roc'.status = Promoted(ro.status)
      BY <1>3, <3>1
    <3>3. ro' = [ro EXCEPT !.paused = FALSE] \/ (ro' = ro /\ ~ro.paused)
      BY <1>4, <1>8, <2>2 DEF ObeyPromote, Flag, rollout
    <3>4. ro'.status = ro.status /\ ~ro'.paused /\ ~ro'.aborted
      BY <1>1, <2>2, <3>3 DEF Rollouts
    <3>5. Moves(ro.status, roc'.status)
      BY <1>1, <3>2, PromotedMoves
    <3> QED
      BY <3>4, <3>5 DEF Goes
  <2> QED
    BY <2>1, <2>2
<1>9. CASE ObeyRollback
  <2>1. ro' = [ro EXCEPT !.paused = FALSE, !.aborted = TRUE]
    BY <1>4, <1>9 DEF ObeyRollback, Flag
  <2>2. ro'.aborted /\ ro'.status = ro.status
    BY <1>1, <2>1 DEF Rollouts
  <2>3. roc'.status = [ro.status EXCEPT !.phase = "RollingBack"]
    BY <1>2, <1>3, <1>9 DEF ObeyRollback
  <2>4. /\ roc'.status.phase = "RollingBack"
        /\ roc'.status.index = ro.status.index /\ roc'.status.weight = ro.status.weight
    BY <1>5, <1>6, <2>3
  <2> QED
    BY <2>2, <2>4 DEF Goes
<1> QED
  BY <1>7, <1>8, <1>9

\* Every step keeps them so.
LEMMA StepKeepsGoing ==
    ASSUME TypeOK, DecisionsHeed, DecisionGoes, [Next]_vars
    PROVE  DecisionGoes'
<1>1. spec' = spec
  BY StepVersions
<1>2. ASSUME roc'.step \in {"idle", "command"} PROVE DecisionGoes'
  BY <1>2 DEF DecisionGoes, Deciding
<1>3. CASE \/ SyncRollout \/ SyncDeployments \/ TimerFires \/ PodsFollow \/ PodsFail
           \/ HealthCheckDue \/ PauseElapses \/ HoldTerminal \/ UNCHANGED vars
  <2>1. UNCHANGED <<ro, roc, current>>
    BY <1>3 DEF SyncRollout, SyncDeployments, TimerFires, PodsFollow, PodsFail,
       HealthCheckDue, PauseElapses, HoldTerminal, rollout, control, vars
  <2> QED
    BY <1>1, <2>1, QuietGoes
<1>4. CASE \E action \in Actions : RolloutControl(action)
  <2>1. PICK action \in Actions : RolloutControl(action)
    BY <1>4
  <2>2. UNCHANGED roc /\ current' = (current /\ ro.action = action)
    BY <2>1 DEF RolloutControl
  <2>3. ro' = [ro EXCEPT !.action = action]
    BY <2>1 DEF RolloutControl, Patch, NewVersion, rollout
  <2>4. current' => ro' = ro
    BY <2>2, <2>3 DEF TypeOK, Rollouts
  <2>5. CASE current'
    BY <1>1, <2>2, <2>4, <2>5, QuietGoes
  <2>6. CASE ~current'
    BY <2>6 DEF DecisionGoes
  <2> QED
    BY <2>5, <2>6
<1>5. CASE ClearCommand
  <2>1. roc' = [RoIdle EXCEPT !.step = "command", !.action = Seen.action,
                              !.status = ro.status, !.again = TRUE]
    BY <1>5 DEF ClearCommand
  <2>2. roc'.step = "command"
    BY <2>1 DEF RoIdle
  <2> QED
    BY <1>2, <2>2
<1>6. CASE ObeyPause \/ ObeyPromote \/ ObeyRollback
  BY <1>1, <1>6, CommandGoes, NewGoes
<1>7. CASE HoldAborted \/ HoldPaused \/ RollBackStuck \/ WalkSteps
  <2>1. /\ current' = (roWatch = << >>)
        /\ UNCHANGED ro
    BY <1>7, DecisionType
  <2>2. current' => roCache = ro
    BY <2>1 DEF DecisionsHeed, CacheCatchesUp
  <2>3. Goes(roCache, roc'.status)
    BY <1>7, DecisionMoves
  <2> QED
    BY <1>1, <2>1, <2>2, <2>3, NewGoes
<1>8. CASE StampPause
  <2>1. roc.step = "idle" /\ UNCHANGED roc
    BY <1>8 DEF StampPause, Unheld, Walking, Work
  <2> QED
    BY <1>2, <2>1
<1>9. CASE ApplyDecision
  <2>1. /\ UNCHANGED <<ro, current>> /\ roc.step = "scale"
        /\ roc' = [roc EXCEPT !.step = "status", !.stable = Unset, !.canary = Unset]
    BY <1>9 DEF ApplyDecision, rollout
  <2>2. roc'.status = roc.status
    BY <2>1 DEF TypeOK, Reconciles
  <2>3. current => Goes(ro, roc.status) \/ Stays(ro, roc.status)
    BY <2>1 DEF DecisionGoes, Deciding
  <2> QED
    BY <1>1, <2>1, <2>2, <2>3, NewGoes
<1>10. CASE UpdateStatus \/ CallFails \/ Restart
  <2>1. roc'.step = "idle"
    BY <1>10 DEF UpdateStatus, CallFails, Restart, RoIdle
  <2> QED
    BY <1>2, <2>1
<1> QED
  BY <1>3, <1>4, <1>5, <1>6, <1>7, <1>8, <1>9, <1>10 DEF Next, Reconcile
-----------------------------------------------------------------------------
(* Every step is a step of the walk, or none. *)

\* What a step does to the Rollout.
LEMMA StepWrites ==
    ASSUME TypeOK, DecisionsHeed, DecisionGoes, [Next]_vars
    PROVE  \/ UNCHANGED <<ro.status, ro.paused, ro.aborted>>
           \/ /\ ro.status.phase # "Healthy"
              /\ ro'.paused = TRUE /\ UNCHANGED <<ro.status, ro.aborted>>
           \/ ~ro.aborted /\ ro'.paused = FALSE /\ UNCHANGED <<ro.status, ro.aborted>>
           \/ ro'.paused = FALSE /\ ro'.aborted = TRUE /\ UNCHANGED ro.status
           \/ /\ Goes(ro, ro'.status) \/ Stays(ro, ro'.status)
              /\ UNCHANGED <<ro.paused, ro.aborted>>
<1>1. ro \in Rollouts
  BY DEF TypeOK
<1>2. \A obj : Patch(obj) \/ NewVersion(obj) => ro' = obj
  BY DEF Patch, NewVersion, rollout
<1>3. roc.step = "command" => roc.status = ro.status
  BY DEF DecisionsHeed, CommandCopyHolds
<1>4. CASE \E action \in Actions : RolloutControl(action)
  <2>1. PICK action \in Actions : ro' = [ro EXCEPT !.action = action]
    BY <1>2, <1>4 DEF RolloutControl
  <2> QED
    BY <1>1, <2>1 DEF Rollouts
<1>5. CASE ClearCommand
  <2>1. ro' = [ro EXCEPT !.action = "none"]
    BY <1>2, <1>5 DEF ClearCommand
  <2> QED
    BY <1>1, <2>1 DEF Rollouts
<1>6. CASE ObeyPause
  <2>1. ro' = ro \/ (ro.status.phase # "Healthy" /\ ro' = [ro EXCEPT !.paused = TRUE])
    BY <1>2, <1>3, <1>6 DEF ObeyPause, Commanded, Flag, rollout
  <2> QED
    BY <1>1, <2>1 DEF Rollouts
<1>7. CASE ObeyPromote
  <2>1. ro' = ro \/ (~ro.aborted /\ ro' = [ro EXCEPT !.paused = FALSE])
    BY <1>2, <1>7 DEF ObeyPromote, Flag, rollout
  <2> QED
    BY <1>1, <2>1 DEF Rollouts
<1>8. CASE ObeyRollback
  <2>1. ro' = [ro EXCEPT !.paused = FALSE, !.aborted = TRUE]
    BY <1>2, <1>8 DEF ObeyRollback, Flag
  <2> QED
    BY <1>1, <2>1 DEF Rollouts
<1>9. CASE StampPause
  <2>1. ro' = [ro EXCEPT !.pauseStart = Seen.status.index]
    BY <1>2, <1>9 DEF StampPause
  <2> QED
    BY <1>1, <2>1 DEF Rollouts
<1>10. CASE UpdateStatus
  <2>1. CASE ~current
    BY <1>10, <2>1 DEF UpdateStatus, rollout
  <2>2. CASE current
    <3>1. ro' = [ro EXCEPT !.status = roc.status] /\ roc.step = "status"
      BY <1>2, <1>10, <2>2 DEF UpdateStatus
    <3>2. ro'.status = roc.status /\ ro'.paused = ro.paused /\ ro'.aborted = ro.aborted
      BY <1>1, <3>1 DEF Rollouts
    <3> QED
      BY <2>2, <3>1, <3>2 DEF DecisionGoes, Deciding
  <2> QED
    BY <2>1, <2>2
<1>11. CASE SyncRollout \/ SyncDeployments \/ TimerFires \/ PodsFollow \/ PodsFail
            \/ HealthCheckDue \/ PauseElapses \/ HoldTerminal \/ ApplyDecision
            \/ CallFails \/ Restart \/ UNCHANGED vars
  <2>1. ro' = ro
    BY <1>11 DEF SyncRollout, SyncDeployments, TimerFires, PodsFollow, PodsFail, HealthCheckDue,
       PauseElapses, HoldTerminal, ApplyDecision, CallFails, Restart, rollout, vars
  <2> QED
    BY <2>1
<1>12. CASE HoldAborted \/ HoldPaused \/ RollBackStuck \/ WalkSteps
  <2>1. ro' = ro
    BY <1>12, DecisionType
  <2> QED
    BY <2>1
<1> QED
  BY <1>4, <1>5, <1>6, <1>7, <1>8, <1>9, <1>10, <1>11, <1>12 DEF Next, Reconcile

\* The plan has the weights of the steps.
LEMMA WeightsOfSteps ==
    ASSUME spec \in Specs
    PROVE  /\ Weights \in Seq(0..100 \cup {Unset})
           /\ \A i \in Nat : /\ InSteps(spec, i) <=> i < Len(Weights)
                             /\ InSteps(spec, i) => Weights[i + 1] = StepAt(spec, i).weight
<1>1. PICK n : n = Len(spec.steps)
  OBVIOUS
<1>2. n \in Nat /\ \A i \in 1..n : spec.steps[i] \in CanarySteps
  BY <1>1, LenProperties, ElementOfSeq DEF Specs
<1>3. Weights = [i \in 1..n |-> spec.steps[i].weight]
  BY <1>1 DEF Weights
<1>4. \A i \in 1..n : spec.steps[i].weight \in 0..100 \cup {Unset}
  BY <1>2 DEF CanarySteps
<1>5. Weights \in [1..n -> 0..100 \cup {Unset}]
  BY <1>3, <1>4
<1>6. Weights \in Seq(0..100 \cup {Unset}) /\ Len(Weights) = n
  BY <1>2, <1>5
<1>7. ASSUME NEW i \in Nat
      PROVE  /\ InSteps(spec, i) <=> i < Len(Weights)
             /\ InSteps(spec, i) => Weights[i + 1] = StepAt(spec, i).weight
  <2>1. InSteps(spec, i) <=> i < Len(Weights)
    BY <1>1, <1>6 DEF InSteps
  <2>2. ASSUME InSteps(spec, i) PROVE Weights[i + 1] = StepAt(spec, i).weight
    <3>1. i + 1 \in 1..n
      BY <1>1, <1>2, <2>2 DEF InSteps
    <3> QED
      BY <1>3, <3>1 DEF StepAt
  <2> QED
    BY <2>1, <2>2
<1> QED
  BY <1>6, <1>7

\* A status that goes where the Rollout may go takes a step of the walk.
LEMMA GoesWalk ==
    ASSUME TypeOK, UNCHANGED <<spec, ro.paused, ro.aborted>>, Goes(ro, ro'.status)
    PROVE  Walk!Next
<1> DEFINE s == ro'.status
<1>1. /\ ro.status \in Statuses /\ ro.paused \in BOOLEAN /\ ro.aborted \in BOOLEAN
      /\ spec \in Specs
  BY RolloutAssumption DEF TypeOK, Rollouts
<1>2. ro.status.index \in Nat /\ ro.status.index + 1 \in Nat
  BY <1>1 DEF Statuses
<1>3. Weights' = Weights
  BY DEF Weights
<1>4. \A i \in Nat : \A w : Gives(i, w) => Walk!Takes(i, w)
  BY <1>1, WeightsOfSteps DEF Gives, Walk!Takes, Walk!NoWeight, Unset
<1>5. /\ InSteps(spec, ro.status.index) <=> ro.status.index < Len(Weights)
      /\ Len(Weights) \in Nat
  BY <1>1, <1>2, WeightsOfSteps, LenProperties
<1>6. ro'.paused = ro.paused /\ ro'.aborted = ro.aborted
  OBVIOUS
<1>7. CASE ~ro.paused /\ ~ro.aborted /\ Moves(ro.status, s)
  <2>1. CASE Advances(ro.status, s)
    <3>1. Walk!Advance
      BY <1>2, <1>3, <1>4, <1>5, <1>6, <1>7, <2>1
         DEF Walk!Advance, Walk!Walking, Walk!Free, Advances
    <3> QED
      BY <3>1 DEF Walk!Next
  <2>2. CASE Completes(ro.status, s)
    <3>1. Walk!Complete
      BY <1>2, <1>3, <1>5, <1>6, <1>7, <2>2 DEF Walk!Complete, Walk!Free, Completes, Same
    <3> QED
      BY <3>1 DEF Walk!Next
  <2>3. CASE ~Ended(ro.status) /\ Shifts(ro.status, s)
    <3>1. Walk!Shift
      BY <1>2, <1>3, <1>4, <1>5, <1>6, <1>7, <2>3
         DEF Walk!Shift, Walk!Walking, Walk!Free, Walk!Over, Shifts, Ended
    <3> QED
      BY <3>1 DEF Walk!Next
  <2>4. CASE ~Ended(ro.status) /\ Waits(ro.status, s)
    <3>1. Walk!Wait
      BY <1>2, <1>3, <1>5, <1>6, <1>7, <2>4
         DEF Walk!Wait, Walk!Walking, Walk!Free, Walk!Over, Waits, Ended, Same
    <3> QED
      BY <3>1 DEF Walk!Next
  <2>5. CASE ~Ended(ro.status) /\ RollsBack(ro.status, s)
    <3>1. Walk!RollBack
      BY <1>3, <1>6, <1>7, <2>5 DEF Walk!RollBack, Walk!Free, Walk!Over, RollsBack, Ended
    <3> QED
      BY <3>1 DEF Walk!Next
  <2> QED
    BY <1>7, <2>1, <2>2, <2>3, <2>4, <2>5 DEF Moves
<1>8. CASE ro.paused /\ s.phase = "Paused" /\ Same(ro.status, s)
  <2>1. Walk!Hold
    BY <1>3, <1>6, <1>8 DEF Walk!Hold, Same
  <2> QED
    BY <2>1 DEF Walk!Next
<1>9. CASE /\ ro.aborted /\ s.index = ro.status.index
           /\ \/ s.phase = "RollingBack" /\ s.weight = ro.status.weight
              \/ s.phase = "RolledBack" /\ s.weight = 0
  <2>1. Walk!Revert
    BY <1>3, <1>6, <1>9 DEF Walk!Revert
  <2> QED
    BY <2>1 DEF Walk!Next
<1> QED
  BY <1>7, <1>8, <1>9 DEF Goes

\* Each of these is a step of the walk, or none.
LEMMA StepWalks ==
    ASSUME TypeOK, DecisionsHeed, DecisionGoes, [Next]_vars
    PROVE  [Walk!Next]_(Walk!vars)
<1>1. spec' = spec /\ Weights' = Weights
  BY StepVersions DEF Weights
<1>2. CASE UNCHANGED <<ro.status, ro.paused, ro.aborted>>
  BY <1>1, <1>2 DEF Walk!vars
<1>3. CASE ro.status.phase # "Healthy" /\ ro'.paused = TRUE /\ UNCHANGED <<ro.status, ro.aborted>>
  <2>1. Walk!Pause
    BY <1>1, <1>3 DEF Walk!Pause
  <2> QED
    BY <2>1 DEF Walk!Next
<1>4. CASE ~ro.aborted /\ ro'.paused = FALSE /\ UNCHANGED <<ro.status, ro.aborted>>
  <2>1. Walk!Resume
    BY <1>1, <1>4 DEF Walk!Resume
  <2> QED
    BY <2>1 DEF Walk!Next
<1>5. CASE ro'.paused = FALSE /\ ro'.aborted = TRUE /\ UNCHANGED ro.status
  <2>1. Walk!Abort
    BY <1>1, <1>5 DEF Walk!Abort
  <2> QED
    BY <2>1 DEF Walk!Next
<1>6. CASE Goes(ro, ro'.status) /\ UNCHANGED <<ro.paused, ro.aborted>>
  BY <1>1, <1>6, GoesWalk
<1>7. CASE Stays(ro, ro'.status) /\ UNCHANGED <<ro.paused, ro.aborted>>
  BY <1>1, <1>7 DEF Stays, Same, Walk!vars
<1> QED
  BY <1>2, <1>3, <1>4, <1>5, <1>6, <1>7, StepWrites

\* For every plan, however old the copies, whatever the operator commands and whatever
\* fails, a Rollout walks as RolloutWalk says.
THEOREM WalkImplemented == Spec => ImplementsWalk
<1>1. Init => Walk!Init /\ DecisionGoes
  <2> SUFFICES ASSUME Init PROVE Walk!Init /\ DecisionGoes
    OBVIOUS
  <2>1. ro = NewRollout /\ roc = RoIdle /\ spec \in Specs
    BY RolloutAssumption DEF Init
  <2>2. /\ ro.status.phase = "" /\ ro.status.index = 0 /\ ro.status.weight = 0
        /\ ro.paused = FALSE /\ ro.aborted = FALSE /\ roc.step = "idle"
    BY <2>1 DEF NewRollout, RoIdle
  <2>3. Weights \in Seq(0..100 \cup {Walk!NoWeight})
    BY <2>1, WeightsOfSteps DEF Walk!NoWeight, Unset
  <2> QED
    BY <2>2, <2>3 DEF Walk!Init, DecisionGoes, Deciding
<1>2. TypeOK /\ DecisionsHeed /\ DecisionGoes /\ [Next]_vars => DecisionGoes'
  BY StepKeepsGoing
<1>3. TypeOK /\ DecisionsHeed /\ DecisionGoes /\ [Next]_vars => [Walk!Next]_(Walk!vars)
  BY StepWalks
<1> QED
  BY <1>1, <1>2, <1>3, TypeCorrect, CopiesAreCurrent, PTL DEF Spec, ImplementsWalk, Walk!Spec
=============================================================================
