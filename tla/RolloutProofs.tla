--------------------------- MODULE RolloutProofs ---------------------------
(***************************************************************************)
(* Proofs about Rollout, for every set of specs a Rollout may have and     *)
(* every bound: type correctness, and that the hold flags hold.            *)
(***************************************************************************)
EXTENDS Rollout, SequenceTheorems, TLAPS

-----------------------------------------------------------------------------
(* The engine. *)

LEMMA WeightReplicasType ==
    ASSUME NEW weight \in Int, NEW total \in Int
    PROVE  WeightReplicas(weight, total) \in Int
<1>1. weight * total \in Int
  OBVIOUS
<1>2. \A n \in Int : n \div 100 \in Int
  OBVIOUS
<1> QED
  BY <1>1, <1>2 DEF WeightReplicas

LEMMA DecideType ==
    ASSUME NEW status \in Statuses, NEW weight \in 0..100, NEW total \in Int,
           NEW again \in BOOLEAN
    PROVE  /\ Decide(status, weight, total, again) \in Decisions
           /\ Decide(status, weight, total, again).status = [status EXCEPT !.weight = weight]
<1>1. WeightReplicas(weight, total) \in Int
  BY WeightReplicasType
<1>2. [status EXCEPT !.weight = weight] \in Statuses
  BY DEF Statuses
<1> QED
  BY <1>1, <1>2 DEF Decide, Decisions

LEMMA StepType ==
    ASSUME NEW spc \in Specs, NEW index \in Nat, InSteps(spc, index)
    PROVE  StepAt(spc, index) \in CanarySteps
<1>1. spc.steps \in Seq(CanarySteps)
  BY DEF Specs
<1>2. index + 1 \in 1..Len(spc.steps)
  BY <1>1, LenProperties DEF InSteps
<1> QED
  BY <1>1, <1>2, ElementOfSeq DEF StepAt

LEMMA NextWeightType ==
    ASSUME NEW spc \in Specs, NEW index \in Nat, NEW weight \in 0..100
    PROVE  NextWeight(spc, index, weight) \in 0..100
<1>1. CASE InSteps(spc, index + 1) /\ StepAt(spc, index + 1).weight # Unset
  <2>1. StepAt(spc, index + 1) \in CanarySteps
    BY <1>1, StepType
  <2> QED
    BY <1>1, <2>1 DEF NextWeight, CanarySteps
<1>2. CASE ~(InSteps(spc, index + 1) /\ StepAt(spc, index + 1).weight # Unset)
  BY <1>2 DEF NextWeight
<1> QED
  BY <1>1, <1>2

LEMMA CountedType ==
    ASSUME NEW status \in Statuses, NEW phase \in RolloutPhases, NEW n \in Nat
    PROVE  [status EXCEPT !.phase = phase, !.failures = n] \in Statuses
BY DEF Statuses

LEMMA RollbackType ==
    ASSUME NEW status \in Statuses, NEW total \in Int
    PROVE  RollbackDecision(status, total) \in Decisions
<1> DEFINE counted == [status EXCEPT !.phase = "RollingBack", !.failures = @ + 1]
<1>1. counted \in Statuses
  <2>1. status.failures + 1 \in Nat
    BY DEF Statuses
  <2>2. "RollingBack" \in RolloutPhases
    BY DEF RolloutPhases
  <2> QED
    BY <2>1, <2>2, CountedType
<1>2. \A weight \in 0..100, again \in BOOLEAN : Decide(counted, weight, total, again) \in Decisions
  <2> HIDE DEF counted
  <2> QED
    BY <1>1, DecideType
<1>3. RollbackDecision(status, total) = Decide(counted, 0, total, FALSE)
  BY DEF RollbackDecision
<1>4. 0 \in 0..100
  OBVIOUS
<1> HIDE DEF counted
<1> QED
  BY <1>2, <1>3, <1>4

LEMMA AwaitHealthType ==
    ASSUME NEW spc \in Specs, NEW status \in Statuses, NEW ready \in Int, NEW desired \in Int,
           NEW total \in Int, NEW healthy \in BOOLEAN
    PROVE  AwaitHealth(spc, status, ready, desired, total, healthy) \in Decisions
<1> DEFINE podsReady == desired > 0 /\ ready >= desired
           failures == IF podsReady /\ ~healthy THEN status.failures + 1 ELSE status.failures
           tooMany == spc.failureThreshold > 0 /\ failures >= spc.failureThreshold
           counted == [status EXCEPT !.phase = IF tooMany THEN "Failed" ELSE "Progressing",
                                     !.failures = failures]
<1>1. counted \in Statuses
  <2>1. failures \in Nat
    BY DEF Statuses
  <2>2. (IF tooMany THEN "Failed" ELSE "Progressing") \in RolloutPhases
    BY DEF RolloutPhases
  <2> HIDE DEF failures, tooMany
  <2> QED
    BY <2>1, <2>2, CountedType
<1>2. status.weight \in 0..100 /\ (~tooMany) \in BOOLEAN
  <2>1. status.weight \in 0..100
    BY DEF Statuses
  <2> HIDE DEF tooMany
  <2> QED
    BY <2>1
<1>3. Decide(counted, status.weight, total, ~tooMany) \in Decisions
  <2> HIDE DEF counted, tooMany
  <2> QED
    BY <1>1, <1>2, DecideType
<1> QED
  BY <1>3, RollbackType DEF AwaitHealth

\* Whatever the engine sees, what it decides is of its type.
LEMMA EvaluateType ==
    ASSUME NEW spc \in Specs, NEW status \in Statuses, NEW over \in BOOLEAN, NEW ready \in Int,
           NEW desired \in Int, NEW total \in Int, NEW healthy \in BOOLEAN
    PROVE  Evaluate(spc, status, over, ready, desired, total, healthy) \in Decisions
<1> DEFINE at(phase, index) == [status EXCEPT !.phase = phase, !.index = index, !.failures = 0]
           decision == Evaluate(spc, status, over, ready, desired, total, healthy)
<1>1. status.index \in Nat /\ status.index + 1 \in Nat /\ status.weight \in 0..100
  BY DEF Statuses
<1>2. \A phase \in RolloutPhases, index \in Nat : at(phase, index) \in Statuses
  BY DEF Statuses
<1>3. \A phase \in RolloutPhases, index \in Nat, weight \in 0..100, again \in BOOLEAN :
          Decide(at(phase, index), weight, total, again) \in Decisions
  <2> HIDE DEF at
  <2> QED
    BY <1>2, DecideType
<1>4. {"Progressing", "Paused", "Healthy"} \subseteq RolloutPhases
  BY DEF RolloutPhases
<1> DEFINE step == StepAt(spc, status.index)
           passed == desired > 0 /\ ready >= desired /\ healthy
<1>5. CASE ~InSteps(spc, status.index)
  <2>1. decision = Decide(at("Healthy", status.index), status.weight, total, FALSE)
    BY <1>5 DEF Evaluate
  <2> QED
    BY <2>1, <1>1, <1>3, <1>4
<1>6. CASE InSteps(spc, status.index) /\ step.pause # "none"
  <2>1. \E again \in BOOLEAN :
            decision = Decide(IF step.pause = "timed" /\ over /\ healthy
                                 THEN at("Progressing", status.index + 1)
                                 ELSE at("Paused", status.index),
                              status.weight, total, again)
    BY <1>6 DEF Evaluate
  <2>2. \E phase \in RolloutPhases, index \in Nat, again \in BOOLEAN :
            decision = Decide(at(phase, index), status.weight, total, again)
    BY <2>1, <1>1, <1>4
  <2> QED
    BY <2>2, <1>1, <1>3
<1>7. CASE InSteps(spc, status.index) /\ step.pause = "none" /\ step.weight = Unset
  <2>1. decision = Decide(at("Progressing", status.index + 1), status.weight, total, FALSE)
    BY <1>7 DEF Evaluate
  <2> QED
    BY <2>1, <1>1, <1>3, <1>4
<1>8. CASE /\ InSteps(spc, status.index) /\ step.pause = "none"
           /\ step.weight # Unset /\ status.weight # step.weight
  <2>1. decision = Decide(at("Progressing", status.index), step.weight, total, TRUE)
    BY <1>8 DEF Evaluate
  <2>2. step \in CanarySteps
    BY <1>8, <1>1, StepType
  <2>3. step.weight \in 0..100
    BY <1>8, <2>2 DEF CanarySteps
  <2> HIDE DEF at, step
  <2> QED
    BY <2>1, <2>3, <1>1, <1>3, <1>4
<1>9. CASE /\ InSteps(spc, status.index) /\ step.pause = "none"
           /\ step.weight # Unset /\ status.weight = step.weight /\ passed
  <2>1. decision = Decide(at("Progressing", status.index + 1),
                          NextWeight(spc, status.index, status.weight), total, TRUE)
    BY <1>9 DEF Evaluate
  <2>2. NextWeight(spc, status.index, status.weight) \in 0..100
    BY <1>1, NextWeightType
  <2> HIDE DEF at, step
  <2> QED
    BY <2>1, <2>2, <1>1, <1>3, <1>4
<1>10. CASE /\ InSteps(spc, status.index) /\ step.pause = "none"
            /\ step.weight # Unset /\ status.weight = step.weight /\ ~passed
  <2>1. decision = AwaitHealth(spc, status, ready, desired, total, healthy)
    BY <1>10 DEF Evaluate
  <2> QED
    BY <2>1, AwaitHealthType
<1> QED
  BY <1>5, <1>6, <1>7, <1>8, <1>9, <1>10
-----------------------------------------------------------------------------
(* The controller. *)

LEMMA RecordTypes ==
    /\ NewRollout \in Rollouts
    /\ NoDeployment \in Deployments
    /\ \A n \in Int : NewDeployment(n) \in Deployments
    /\ RoIdle \in Reconciles
<1>1. NewRollout.status \in Statuses
  BY DEF NewRollout, Statuses, RolloutPhases
<1>2. NewRollout \in Rollouts
  BY DEF NewRollout, Rollouts, Statuses, RolloutPhases, Actions, Unset
<1>3. RoIdle \in Reconciles
  BY <1>1 DEF RoIdle, Reconciles, Unset
<1>4. NoDeployment \in Deployments
  BY DEF NoDeployment, Deployments
<1>5. \A n \in Int : NewDeployment(n) \in Deployments
  BY <1>4 DEF Deployments, NewDeployment
<1> QED
  BY <1>2, <1>3, <1>4, <1>5

\* A new version of a well-typed Rollout is well typed, and so is the stream.
LEMMA PatchType ==
    ASSUME ro \in Rollouts, roWatch \in Seq(Rollouts), NEW obj \in Rollouts,
           Patch(obj) \/ NewVersion(obj)
    PROVE  ro' \in Rollouts /\ roWatch' \in Seq(Rollouts)
<1>1. CASE NewVersion(obj)
  BY <1>1, AppendProperties DEF NewVersion
<1>2. CASE UNCHANGED rollout
  BY <1>2 DEF rollout
<1> QED
  BY <1>1, <1>2 DEF Patch

\* A fault is counted within its bound.
LEMMA FaultType == TypeOK /\ Fault => faults' \in 0..MaxFaults
BY RolloutAssumption DEF TypeOK, Fault

LEMMA LoggedType ==
    ASSUME TypeOK, NEW done \in BOOLEAN, Logged(done)
    PROVE  faults' \in 0..MaxFaults /\ lost' \in BOOLEAN
<1>1. CASE done
  BY <1>1 DEF Logged, TypeOK
<1>2. CASE ~done
  BY <1>2, FaultType DEF Logged
<1> QED
  BY <1>1, <1>2

LEMMA SeenType ==
    ASSUME TypeOK
    PROVE  /\ Seen \in Rollouts
           /\ Seen.status \in Statuses
           /\ Seen.status.index = roCache.status.index
           /\ Seen.status.weight = roCache.status.weight
           /\ Seen.action = roCache.action
           /\ Seen.paused = roCache.paused
           /\ Seen.aborted = roCache.aborted
           /\ Seen.pauseStart = roCache.pauseStart
<1>1. roCache \in Rollouts
  BY DEF TypeOK
<1> DEFINE phase == IF roCache.status.phase = "" THEN "Progressing" ELSE roCache.status.phase
           status == [roCache.status EXCEPT !.phase = phase]
<1>2. status \in Statuses /\ status.index = roCache.status.index
                          /\ status.weight = roCache.status.weight
  <2>1. roCache.status \in Statuses
    BY <1>1 DEF Rollouts
  <2>2. phase \in RolloutPhases
    BY <2>1 DEF Statuses, RolloutPhases
  <2> HIDE DEF phase
  <2> QED
    BY <2>1, <2>2 DEF Statuses
<1>3. Seen = [roCache EXCEPT !.status = status]
  BY DEF Seen
<1> HIDE DEF status
<1> QED
  BY <1>1, <1>2, <1>3 DEF Rollouts

LEMMA TotalType ==
    ASSUME TypeOK
    PROVE  Total \in Int
<1>1. spec \in Specs /\ depCache.stable \in Deployments
  BY RolloutAssumption DEF TypeOK
<1> QED
  BY <1>1 DEF Total, Specs, Deployments, DefaultReplicas, Unset

LEMMA InitType == Init => TypeOK
<1> SUFFICES ASSUME Init PROVE TypeOK
  OBVIOUS
<1>1. << >> \in Seq(Rollouts)
  BY EmptySeq
<1>2. stable \in Deployments
  BY RolloutAssumption, RecordTypes DEF Init
<1>3. canary \in Deployments /\ depCache \in [stable : Deployments, canary : Deployments]
  BY <1>2, RecordTypes DEF Init
<1>4. ro \in Rollouts /\ roCache \in Rollouts /\ roWatch \in Seq(Rollouts) /\ roc \in Reconciles
  BY <1>1, RecordTypes DEF Init
<1>5. commands \in 0..MaxCommands /\ faults \in 0..MaxFaults
  BY RolloutAssumption DEF Init
<1>6. /\ spec \in RolloutSpecs
      /\ {queued, timer, current, due, elapsed, lost} \subseteq BOOLEAN
  BY DEF Init
<1> QED
  BY <1>2, <1>3, <1>4, <1>5, <1>6 DEF TypeOK

\* Applying a decision: what it creates and what it will do.
LEMMA ApplyType ==
    ASSUME TypeOK, NEW decision \in Decisions, NEW made, NEW probed \in BOOLEAN,
           Apply(decision, made, probed)
    PROVE  /\ TypeOK'
           /\ roc'.step = "scale"
           /\ roc'.status = decision.status
           /\ current' = (roWatch = << >>)
<1> DEFINE toStable == Scale(depCache.stable, decision.stable)
           toCanary == Scale(CanarySeen(made), decision.canary)
<1>1. depCache.stable \in Deployments /\ depCache.canary \in Deployments
  BY DEF TypeOK
<1>2. toStable \in Int /\ toCanary \in Int
  BY DEF Scale, Decisions, Unset
<1>3. /\ Ensure(stable, "stable", made, Total) \in Deployments
      /\ Ensure(canary, "canary", made, 0) \in Deployments
  BY TotalType, RecordTypes DEF Ensure, TypeOK
<1>4. roc' = [step |-> "scale", action |-> "none", status |-> decision.status,
              stable |-> toStable, canary |-> toCanary,
              again |-> decision.again, probed |-> probed]
  BY DEF Apply
<1>5. roc' \in Reconciles
  <2> HIDE DEF toStable, toCanary
  <2>1. decision.status \in Statuses /\ decision.again \in BOOLEAN
    BY DEF Decisions
  <2> QED
    BY <1>2, <1>4, <2>1 DEF Reconciles
<1>6. faults' \in 0..MaxFaults /\ lost' \in BOOLEAN
  BY LoggedType DEF Apply
<1>7. /\ queued' \in BOOLEAN /\ current' \in BOOLEAN
      /\ stable' \in Deployments /\ canary' \in Deployments
  BY <1>3 DEF Apply
<1>8. UNCHANGED <<spec, ro, roWatch, roCache, depCache, timer, due, elapsed, commands>>
  BY DEF Apply, rollout, time
<1> QED
  BY <1>4, <1>5, <1>6, <1>7, <1>8 DEF TypeOK, Apply

\* What the holds decide.
LEMMA HoldTypes ==
    ASSUME TypeOK
    PROVE  /\ LET decision == Decide([Seen.status EXCEPT !.phase = "RolledBack"], 0, Total, FALSE)
              IN  decision \in Decisions /\ decision.status.index = Seen.status.index
           /\ LET decision == Decide([Seen.status EXCEPT !.phase = "Paused"],
                                     Seen.status.weight, Total, TRUE)
              IN  /\ decision \in Decisions
                  /\ decision.status.index = Seen.status.index
                  /\ decision.status.weight = Seen.status.weight
           /\ [RollbackDecision(Seen.status, Total)
                  EXCEPT !.status = [Seen.status EXCEPT !.phase = "RolledBack"]] \in Decisions
<1>1. Seen.status \in Statuses /\ Total \in Int
  BY SeenType, TotalType
<1> DEFINE at(phase) == [Seen.status EXCEPT !.phase = phase]
<1>2. \A phase \in RolloutPhases : at(phase) \in Statuses /\ at(phase).index = Seen.status.index
  BY <1>1 DEF Statuses
<1>3. ASSUME NEW phase \in RolloutPhases, NEW weight \in 0..100, NEW again \in BOOLEAN
      PROVE  /\ Decide(at(phase), weight, Total, again) \in Decisions
             /\ Decide(at(phase), weight, Total, again).status
                   = [at(phase) EXCEPT !.weight = weight]
  <2>1. at(phase) \in Statuses
    BY <1>2
  <2> HIDE DEF at
  <2> QED
    BY <2>1, <1>1, DecideType
<1>4. ASSUME NEW phase \in RolloutPhases, NEW weight \in 0..100, NEW again \in BOOLEAN
      PROVE  /\ Decide(at(phase), weight, Total, again).status.index = Seen.status.index
             /\ Decide(at(phase), weight, Total, again).status.weight = weight
  <2>1. at(phase) \in Statuses /\ at(phase).index = Seen.status.index
    BY <1>2
  <2>2. Decide(at(phase), weight, Total, again).status = [at(phase) EXCEPT !.weight = weight]
    BY <1>3
  <2> HIDE DEF at
  <2> QED
    BY <2>1, <2>2 DEF Statuses
<1>5. /\ "RolledBack" \in RolloutPhases /\ "Paused" \in RolloutPhases
      /\ 0 \in 0..100 /\ Seen.status.weight \in 0..100
  <2>1. Seen.status.weight \in 0..100
    BY <1>1 DEF Statuses
  <2> QED
    BY <2>1 DEF RolloutPhases
<1>6. [RollbackDecision(Seen.status, Total) EXCEPT !.status = at("RolledBack")] \in Decisions
  <2>1. RollbackDecision(Seen.status, Total) \in Decisions
    BY <1>1, RollbackType
  <2>2. at("RolledBack") \in Statuses
    BY <1>2, <1>5
  <2> HIDE DEF at
  <2> QED
    BY <2>1, <2>2 DEF Decisions
<1> QED
  <2>1. /\ Decide(at("RolledBack"), 0, Total, FALSE) \in Decisions
        /\ Decide(at("RolledBack"), 0, Total, FALSE).status.index = Seen.status.index
    <3> HIDE DEF at
    <3> QED
      BY <1>3, <1>4, <1>5
  <2>2. /\ Decide(at("Paused"), Seen.status.weight, Total, TRUE) \in Decisions
        /\ Decide(at("Paused"), Seen.status.weight, Total, TRUE).status.index = Seen.status.index
        /\ Decide(at("Paused"), Seen.status.weight, Total, TRUE).status.weight
              = Seen.status.weight
    <3> HIDE DEF at
    <3> QED
      BY <1>3, <1>4, <1>5
  <2> QED
    BY <2>1, <2>2, <1>6

\* A walk over the steps applies what Evaluate decides.
LEMMA WalkType ==
    ASSUME TypeOK, WalkSteps
    PROVE  \E decision \in Decisions : \E made : \E probed \in BOOLEAN :
              Apply(decision, made, probed)
<1> DEFINE ready == depCache.canary.ready
           desired == depCache.canary.replicas
           over == elapsed /\ Seen.pauseStart = Seen.status.index
<1>1. PICK made \in SUBSET Lacking, p \in Probe(desired > 0 /\ ready >= desired) :
          Apply(Evaluate(spec, Seen.status, over, ready, desired, Total, p.healthy),
                made, p.probed)
  BY DEF WalkSteps
<1>2. p.probed \in BOOLEAN /\ p.healthy \in BOOLEAN
  <2>1. due \in BOOLEAN
    BY DEF TypeOK
  <2> QED
    BY <2>1 DEF Probe
<1>3. depCache.canary \in Deployments /\ spec \in Specs
  BY RolloutAssumption DEF TypeOK
<1>4. ready \in Int /\ desired \in Int
  BY <1>3 DEF Deployments
<1>5. over \in BOOLEAN
  BY DEF TypeOK
<1>6. Seen.status \in Statuses /\ Total \in Int
  BY SeenType, TotalType
<1>7. Evaluate(spec, Seen.status, over, ready, desired, Total, p.healthy) \in Decisions
  <2> HIDE DEF over, ready, desired
  <2> QED
    BY <1>2, <1>3, <1>4, <1>5, <1>6, EvaluateType
<1> DEFINE decision == Evaluate(spec, Seen.status, over, ready, desired, Total, p.healthy)
<1> HIDE DEF over, ready, desired, decision
<1>8. decision \in Decisions /\ Apply(decision, made, p.probed)
  BY <1>1, <1>7 DEF decision
<1> QED
  BY <1>2, <1>8, Zenon

\* Every reconcile that comes to a decision applies one of its type.
LEMMA DecisionType ==
    ASSUME TypeOK, HoldAborted \/ HoldPaused \/ RollBackStuck \/ WalkSteps
    PROVE  /\ TypeOK'
           /\ roc'.step = "scale"
           /\ current' = (roWatch = << >>)
           /\ UNCHANGED <<ro, roWatch, roCache>>
           /\ HoldAborted => roc'.status.index = Seen.status.index
           /\ HoldPaused => /\ roc'.status.index = Seen.status.index
                            /\ roc'.status.weight = Seen.status.weight
<1>1. ASSUME NEW decision \in Decisions, NEW made, NEW probed \in BOOLEAN,
             Apply(decision, made, probed)
      PROVE  /\ TypeOK'
             /\ roc'.step = "scale"
             /\ roc'.status = decision.status
             /\ current' = (roWatch = << >>)
             /\ UNCHANGED <<ro, roWatch, roCache>>
  <2>1. UNCHANGED <<ro, roWatch, roCache>>
    BY <1>1 DEF Apply, rollout
  <2> QED
    BY <1>1, <2>1, ApplyType
<1>2. CASE HoldAborted
  <2> DEFINE decision == Decide([Seen.status EXCEPT !.phase = "RolledBack"], 0, Total, FALSE)
  <2>1. PICK made : Apply(decision, made, FALSE)
    BY <1>2 DEF HoldAborted
  <2>2. decision \in Decisions /\ decision.status.index = Seen.status.index
    BY HoldTypes
  <2>3. ~HoldPaused
    BY <1>2 DEF HoldAborted, HoldPaused
  <2> HIDE DEF decision
  <2> QED
    BY <1>1, <2>1, <2>2, <2>3
<1>3. CASE HoldPaused
  <2> DEFINE decision == Decide([Seen.status EXCEPT !.phase = "Paused"],
                                Seen.status.weight, Total, TRUE)
  <2>1. PICK made : Apply(decision, made, FALSE)
    BY <1>3 DEF HoldPaused
  <2>2. /\ decision \in Decisions
        /\ decision.status.index = Seen.status.index
        /\ decision.status.weight = Seen.status.weight
    BY HoldTypes
  <2> HIDE DEF decision
  <2> QED
    BY <1>1, <2>1, <2>2
<1>4. CASE RollBackStuck
  <2> DEFINE decision == [RollbackDecision(Seen.status, Total)
                            EXCEPT !.status = [Seen.status EXCEPT !.phase = "RolledBack"]]
  <2>1. PICK made : Apply(decision, made, FALSE)
    BY <1>4 DEF RollBackStuck
  <2>2. decision \in Decisions
    BY HoldTypes
  <2>3. ~HoldAborted /\ ~HoldPaused
    BY <1>4 DEF RollBackStuck, Unheld, HoldAborted, HoldPaused
  <2> HIDE DEF decision
  <2> QED
    BY <1>1, <2>1, <2>2, <2>3
<1>5. CASE WalkSteps
  <2>1. PICK decision \in Decisions : \E made : \E probed \in BOOLEAN :
            Apply(decision, made, probed)
    BY <1>5, WalkType
  <2>2. ~HoldAborted /\ ~HoldPaused
    BY <1>5 DEF WalkSteps, Unheld, HoldAborted, HoldPaused
  <2> QED
    BY <1>1, <2>1, <2>2
<1> QED
  BY <1>2, <1>3, <1>4, <1>5

\* A command is obeyed on the status the reconcile holds.
LEMMA PromotedType ==
    ASSUME NEW spc \in Specs, spec = spc, NEW status \in Statuses
    PROVE  Promoted(status) \in Statuses
<1>1. status.index \in Nat /\ status.index + 1 \in Nat /\ status.weight \in 0..100
  BY DEF Statuses
<1>2. NextWeight(spec, status.index, status.weight) \in 0..100
  BY <1>1, NextWeightType
<1>3. \A phase \in RolloutPhases, index \in Nat, weight \in 0..100 :
          [status EXCEPT !.phase = phase, !.index = index, !.weight = weight] \in Statuses
  BY DEF Statuses
<1>4. "Progressing" \in RolloutPhases /\ "Healthy" \in RolloutPhases
  BY DEF RolloutPhases
<1>5. [status EXCEPT !.phase = "Healthy"] \in Statuses
  BY <1>4 DEF Statuses
<1> QED
  BY <1>1, <1>2, <1>3, <1>4, <1>5 DEF Promoted

\* The reconcile that obeyed a command will write a status of its type.
LEMMA ObeyType ==
    ASSUME TypeOK, NEW status \in Statuses, Obey(status), NEW obj \in Rollouts,
           Patch(obj), current' \in BOOLEAN
    PROVE  TypeOK'
<1>1. roc' \in Reconciles
  BY DEF Obey, Reconciles, TypeOK
<1>2. ro' \in Rollouts /\ roWatch' \in Seq(Rollouts)
  BY PatchType DEF TypeOK
<1>3. UNCHANGED <<spec, roCache, stable, canary, depCache, queued, timer, due, elapsed,
                  commands, faults, lost>>
  BY DEF Obey, deployments, time, bounds
<1> QED
  BY <1>1, <1>2, <1>3 DEF TypeOK

LEMMA CommandType ==
    ASSUME TypeOK, ClearCommand \/ ObeyPause \/ ObeyPromote \/ ObeyRollback
    PROVE  TypeOK'
<1>1. /\ ro \in Rollouts /\ ro.status \in Statuses
      /\ roc \in Reconciles /\ roc.status \in Statuses
  BY DEF TypeOK, Rollouts, Reconciles
<1>2. Patch(ro) <=> UNCHANGED rollout
  BY DEF Patch, NewVersion, rollout
<1>3. \A phase \in RolloutPhases : [roc.status EXCEPT !.phase = phase] \in Statuses
  BY <1>1 DEF Statuses
<1>4. CASE ClearCommand
  <2>1. [ro EXCEPT !.action = "none"] \in Rollouts
    BY <1>1 DEF Rollouts
  <2>2. ro' \in Rollouts /\ roWatch' \in Seq(Rollouts)
    BY <1>4, <2>1, PatchType DEF ClearCommand, TypeOK
  <2>3. Seen.action \in Actions \cup {"none"}
    BY SeenType DEF Rollouts
  <2>4. roc' \in Reconciles
    BY <1>1, <1>4, <2>3, RecordTypes DEF ClearCommand, Reconciles
  <2>5. queued' \in BOOLEAN /\ current' \in BOOLEAN
    BY <1>4 DEF ClearCommand
  <2>6. UNCHANGED <<spec, roCache, stable, canary, depCache, timer, due, elapsed,
                    commands, faults, lost>>
    BY <1>4 DEF ClearCommand, deployments, time, bounds
  <2> QED
    BY <2>2, <2>4, <2>5, <2>6 DEF TypeOK
<1>5. CASE ObeyPause
  <2>1. CASE roc.status.phase \in {"Healthy", "Degraded"}
    <3>1. Obey(roc.status) /\ Patch(ro) /\ current' = current
      BY <1>5, <2>1, <1>2 DEF ObeyPause
    <3>2. current' \in BOOLEAN
      BY <3>1 DEF TypeOK
    <3> QED
      BY <1>1, <3>1, <3>2, ObeyType
  <2>2. CASE roc.status.phase \notin {"Healthy", "Degraded"}
    <3>1. [ro EXCEPT !.paused = TRUE] \in Rollouts
      BY <1>1 DEF Rollouts
    <3>2. [roc.status EXCEPT !.phase = "Paused"] \in Statuses
      BY <1>3 DEF RolloutPhases
    <3>3. /\ Obey([roc.status EXCEPT !.phase = "Paused"])
          /\ Patch([ro EXCEPT !.paused = TRUE]) /\ current' = TRUE
      BY <1>5, <2>2 DEF ObeyPause, Flag
    <3> QED
      BY <3>1, <3>2, <3>3, ObeyType
  <2> QED
    BY <2>1, <2>2
<1>6. CASE ObeyPromote
  <2> DEFINE status == IF ro.aborted THEN roc.status ELSE Promoted(roc.status)
  <2>1. status \in Statuses
    <3>1. Promoted(roc.status) \in Statuses
      BY <1>1, PromotedType, RolloutAssumption DEF TypeOK
    <3> QED
      BY <1>1, <3>1
  <2>2. Obey(status)
    BY <1>6 DEF ObeyPromote
  <2> HIDE DEF status
  <2>3. CASE ro.paused /\ ~ro.aborted
    <3>1. [ro EXCEPT !.paused = FALSE] \in Rollouts
      BY <1>1 DEF Rollouts
    <3>2. Patch([ro EXCEPT !.paused = FALSE]) /\ current' = TRUE
      BY <1>6, <2>3 DEF ObeyPromote, Flag
    <3> QED
      BY <2>1, <2>2, <3>1, <3>2, ObeyType
  <2>4. CASE ~(ro.paused /\ ~ro.aborted)
    <3>1. Patch(ro) /\ current' = current
      BY <1>6, <2>4, <1>2 DEF ObeyPromote
    <3>2. current' \in BOOLEAN
      BY <3>1 DEF TypeOK
    <3> QED
      BY <1>1, <2>1, <2>2, <3>1, <3>2, ObeyType
  <2> QED
    BY <2>3, <2>4
<1>7. CASE ObeyRollback
  <2>1. [ro EXCEPT !.paused = FALSE, !.aborted = TRUE] \in Rollouts
    BY <1>1 DEF Rollouts
  <2>2. [roc.status EXCEPT !.phase = "RollingBack"] \in Statuses
    BY <1>3 DEF RolloutPhases
  <2>3. /\ Obey([roc.status EXCEPT !.phase = "RollingBack"])
        /\ Patch([ro EXCEPT !.paused = FALSE, !.aborted = TRUE]) /\ current' = TRUE
    BY <1>7 DEF ObeyRollback, Flag
  <2> QED
    BY <2>1, <2>2, <2>3, ObeyType
<1> QED
  BY <1>4, <1>5, <1>6, <1>7

\* The other steps of a reconcile.
LEMMA ReconcileType ==
    ASSUME TypeOK, Reconcile
    PROVE  TypeOK'
<1>1. /\ roc \in Reconciles /\ roc.status \in Statuses
      /\ ro \in Rollouts /\ roWatch \in Seq(Rollouts)
  BY DEF TypeOK, Reconciles
<1>2. CASE HoldTerminal
  BY <1>2 DEF HoldTerminal, TypeOK, rollout, deployments, time, bounds
<1>3. CASE StampPause
  <2>1. Seen.status.index \in Nat
    BY SeenType DEF Statuses
  <2>2. [ro EXCEPT !.pauseStart = Seen.status.index] \in Rollouts
    BY <1>1, <2>1 DEF Rollouts
  <2>3. ro' \in Rollouts /\ roWatch' \in Seq(Rollouts)
    BY <1>1, <1>3, <2>2, PatchType DEF StampPause
  <2>4. {elapsed', queued', timer'} \subseteq BOOLEAN
    BY <1>3 DEF StampPause
  <2>5. UNCHANGED <<spec, roCache, stable, canary, depCache, current, roc, due,
                    commands, faults, lost>>
    BY <1>3 DEF StampPause, deployments, bounds
  <2> QED
    BY <2>3, <2>4, <2>5 DEF TypeOK
<1>4. CASE ApplyDecision
  <2>1. stable \in Deployments /\ canary \in Deployments /\ roc.stable \in Int /\ roc.canary \in Int
    BY <1>1 DEF TypeOK, Reconciles
  <2>2. \A n \in Int : [stable EXCEPT !.replicas = n] \in Deployments
                      /\ [canary EXCEPT !.replicas = n] \in Deployments
    BY <2>1 DEF Deployments
  <2>3. stable' \in Deployments /\ canary' \in Deployments
    BY <1>4, <2>1, <2>2 DEF ApplyDecision
  <2>4. faults' \in 0..MaxFaults /\ lost' \in BOOLEAN
    BY <1>4, LoggedType DEF ApplyDecision
  <2>5. roc' \in Reconciles
    <3>1. \A n \in Int : [roc EXCEPT !.step = "status", !.stable = n, !.canary = n] \in Reconciles
      BY <1>1 DEF Reconciles
    <3>2. Unset \in Int
      BY DEF Unset
    <3>3. roc' = [roc EXCEPT !.step = "status", !.stable = Unset, !.canary = Unset]
      BY <1>4 DEF ApplyDecision
    <3> QED
      BY <3>1, <3>2, <3>3
  <2>6. UNCHANGED <<spec, ro, roWatch, roCache, depCache, queued, timer, current, due, elapsed,
                    commands>>
    BY <1>4 DEF ApplyDecision, rollout, time
  <2> QED
    BY <2>3, <2>4, <2>5, <2>6 DEF TypeOK
<1>5. CASE UpdateStatus
  <2>1. [ro EXCEPT !.status = roc.status] \in Rollouts
    BY <1>1 DEF Rollouts
  <2>2. ro' \in Rollouts /\ roWatch' \in Seq(Rollouts)
    <3>1. CASE current
      BY <1>1, <1>5, <2>1, <3>1, PatchType DEF UpdateStatus
    <3>2. CASE ~current
      BY <1>1, <1>5, <3>2 DEF UpdateStatus, rollout
    <3> QED
      BY <3>1, <3>2
  <2>3. roc' \in Reconciles
    BY <1>5, RecordTypes DEF UpdateStatus
  <2>4. due' \in BOOLEAN /\ timer' \in BOOLEAN /\ queued' \in BOOLEAN
    BY <1>5, Zenon DEF UpdateStatus, TypeOK
  <2>5. UNCHANGED <<spec, roCache, stable, canary, depCache, current, elapsed, commands,
                    faults, lost>>
    BY <1>5 DEF UpdateStatus, deployments, bounds
  <2> QED
    BY <2>2, <2>3, <2>4, <2>5 DEF TypeOK
<1> QED
  BY <1>2, <1>3, <1>4, <1>5, CommandType, DecisionType DEF Reconcile

\* What happens around the controller, and what goes wrong.
LEMMA EnvironmentType ==
    ASSUME TypeOK,
           \/ SyncRollout \/ SyncDeployments \/ TimerFires
           \/ PodsFollow \/ PodsFail \/ HealthCheckDue \/ PauseElapses
           \/ \E action \in Actions : RolloutControl(action)
           \/ CallFails \/ Restart
    PROVE  TypeOK'
<1> USE DEF TypeOK
<1>1. CASE SyncRollout
  <2>1. Head(roWatch) \in Rollouts /\ Tail(roWatch) \in Seq(Rollouts)
    BY <1>1, HeadTailProperties DEF SyncRollout
  <2> QED
    BY <1>1, <2>1 DEF SyncRollout, deployments, time, bounds
<1>2. CASE SyncDeployments
  BY <1>2 DEF SyncDeployments, rollout, deployments, time, bounds
<1>3. CASE TimerFires
  BY <1>3 DEF TimerFires, rollout, deployments, time, bounds
<1>4. CASE PodsFollow
  <2>1. canary' \in Deployments
    BY <1>4 DEF PodsFollow, Deployments
  <2> QED
    BY <1>4, <2>1 DEF PodsFollow, rollout, control, time, bounds
<1>5. CASE PodsFail
  <2>1. canary' \in Deployments
    <3>1. \A n \in Int, stuck \in BOOLEAN :
              [canary EXCEPT !.ready = n, !.stuck = stuck] \in Deployments
      BY DEF Deployments
    <3>2. canary' = [canary EXCEPT !.ready = 0, !.stuck = TRUE]
      BY <1>5 DEF PodsFail
    <3>3. 0 \in Int /\ TRUE \in BOOLEAN
      OBVIOUS
    <3> QED
      BY <3>1, <3>2, <3>3, Zenon
  <2>2. faults' \in 0..MaxFaults
    BY <1>5, FaultType DEF PodsFail
  <2> QED
    BY <1>5, <2>1, <2>2 DEF PodsFail, rollout, control, time
<1>6. CASE HealthCheckDue
  BY <1>6 DEF HealthCheckDue, rollout, deployments, control, bounds
<1>7. CASE PauseElapses
  BY <1>7 DEF PauseElapses, rollout, deployments, control, bounds
<1>8. ASSUME NEW action \in Actions, RolloutControl(action) PROVE TypeOK'
  <2>1. [ro EXCEPT !.action = action] \in Rollouts
    BY DEF Rollouts
  <2>2. ro' \in Rollouts /\ roWatch' \in Seq(Rollouts)
    BY <1>8, <2>1, PatchType DEF RolloutControl
  <2>3. commands' \in 0..MaxCommands
    BY <1>8, RolloutAssumption DEF RolloutControl
  <2>4. current' \in BOOLEAN
    BY <1>8 DEF RolloutControl
  <2> QED
    BY <1>8, <2>2, <2>3, <2>4 DEF RolloutControl, deployments, time
<1>9. CASE CallFails
  <2>1. faults' \in 0..MaxFaults
    BY <1>9, FaultType DEF CallFails
  <2> QED
    BY <1>9, <2>1, RecordTypes DEF CallFails, rollout, deployments, time
<1>10. CASE Restart
  <2>1. faults' \in 0..MaxFaults
    BY <1>10, FaultType DEF Restart
  <2>2. << >> \in Seq(Rollouts)
    BY EmptySeq
  <2>3. depCache' \in [stable : Deployments, canary : Deployments]
    BY <1>10 DEF Restart
  <2> QED
    BY <1>10, <2>1, <2>2, <2>3, RecordTypes DEF Restart, deployments, time
<1> QED
  BY <1>1, <1>2, <1>3, <1>4, <1>5, <1>6, <1>7, <1>8, <1>9, <1>10

LEMMA StepKeepsType == TypeOK /\ [Next]_vars => TypeOK'
<1>1. TypeOK /\ UNCHANGED vars => TypeOK'
  BY DEF TypeOK, vars, rollout, deployments, control, time, bounds
<1> QED
  BY <1>1, ReconcileType, EnvironmentType DEF Next

\* The Rollout, its Deployments and the reconcile in hand are of their types: in
\* particular every weight the engine computes is a percentage (Evaluate).
THEOREM TypeCorrect == Spec => []TypeOK
BY InitType, StepKeepsType, PTL DEF Spec
-----------------------------------------------------------------------------
(* The hold flags. *)

\* A write is at the end of the stream.
LEMMA PatchCatchesUp ==
    ASSUME roWatch \in Seq(Rollouts), CacheCatchesUp, NEW obj \in Rollouts,
           Patch(obj) \/ NewVersion(obj), UNCHANGED roCache
    PROVE  CacheCatchesUp'
<1>1. CASE NewVersion(obj)
  <2>1. /\ roWatch' \in Seq(Rollouts)
        /\ Len(roWatch') = Len(roWatch) + 1
        /\ roWatch'[Len(roWatch) + 1] = obj
    BY <1>1, AppendProperties DEF NewVersion
  <2>2. roWatch' # << >>
    BY <2>1, LenProperties, EmptySeq
  <2> QED
    BY <1>1, <2>1, <2>2 DEF NewVersion, CacheCatchesUp
<1>2. CASE UNCHANGED rollout
  BY <1>2 DEF rollout, CacheCatchesUp
<1> QED
  BY <1>1, <1>2 DEF Patch

\* What has been delivered leaves the stream at its front.
LEMMA SyncCatchesUp ==
    ASSUME TypeOK, CacheCatchesUp, SyncRollout
    PROVE  CacheCatchesUp'
<1>1. roWatch \in Seq(Rollouts) /\ roWatch # << >>
  BY DEF TypeOK, SyncRollout
<1>2. /\ roCache' = Head(roWatch) /\ roWatch' = Tail(roWatch) /\ ro' = ro
  BY DEF SyncRollout
<1>3. /\ Tail(roWatch) \in Seq(Rollouts)
      /\ Len(Tail(roWatch)) = Len(roWatch) - 1
      /\ \A i \in 1..(Len(roWatch) - 1) : Tail(roWatch)[i] = roWatch[i + 1]
  BY <1>1, HeadTailProperties
<1>4. Len(roWatch) \in Nat /\ Len(roWatch) >= 1
  BY <1>1, EmptySeq, LenProperties
<1>5. CASE Tail(roWatch) = << >>
  <2>1. Len(roWatch) = 1
    <3>1. Len(<< >>) = 0
      OBVIOUS
    <3>2. Len(Tail(roWatch)) = 0
      BY <1>5, <3>1, Zenon
    <3>3. Len(Tail(roWatch)) = Len(roWatch) - 1 /\ Len(roWatch) \in Nat
      BY <1>3, <1>4
    <3> QED
      BY <3>2, <3>3
  <2> QED
    BY <1>1, <1>2, <1>5, <2>1 DEF CacheCatchesUp
<1>6. CASE Tail(roWatch) # << >>
  <2>1. Len(roWatch) - 1 \in 1..(Len(roWatch) - 1)
    BY <1>3, <1>4, <1>6, EmptySeq
  <2>2. Tail(roWatch)[Len(roWatch) - 1] = roWatch[Len(roWatch)]
    BY <1>3, <1>4, <2>1
  <2> QED
    BY <1>1, <1>2, <1>3, <1>6, <2>2 DEF CacheCatchesUp
<1> QED
  BY <1>5, <1>6

\* A reconcile that is idle holds no copy.
LEMMA IdleCopyHolds ==
    ASSUME roc'.step = "idle"
    PROVE  CommandCopyHolds' /\ DecisionHeedsFlags' /\ DecisionHeedsEnd'
BY DEF CommandCopyHolds, DecisionHeedsFlags, DecisionHeedsEnd, Deciding

\* Nor is a copy touched by a step that leaves the Rollout and the reconcile alone.
LEMMA QuietStep ==
    ASSUME DecisionsHeed, UNCHANGED <<ro, roc, current>>
    PROVE  CommandCopyHolds' /\ DecisionHeedsFlags' /\ DecisionHeedsEnd'
BY DEF DecisionsHeed, CommandCopyHolds, DecisionHeedsFlags, DecisionHeedsEnd, Deciding

LEMMA InitCopies == Init => DecisionsHeed
BY DEF Init, DecisionsHeed, CacheCatchesUp, CommandCopyHolds, DecisionHeedsFlags,
       DecisionHeedsEnd, Deciding, RoIdle

\* The steps of a reconcile that obeys a command.
LEMMA CommandCopies ==
    ASSUME TypeOK, DecisionsHeed, ClearCommand \/ ObeyPause \/ ObeyPromote \/ ObeyRollback
    PROVE  DecisionsHeed'
<1>1. ro \in Rollouts /\ ro.status \in Statuses /\ roWatch \in Seq(Rollouts)
  BY DEF TypeOK, Rollouts
<1>2. Patch(ro) <=> UNCHANGED rollout
  BY DEF Patch, NewVersion, rollout
<1>3. \A obj : Patch(obj) => ro' = obj
  BY DEF Patch, NewVersion, rollout
<1>4. CASE ClearCommand
  <2>1. [ro EXCEPT !.action = "none"] \in Rollouts
    BY <1>1 DEF Rollouts
  <2>2. CacheCatchesUp'
    BY <1>1, <1>4, <2>1, PatchCatchesUp DEF ClearCommand, DecisionsHeed
  <2>3. ro'.status = ro.status
    BY <1>1, <1>3, <1>4 DEF ClearCommand, Rollouts
  <2>4. roc'.step = "command" /\ roc'.status = ro.status
    BY <1>4 DEF ClearCommand, RoIdle
  <2> QED
    BY <2>2, <2>3, <2>4 DEF DecisionsHeed, CommandCopyHolds, DecisionHeedsFlags,
       DecisionHeedsEnd, Deciding
<1>5. ASSUME roc.step = "command", roc.action # "none", NEW status \in Statuses, Obey(status),
             NEW obj \in Rollouts, Patch(obj), obj.status = ro.status,
             obj.aborted => status.index = ro.status.index,
             obj.paused /\ ~obj.aborted => /\ status.index = ro.status.index
                                          /\ status.weight = ro.status.weight
      PROVE  DecisionsHeed'
  <2>1. CacheCatchesUp'
    BY <1>1, <1>5, PatchCatchesUp DEF Obey, DecisionsHeed
  <2>2. roc'.step = "status" /\ roc'.status = status /\ roc'.action # "none"
    BY <1>5 DEF Obey, TypeOK, Reconciles
  <2>3. ro' = obj
    BY <1>3, <1>5
  <2> QED
    BY <1>5, <2>1, <2>2, <2>3 DEF DecisionsHeed, CommandCopyHolds, DecisionHeedsFlags,
       DecisionHeedsEnd, Deciding
<1>6. roc.step = "command" => roc.status = ro.status
  BY DEF DecisionsHeed, CommandCopyHolds
<1>7. \A phase \in RolloutPhases :
          /\ [ro.status EXCEPT !.phase = phase] \in Statuses
          /\ [ro.status EXCEPT !.phase = phase].index = ro.status.index
          /\ [ro.status EXCEPT !.phase = phase].weight = ro.status.weight
  BY <1>1 DEF Statuses
<1>8. CASE ObeyPause
  <2>1. roc.step = "command" /\ roc.action # "none" /\ roc.status = ro.status
    BY <1>6, <1>8 DEF ObeyPause, Commanded
  <2>2. CASE roc.status.phase \in {"Healthy", "Degraded"}
    BY <1>1, <1>2, <1>5, <1>8, <2>1, <2>2 DEF ObeyPause
  <2>3. CASE roc.status.phase \notin {"Healthy", "Degraded"}
    <3> DEFINE status == [ro.status EXCEPT !.phase = "Paused"]
               obj == [ro EXCEPT !.paused = TRUE]
    <3>1. obj \in Rollouts /\ obj.status = ro.status
      BY <1>1 DEF Rollouts
    <3>2. /\ status \in Statuses
          /\ status.index = ro.status.index
          /\ status.weight = ro.status.weight
      BY <1>7 DEF RolloutPhases
    <3>3. Obey(status) /\ Patch(obj)
      BY <1>8, <2>1, <2>3 DEF ObeyPause, Flag
    <3> HIDE DEF status, obj
    <3> QED
      BY <1>5, <2>1, <3>1, <3>2, <3>3
  <2> QED
    BY <2>2, <2>3
<1>9. CASE ObeyPromote
  <2>1. roc.step = "command" /\ roc.action # "none" /\ roc.status = ro.status
    BY <1>6, <1>9 DEF ObeyPromote, Commanded
  <2> DEFINE status == IF ro.aborted THEN ro.status ELSE Promoted(ro.status)
  <2>2. status \in Statuses
    <3>1. Promoted(ro.status) \in Statuses
      BY <1>1, PromotedType, RolloutAssumption DEF TypeOK
    <3> QED
      BY <1>1, <3>1
  <2>3. Obey(status)
    BY <1>9, <2>1 DEF ObeyPromote
  <2>4. ro.aborted => status = ro.status
    OBVIOUS
  <2> HIDE DEF status
  <2>5. CASE ro.paused /\ ~ro.aborted
    <3> DEFINE obj == [ro EXCEPT !.paused = FALSE]
    <3>1. /\ obj \in Rollouts /\ obj.status = ro.status
          /\ ~obj.paused /\ obj.aborted = ro.aborted
      BY <1>1 DEF Rollouts
    <3>2. Patch(obj)
      BY <1>9, <2>5 DEF ObeyPromote, Flag
    <3> HIDE DEF obj
    <3> QED
      BY <1>5, <2>1, <2>2, <2>3, <2>5, <3>1, <3>2
  <2>6. CASE ~(ro.paused /\ ~ro.aborted)
    <3>1. Patch(ro)
      BY <1>2, <1>9, <2>6 DEF ObeyPromote
    <3> QED
      BY <1>1, <1>5, <2>1, <2>2, <2>3, <2>4, <2>6, <3>1
  <2> QED
    BY <2>5, <2>6
<1>10. CASE ObeyRollback
  <2>1. roc.step = "command" /\ roc.action # "none" /\ roc.status = ro.status
    BY <1>6, <1>10 DEF ObeyRollback, Commanded
  <2> DEFINE status == [ro.status EXCEPT !.phase = "RollingBack"]
             obj == [ro EXCEPT !.paused = FALSE, !.aborted = TRUE]
  <2>2. obj \in Rollouts /\ obj.status = ro.status
    BY <1>1 DEF Rollouts
  <2>3. /\ status \in Statuses
        /\ status.index = ro.status.index
        /\ status.weight = ro.status.weight
    BY <1>7 DEF RolloutPhases
  <2>4. Obey(status) /\ Patch(obj)
    BY <1>10, <2>1 DEF ObeyRollback, Flag
  <2> HIDE DEF status, obj
  <2> QED
    BY <1>5, <2>1, <2>2, <2>3, <2>4
<1> QED
  BY <1>4, <1>8, <1>9, <1>10

\* A decision is taken on the cached copy; if that is current, the flags it heeds are
\* those of the Rollout.
LEMMA DecisionCopies ==
    ASSUME TypeOK, DecisionsHeed, HoldAborted \/ HoldPaused \/ RollBackStuck \/ WalkSteps
    PROVE  DecisionsHeed'
<1>1. /\ roc'.step = "scale"
      /\ current' = (roWatch = << >>)
      /\ UNCHANGED <<ro, roWatch, roCache>>
      /\ HoldAborted => roc'.status.index = Seen.status.index
      /\ HoldPaused => /\ roc'.status.index = Seen.status.index
                       /\ roc'.status.weight = Seen.status.weight
  BY DecisionType
<1>2. CacheCatchesUp' /\ CommandCopyHolds'
  BY <1>1 DEF DecisionsHeed, CacheCatchesUp, CommandCopyHolds
<1>3. /\ Seen.status.index = roCache.status.index
      /\ Seen.status.weight = roCache.status.weight
      /\ Seen.aborted = roCache.aborted
      /\ Seen.paused = roCache.paused
  BY SeenType
<1>4. current' => roCache = ro
  BY <1>1 DEF DecisionsHeed, CacheCatchesUp
<1>5. Seen.aborted => HoldAborted
  BY DEF HoldPaused, RollBackStuck, WalkSteps, Unheld
<1>6. Seen.paused /\ ~Seen.aborted => HoldPaused
  BY DEF HoldAborted, RollBackStuck, WalkSteps, Unheld
<1>7. DecisionHeedsFlags'
  <2> SUFFICES ASSUME current'
               PROVE  /\ ro.aborted => roc'.status.index = ro.status.index
                      /\ ro.paused /\ ~ro.aborted =>
                            /\ roc'.status.index = ro.status.index
                            /\ roc'.status.weight = ro.status.weight
    BY <1>1 DEF DecisionHeedsFlags
  <2>1. roCache = ro
    BY <1>4
  <2> QED
    BY <1>1, <1>3, <1>5, <1>6, <2>1
<1>8. DecisionHeedsEnd'
  <2>1. roCache = ro /\ ro.status.phase \in {"Failed", "RolledBack"}
          => Seen.status.phase \in {"Failed", "RolledBack"}
    BY DEF Seen, TypeOK, Rollouts, Statuses
  <2>2. Seen.status.phase \in {"Failed", "RolledBack"} => HoldAborted \/ HoldPaused
    BY DEF RollBackStuck, WalkSteps, Unheld
  <2> QED
    BY <1>1, <1>3, <1>4, <2>1, <2>2 DEF DecisionHeedsEnd, HoldAborted, HoldPaused
<1> QED
  BY <1>2, <1>7, <1>8 DEF DecisionsHeed

LEMMA StepKeepsCopies == TypeOK /\ DecisionsHeed /\ [Next]_vars => DecisionsHeed'
<1> SUFFICES ASSUME TypeOK, DecisionsHeed, [Next]_vars PROVE DecisionsHeed'
  OBVIOUS
<1>1. /\ ro \in Rollouts /\ roWatch \in Seq(Rollouts)
      /\ CacheCatchesUp /\ CommandCopyHolds /\ DecisionHeedsFlags /\ DecisionHeedsEnd
  BY DEF TypeOK, DecisionsHeed
<1>2. UNCHANGED <<ro, roWatch, roCache>> => CacheCatchesUp'
  BY <1>1 DEF CacheCatchesUp
<1>3. CASE UNCHANGED vars
  BY <1>2, <1>3, QuietStep DEF vars, rollout, control, DecisionsHeed
<1>4. CASE SyncRollout
  BY <1>1, <1>4, SyncCatchesUp, QuietStep DEF SyncRollout, DecisionsHeed
<1>5. CASE SyncDeployments \/ TimerFires \/ PodsFollow \/ PodsFail \/ HealthCheckDue
           \/ PauseElapses \/ HoldTerminal
  BY <1>2, <1>5, QuietStep DEF SyncDeployments, TimerFires, PodsFollow, PodsFail,
     HealthCheckDue, PauseElapses, HoldTerminal, rollout, control, DecisionsHeed
<1>6. ASSUME NEW action \in Actions, RolloutControl(action) PROVE DecisionsHeed'
  <2> DEFINE obj == [ro EXCEPT !.action = action]
  <2>1. obj \in Rollouts /\ obj.status = ro.status /\ (ro.action = action => obj = ro)
    BY <1>1 DEF Rollouts
  <2>2. Patch(obj) /\ UNCHANGED <<roCache, roc>> /\ current' = (current /\ ro.action = action)
    BY <1>6 DEF RolloutControl
  <2>3. ro' = obj
    BY <2>2 DEF Patch, NewVersion, rollout
  <2> HIDE DEF obj
  <2>4. CacheCatchesUp'
    BY <1>1, <2>1, <2>2, PatchCatchesUp
  <2>5. CommandCopyHolds'
    BY <1>1, <2>1, <2>2, <2>3 DEF CommandCopyHolds
  <2>6. DecisionHeedsFlags'
    BY <1>1, <2>1, <2>2, <2>3 DEF DecisionHeedsFlags, Deciding
  <2>7. DecisionHeedsEnd'
    BY <1>1, <2>1, <2>2, <2>3 DEF DecisionHeedsEnd, Deciding
  <2> QED
    BY <2>4, <2>5, <2>6, <2>7 DEF DecisionsHeed
<1>7. CASE StampPause
  <2> DEFINE obj == [ro EXCEPT !.pauseStart = Seen.status.index]
  <2>1. Seen.status.index \in Nat
    BY SeenType DEF Statuses
  <2>2. obj \in Rollouts
    BY <1>1, <2>1 DEF Rollouts
  <2>3. NewVersion(obj) /\ UNCHANGED <<roCache, roc>> /\ roc.step = "idle"
    BY <1>7 DEF StampPause, Unheld, Walking, Work
  <2>4. CacheCatchesUp'
    BY <1>1, <2>2, <2>3, PatchCatchesUp
  <2> QED
    BY <2>3, <2>4, IdleCopyHolds DEF DecisionsHeed
<1>8. CASE ApplyDecision
  <2>1. /\ UNCHANGED <<ro, roWatch, roCache, current>>
        /\ roc.step = "scale" /\ roc'.step = "status"
        /\ roc'.status = roc.status /\ roc'.action = roc.action
    BY <1>8 DEF ApplyDecision, rollout, TypeOK, Reconciles
  <2> QED
    BY <1>1, <1>2, <2>1 DEF DecisionsHeed, CommandCopyHolds, DecisionHeedsFlags,
       DecisionHeedsEnd, Deciding
<1>9. CASE UpdateStatus
  <2>1. [ro EXCEPT !.status = roc.status] \in Rollouts
    BY <1>1 DEF TypeOK, Reconciles, Rollouts
  <2>2. CacheCatchesUp'
    <3>1. CASE current
      BY <1>1, <1>9, <2>1, <3>1, PatchCatchesUp DEF UpdateStatus
    <3>2. CASE ~current
      BY <1>2, <1>9, <3>2 DEF UpdateStatus, rollout
    <3> QED
      BY <3>1, <3>2
  <2>3. roc'.step = "idle"
    BY <1>9 DEF UpdateStatus, RoIdle
  <2> QED
    BY <2>2, <2>3, IdleCopyHolds DEF DecisionsHeed
<1>10. CASE CallFails
  BY <1>2, <1>10, IdleCopyHolds DEF CallFails, RoIdle, rollout, DecisionsHeed
<1>11. CASE Restart
  <2>1. CacheCatchesUp' /\ roc'.step = "idle"
    BY <1>11 DEF Restart, CacheCatchesUp, RoIdle
  <2> QED
    BY <2>1, IdleCopyHolds DEF DecisionsHeed
<1> QED
  BY <1>3, <1>4, <1>5, <1>6, <1>7, <1>8, <1>9, <1>10, <1>11, CommandCopies, DecisionCopies
     DEF Next, Reconcile

\* A status that passes the version check was decided on the flags as they are (the
\* inductive invariant behind the theorems below).
THEOREM CopiesAreCurrent == Spec => []DecisionsHeed
<1>1. Init => DecisionsHeed
  BY InitCopies
<1> QED
  BY <1>1, TypeCorrect, StepKeepsCopies, PTL DEF Spec

\* What a step may do to the Rollout: only the status update moves it, and only as far as
\* the flags allow; only a promote lowers a flag, and never that of an abort.
LEMMA StepHeedsFlags ==
    ASSUME TypeOK, DecisionsHeed, [Next]_vars
    PROVE  /\ ro.aborted => ro'.aborted /\ ro'.status.index = ro.status.index
           /\ ro.paused /\ ro'.paused /\ ~ro'.aborted =>
                 /\ ro'.status.index = ro.status.index
                 /\ ro'.status.weight = ro.status.weight
           /\ ro.status.phase \in {"Failed", "RolledBack"} /\ ro'.status.phase # ro.status.phase
                 => roc.action # "none" \/ ro.paused \/ ro.aborted
<1>1. ro \in Rollouts
  BY DEF TypeOK
<1>2. \A obj : Patch(obj) \/ NewVersion(obj) => ro' = obj
  BY DEF Patch, NewVersion, rollout
<1>3. CASE UNCHANGED ro
  BY <1>3
<1>4. CASE \E action \in Actions : RolloutControl(action)
  <2>1. PICK action \in Actions : ro' = [ro EXCEPT !.action = action]
    BY <1>2, <1>4 DEF RolloutControl
  <2> QED
    BY <1>1, <2>1 DEF Rollouts
<1>5. CASE ClearCommand
  <2>1. ro' = [ro EXCEPT !.action = "none"]
    BY <1>2, <1>5 DEF ClearCommand
  <2> QED
    BY <1>1, <2>1 DEF Rollouts
<1>6. CASE ObeyPause
  <2>1. ro' = ro \/ ro' = [ro EXCEPT !.paused = TRUE]
    BY <1>2, <1>6 DEF ObeyPause, Flag, rollout
  <2> QED
    BY <1>1, <2>1 DEF Rollouts
<1>7. CASE ObeyPromote
  <2>1. ro' = ro \/ (~ro.aborted /\ ro' = [ro EXCEPT !.paused = FALSE])
    BY <1>2, <1>7 DEF ObeyPromote, Flag, rollout
  <2> QED
    BY <1>1, <2>1 DEF Rollouts
<1>8. CASE ObeyRollback
  <2>1. ro' = [ro EXCEPT !.paused = FALSE, !.aborted = TRUE]
    BY <1>2, <1>8 DEF ObeyRollback, Flag
  <2> QED
    BY <1>1, <2>1 DEF Rollouts
<1>9. CASE StampPause
  <2>1. ro' = [ro EXCEPT !.pauseStart = Seen.status.index]
    BY <1>2, <1>9 DEF StampPause
  <2> QED
    BY <1>1, <2>1 DEF Rollouts
<1>10. CASE UpdateStatus
  <2>1. CASE ~current
    BY <1>3, <1>10, <2>1 DEF UpdateStatus, rollout
  <2>2. CASE current
    <3>1. ro' = [ro EXCEPT !.status = roc.status]
      BY <1>2, <1>10, <2>2 DEF UpdateStatus
    <3>2. /\ ro'.status = roc.status
          /\ ro'.paused = ro.paused
          /\ ro'.aborted = ro.aborted
      BY <1>1, <3>1 DEF Rollouts
    <3>3. roc.step = "status"
      BY <1>10 DEF UpdateStatus
    <3> QED
      BY <2>2, <3>2, <3>3 DEF DecisionsHeed, DecisionHeedsFlags, DecisionHeedsEnd, Deciding
  <2> QED
    BY <2>1, <2>2
<1>11. CASE SyncRollout \/ SyncDeployments \/ TimerFires \/ PodsFollow \/ PodsFail
            \/ HealthCheckDue \/ PauseElapses \/ HoldTerminal \/ ApplyDecision
            \/ CallFails \/ Restart \/ UNCHANGED vars
  BY <1>3, <1>11 DEF SyncRollout, SyncDeployments, TimerFires, PodsFollow, PodsFail,
     HealthCheckDue, PauseElapses, HoldTerminal, ApplyDecision, CallFails, Restart,
     rollout, vars
<1>12. CASE HoldAborted \/ HoldPaused \/ RollBackStuck \/ WalkSteps
  BY <1>3, <1>12, DecisionType
<1> QED
  BY <1>4, <1>5, <1>6, <1>7, <1>8, <1>9, <1>10, <1>11, <1>12 DEF Next, Reconcile

\* A rollback stands, whatever the commands, the lag and the faults (applyControlCommand).
THEOREM AbortIsFinal == Spec => AbortSticks
<1>1. TypeOK /\ DecisionsHeed /\ [Next]_vars
        => [ro.aborted => ro'.aborted /\ ro'.status.index = ro.status.index]_vars
  BY StepHeedsFlags
<1> QED
  BY <1>1, TypeCorrect, CopiesAreCurrent, PTL DEF Spec, AbortSticks

\* A paused rollout keeps its step and its weight (the paused hold of Reconcile).
THEOREM PauseIsKept == Spec => PauseHolds
<1>1. TypeOK /\ DecisionsHeed /\ [Next]_vars
        => [ro.paused /\ ro'.paused /\ ~ro'.aborted =>
              /\ ro'.status.index = ro.status.index
              /\ ro'.status.weight = ro.status.weight]_vars
  BY StepHeedsFlags
<1> QED
  BY <1>1, TypeCorrect, CopiesAreCurrent, PTL DEF Spec, PauseHolds

\* What is over stays so, unless an operator commands otherwise (the terminal hold).
THEOREM EndIsKept == Spec => OnlyCommandsReopen
<1>1. TypeOK /\ DecisionsHeed /\ [Next]_vars
        => [ro.status.phase \in {"Failed", "RolledBack"} /\ ro'.status.phase # ro.status.phase
              => roc.action # "none" \/ ro.paused \/ ro.aborted]_vars
  BY StepHeedsFlags
<1> QED
  BY <1>1, TypeCorrect, CopiesAreCurrent, PTL DEF Spec, OnlyCommandsReopen
=============================================================================
