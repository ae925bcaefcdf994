------------------------------ MODULE Rollout ------------------------------
(***************************************************************************)
(* The Rollout controller (rollout_controller.go) and the Hub's operator   *)
(* commands (rollout_control_handler.go) on one Rollout with its stable    *)
(* and its canary Deployment.  A reconcile reads the Rollout and the       *)
(* Deployments from caches that lag behind, decides, scales the            *)
(* Deployments by patches that no version check guards, and writes the     *)
(* Rollout's status with an update that one does.                          *)
(***************************************************************************)
EXTENDS CanaryEngine

CONSTANTS
    RolloutSpecs,  \* the specs a Rollout may be created with
    LiveStable,    \* the replicas of a stable Deployment that may be there already
    MaxCommands,   \* bound: operator commands
    MaxFaults,     \* bound: failed calls, restarts and pods that fail
    MaxLag         \* bound: how far the Rollout's cache is behind when a write is made

ASSUME RolloutAssumption ==
    /\ RolloutSpecs \subseteq Specs
    /\ LiveStable \subseteq Nat
    /\ MaxCommands \in Nat /\ MaxFaults \in Nat /\ MaxLag \in Nat

Actions == {"pause", "promote", "rollback"}
DefaultReplicas == 2

VARIABLES
    spec,      \* the Rollout's Spec, never written
    ro,        \* its status and its annotations
    roCache,
    roWatch,   \* versions of ro the cache has not received
    stable,    \* the Deployments
    canary,
    depCache,  \* the Deployments as cached
    queued,    \* the Rollout is in the controller's work queue
    timer,     \* it will be put there after a while (RequeueAfter)
    current,   \* the copy the reconcile works on is the current version of ro
    roc,       \* the reconcile in hand
    due,       \* the last health check written is an interval old
    elapsed,   \* the pause stamped in ro is over
    commands,
    faults,
    lost       \* a Create or a scale failed, of which nobody heard but the log

rollout == <<ro, roWatch>>
deployments == <<stable, canary>>
time == <<due, elapsed>>
control == <<queued, timer, current, roc>>
bounds == <<commands, faults, lost>>
vars == <<spec, rollout, roCache, deployments, depCache, control, time, bounds>>

\* action: annRolloutAction; paused, aborted: the hold flags; pauseStart: the step in
\* PauseStartAnnotation.
Rollouts ==
    [status : Statuses, action : Actions \cup {"none"}, paused : BOOLEAN,
     aborted : BOOLEAN, pauseStart : Nat \cup {Unset}]
NewRollout ==
    [status |-> [phase |-> "", index |-> 0, weight |-> 0, failures |-> 0],
     action |-> "none", paused |-> FALSE, aborted |-> FALSE, pauseStart |-> Unset]

\* replicas: Spec.Replicas; ready: AvailableReplicas; stuck: the ReplicaFailure condition.
Deployments == [exists : BOOLEAN, replicas : Int, ready : Int, stuck : BOOLEAN]
NoDeployment == [exists |-> FALSE, replicas |-> 0, ready |-> 0, stuck |-> FALSE]
NewDeployment(replicas) == [NoDeployment EXCEPT !.exists = TRUE, !.replicas = replicas]

\* step: what the reconcile does next; action: the command it obeys; status: what it will
\* write; stable, canary: the scales it will patch, if any.
Reconciles ==
    [step : {"idle", "command", "scale", "status"}, action : Actions \cup {"none"},
     status : Statuses, stable : Int, canary : Int, again : BOOLEAN, probed : BOOLEAN]
RoIdle ==
    [step |-> "idle", action |-> "none", status |-> NewRollout.status, stable |-> Unset,
     canary |-> Unset, again |-> FALSE, probed |-> FALSE]

TypeOK ==
    /\ spec \in RolloutSpecs
    /\ ro \in Rollouts /\ roCache \in Rollouts /\ roWatch \in Seq(Rollouts)
    /\ stable \in Deployments /\ canary \in Deployments
    /\ depCache \in [stable : Deployments, canary : Deployments]
    /\ queued \in BOOLEAN /\ timer \in BOOLEAN /\ current \in BOOLEAN
    /\ roc \in Reconciles
    /\ due \in BOOLEAN /\ elapsed \in BOOLEAN
    /\ commands \in 0..MaxCommands /\ faults \in 0..MaxFaults
    /\ lost \in BOOLEAN

Init ==
    /\ spec \in RolloutSpecs
    /\ ro = NewRollout /\ roCache = NewRollout /\ roWatch = << >>
    /\ stable \in {NoDeployment} \cup {NewDeployment(n) : n \in LiveStable}
    /\ canary = NoDeployment
    /\ depCache = [stable |-> stable, canary |-> canary]
    /\ queued = TRUE /\ timer = FALSE /\ current = FALSE
    /\ roc = RoIdle
    /\ due = TRUE /\ elapsed = FALSE
    /\ commands = 0 /\ faults = 0 /\ lost = FALSE
-----------------------------------------------------------------------------
(* The API server, the caches, the pods and the time. *)

WithinLag == Len(roWatch) <= MaxLag

NewVersion(obj) == ro' = obj /\ roWatch' = Append(roWatch, obj)
Patch(obj) == IF obj = ro THEN UNCHANGED rollout ELSE NewVersion(obj)

Fault == faults < MaxFaults /\ faults' = faults + 1

\* A call that may fail and is not made again.
Logged(done) ==
    IF done THEN UNCHANGED <<faults, lost>> ELSE Fault /\ lost' = TRUE

SyncRollout ==
    /\ roWatch # << >>
    /\ roCache' = Head(roWatch)
    /\ roWatch' = Tail(roWatch)
    /\ queued' = TRUE
    /\ UNCHANGED <<spec, ro, deployments, depCache, timer, current, roc, time, bounds>>

SyncDeployments ==
    /\ depCache # [stable |-> stable, canary |-> canary]
    /\ depCache' = [stable |-> stable, canary |-> canary]
    /\ queued' = TRUE
    /\ UNCHANGED <<spec, rollout, roCache, deployments, timer, current, roc, time, bounds>>

TimerFires ==
    /\ timer
    /\ timer' = FALSE
    /\ queued' = TRUE
    /\ UNCHANGED <<spec, rollout, roCache, deployments, depCache, current, roc, time, bounds>>

\* The Deployment controller catches up with Spec.Replicas.
PodsFollow ==
    /\ canary.replicas = 0 \/ ~canary.stuck
    /\ canary.ready # canary.replicas \/ canary.stuck
    /\ canary' = [canary EXCEPT !.ready = canary.replicas, !.stuck = FALSE]
    /\ UNCHANGED <<spec, rollout, roCache, stable, depCache, control, time, bounds>>

\* The pods of the canary are lost, and cannot be replaced.
PodsFail ==
    /\ canary.replicas > 0
    /\ ~canary.stuck
    /\ Fault
    /\ canary' = [canary EXCEPT !.ready = 0, !.stuck = TRUE]
    /\ UNCHANGED <<spec, rollout, roCache, stable, depCache, control, time, commands, lost>>

HealthCheckDue ==
    /\ ~due
    /\ due' = TRUE
    /\ UNCHANGED <<spec, rollout, roCache, deployments, depCache, control, elapsed, bounds>>

PauseElapses ==
    /\ ro.pauseStart # Unset
    /\ ~elapsed
    /\ elapsed' = TRUE
    /\ UNCHANGED <<spec, rollout, roCache, deployments, depCache, control, due, bounds>>
-----------------------------------------------------------------------------
(* The operator.  The handler patches its cached copy of the Rollout: a command this *)
(* copy already bears is an empty patch.                                             *)

RolloutControl(action) ==
    /\ WithinLag
    /\ commands < MaxCommands
    /\ commands' = commands + 1
    /\ roCache.action # action
    /\ Patch([ro EXCEPT !.action = action])
    /\ current' = (current /\ ro.action = action)
    /\ UNCHANGED <<spec, roCache, deployments, depCache, queued, timer, roc, time, faults, lost>>
-----------------------------------------------------------------------------
(* The reconciler. *)

Work == roc.step = "idle" /\ queued

\* The copy a reconcile starts from, its status initialized on first sight.
Seen ==
    [roCache EXCEPT !.status.phase = IF @ = "" THEN "Progressing" ELSE @]

\* The command is cleared before it is obeyed; the patch returns the Rollout as it is.
ClearCommand ==
    /\ Work
    /\ Seen.action # "none"
    /\ queued' = FALSE
    /\ Patch([ro EXCEPT !.action = "none"])
    /\ current' = TRUE
    /\ roc' = [RoIdle EXCEPT !.step = "command", !.action = Seen.action,
                             !.status = ro.status, !.again = TRUE]
    /\ UNCHANGED <<spec, roCache, deployments, depCache, timer, time, bounds>>

\* A hold flag is patched; the patch returns the Rollout as it is.
Flag(obj) == Patch(obj) /\ current' = TRUE

Obey(status) ==
    /\ roc' = [roc EXCEPT !.step = "status", !.status = status]
    /\ UNCHANGED <<spec, roCache, deployments, depCache, queued, timer, time, bounds>>

Commanded(action) == roc.step = "command" /\ roc.action = action

ObeyPause ==
    /\ Commanded("pause")
    /\ IF roc.status.phase \in {"Healthy", "Degraded"}
       THEN Obey(roc.status) /\ UNCHANGED <<rollout, current>>
       ELSE /\ Obey([roc.status EXCEPT !.phase = "Paused"])
            /\ Flag([ro EXCEPT !.paused = TRUE])

Promoted(status) ==
    IF InSteps(spec, status.index)
    THEN [status EXCEPT !.phase = "Progressing", !.index = @ + 1,
                        !.weight = NextWeight(spec, status.index, status.weight)]
    ELSE [status EXCEPT !.phase = "Healthy"]

ObeyPromote ==
    /\ Commanded("promote")
    /\ Obey(IF ro.aborted THEN roc.status ELSE Promoted(roc.status))
    /\ IF ro.paused /\ ~ro.aborted
       THEN Flag([ro EXCEPT !.paused = FALSE])
       ELSE UNCHANGED <<rollout, current>>

ObeyRollback ==
    /\ Commanded("rollback")
    /\ Obey([roc.status EXCEPT !.phase = "RollingBack"])
    /\ Flag([ro EXCEPT !.paused = FALSE, !.aborted = TRUE])

\* ensureWorkload and ensureCanary create what the cache lacks (`made' of it: a Create
\* that fails is only logged) and then `decision' is to be applied.
Total ==
    IF spec.replicas # Unset THEN spec.replicas
    ELSE IF depCache.stable.exists THEN depCache.stable.replicas
    ELSE DefaultReplicas

Lacking == {d \in {"stable", "canary"} : ~depCache[d].exists}
Ensure(dep, name, made, replicas) ==
    IF name \in made /\ ~dep.exists THEN NewDeployment(replicas) ELSE dep

\* scaleDeployment leaves alone a Deployment that has the replicas, or that is missing.
Scale(dep, replicas) == IF dep.exists /\ dep.replicas # replicas THEN replicas ELSE Unset

\* The canary as ensureCanary returns it.
CanarySeen(made) == IF "canary" \in made THEN NewDeployment(0) ELSE depCache.canary

Apply(decision, made, probed) ==
    /\ Logged(made = Lacking)
    /\ queued' = FALSE
    /\ current' = (roWatch = << >>)
    /\ stable' = Ensure(stable, "stable", made, Total)
    /\ canary' = Ensure(canary, "canary", made, 0)
    /\ roc' = [step |-> "scale", action |-> "none", status |-> decision.status,
               stable |-> Scale(depCache.stable, decision.stable),
               canary |-> Scale(CanarySeen(made), decision.canary),
               again |-> decision.again, probed |-> probed]
    /\ UNCHANGED <<spec, rollout, roCache, depCache, timer, time, commands>>

Walking == Work /\ Seen.action = "none"

\* The aborted hold is applied once.
MutHoldAborted ==
    /\ Walking
    /\ Seen.aborted /\ Seen.status.phase # "RolledBack"
    /\ \E made \in SUBSET Lacking :
          Apply(Decide([Seen.status EXCEPT !.phase = "RolledBack"], 0, Total, FALSE), made, FALSE)

HoldAborted ==
    /\ Walking
    /\ Seen.aborted
    /\ \E made \in SUBSET Lacking :
          Apply(Decide([Seen.status EXCEPT !.phase = "RolledBack"], 0, Total, FALSE), made, FALSE)

HoldPaused ==
    /\ Walking
    /\ ~Seen.aborted /\ Seen.paused
    /\ \E made \in SUBSET Lacking :
          Apply(Decide([Seen.status EXCEPT !.phase = "Paused"], Seen.status.weight, Total, TRUE),
                made, FALSE)

\* The hold flags are not looked at.
MutHeedless == Walking /\ Seen.status.phase \notin {"Failed", "RolledBack"}

\* A rollout that is over is walked on.
MutUnheld == Walking /\ ~Seen.aborted /\ ~Seen.paused

Unheld ==
    Walking /\ ~Seen.aborted /\ ~Seen.paused /\ Seen.status.phase \notin {"Failed", "RolledBack"}

HoldTerminal ==
    /\ Walking
    /\ ~Seen.aborted /\ ~Seen.paused /\ Seen.status.phase \in {"Failed", "RolledBack"}
    /\ queued' = FALSE
    /\ UNCHANGED <<spec, rollout, roCache, deployments, depCache, timer, current, roc, time,
                   bounds>>

\* A timed pause gets a stamp at every reconcile.
MutUnstamped ==
    /\ InSteps(spec, Seen.status.index)
    /\ StepAt(spec, Seen.status.index).pause = "timed"

\* A timed pause that bears no stamp gets one, and the reconcile ends.
Unstamped ==
    /\ InSteps(spec, Seen.status.index)
    /\ StepAt(spec, Seen.status.index).pause = "timed"
    /\ Seen.pauseStart = Unset

StampPause ==
    /\ Unheld
    /\ Unstamped
    /\ NewVersion([ro EXCEPT !.pauseStart = Seen.status.index])
    /\ elapsed' = FALSE
    /\ queued' = FALSE
    /\ timer' = TRUE
    /\ UNCHANGED <<spec, roCache, deployments, depCache, current, roc, due, bounds>>

\* The pods' readiness is the baseline; an active probe, made no sooner than an interval
\* after the last, may find ready pods unhealthy.  In between, ready is healthy.  A copy
\* that is not the current one may bear an earlier time.
MutProbe(podsReady) ==
    [probed : {TRUE}, healthy : IF spec.activeProbe /\ podsReady THEN BOOLEAN ELSE {podsReady}]

Probe(podsReady) ==
    {p \in [probed : IF roWatch = << >> THEN {due} ELSE {due, TRUE}, healthy : BOOLEAN] :
        IF spec.activeProbe /\ p.probed THEN p.healthy => podsReady ELSE p.healthy = podsReady}

RollBackStuck ==
    /\ Unheld /\ ~Unstamped
    /\ depCache.canary.stuck /\ spec.autoRollback
    /\ \E made \in SUBSET Lacking :
          Apply([RollbackDecision(Seen.status, Total)
                    EXCEPT !.status = [Seen.status EXCEPT !.phase = "RolledBack"]],
                made, FALSE)

WalkSteps ==
    /\ Unheld /\ ~Unstamped
    /\ ~(depCache.canary.stuck /\ spec.autoRollback)
    /\ LET ready == depCache.canary.ready
           desired == depCache.canary.replicas
       IN  \E made \in SUBSET Lacking, p \in Probe(desired > 0 /\ ready >= desired) :
              Apply(Evaluate(spec, Seen.status,
                             elapsed /\ Seen.pauseStart = Seen.status.index,
                             ready, desired, Total, p.healthy),
                    made, p.probed)

\* A scale that fails is only logged.
ApplyDecision ==
    /\ roc.step = "scale"
    /\ \E done \in SUBSET {"stable", "canary"} :
          /\ Logged(done = {"stable", "canary"})
          /\ stable' = IF "stable" \in done /\ roc.stable # Unset
                       THEN [stable EXCEPT !.replicas = roc.stable] ELSE stable
          /\ canary' = IF "canary" \in done /\ roc.canary # Unset
                       THEN [canary EXCEPT !.replicas = roc.canary] ELSE canary
    /\ roc' = [roc EXCEPT !.step = "status", !.stable = Unset, !.canary = Unset]
    /\ UNCHANGED <<spec, rollout, roCache, depCache, queued, timer, current, time, commands>>

\* The status is written whatever became of the Rollout since.
MutUpdateStatus ==
    /\ roc.step = "status"
    /\ roc' = RoIdle
    /\ timer' = (timer \/ roc.again)
    /\ due' = (due /\ ~roc.probed)
    /\ Patch([ro EXCEPT !.status = roc.status])
    /\ UNCHANGED <<spec, roCache, deployments, depCache, queued, current, elapsed, bounds>>

\* Status().Update: a time written along makes a probed status a new version in any case.
UpdateStatus ==
    /\ roc.step = "status"
    /\ roc' = RoIdle
    /\ IF current
       THEN /\ IF roc.probed THEN NewVersion([ro EXCEPT !.status = roc.status])
                             ELSE Patch([ro EXCEPT !.status = roc.status])
            /\ due' = (due /\ ~roc.probed)
            /\ timer' = (timer \/ roc.again)
            /\ UNCHANGED queued
       ELSE queued' = TRUE /\ UNCHANGED <<rollout, due, timer>>
    /\ UNCHANGED <<spec, roCache, deployments, depCache, current, elapsed, bounds>>

Reconcile ==
    \/ ClearCommand \/ ObeyPause \/ ObeyPromote \/ ObeyRollback
    \/ HoldAborted \/ HoldPaused \/ HoldTerminal
    \/ StampPause \/ RollBackStuck \/ WalkSteps
    \/ ApplyDecision \/ UpdateStatus

\* A call fails: the reconcile is retried.
CallFails ==
    /\ Fault
    /\ roc.step \in {"command", "status"} \/ Work
    /\ roc' = RoIdle
    /\ queued' = TRUE
    /\ UNCHANGED <<spec, rollout, roCache, deployments, depCache, timer, current, time, commands,
                   lost>>

\* The process restarts.
Restart ==
    /\ Fault
    /\ roc' = RoIdle
    /\ roCache' = ro
    /\ roWatch' = << >>
    /\ depCache' = [stable |-> stable, canary |-> canary]
    /\ queued' = TRUE
    /\ timer' = FALSE
    /\ UNCHANGED <<spec, ro, deployments, current, time, commands, lost>>

Next ==
    \/ SyncRollout \/ SyncDeployments \/ TimerFires
    \/ PodsFollow \/ PodsFail \/ HealthCheckDue \/ PauseElapses
    \/ \E action \in Actions : RolloutControl(action)
    \/ WithinLag /\ Reconcile
    \/ CallFails \/ Restart

Fairness ==
    /\ WF_vars(SyncRollout) /\ WF_vars(SyncDeployments) /\ WF_vars(TimerFires)
    /\ WF_vars(PodsFollow) /\ WF_vars(HealthCheckDue) /\ WF_vars(PauseElapses)
    /\ WF_vars(WithinLag /\ Reconcile)

Spec == Init /\ [][Next]_vars
FairSpec == Spec /\ Fairness
-----------------------------------------------------------------------------
(* The properties. *)

\* A rollback stands: nothing moves an aborted rollout on, though a reconcile may still
\* see it as it was before (applyControlCommand, "promoting an aborted rollout would undo
\* the rollback").
AbortSticks ==
    [][ro.aborted => ro'.aborted /\ ro'.status.index = ro.status.index]_vars

\* While the hold flag is up the rollout keeps its step and its weight (the paused hold of
\* Reconcile).
PauseHolds ==
    [][ro.paused /\ ro'.paused /\ ~ro'.aborted =>
          /\ ro'.status.index = ro.status.index
          /\ ro'.status.weight = ro.status.weight]_vars

\* The last version in the stream, or the cached one if there is none, is the Rollout.
CacheCatchesUp ==
    IF roWatch = << >> THEN roCache = ro ELSE roWatch[Len(roWatch)] = ro

\* A command is obeyed on the status as it is: nobody else writes it.
CommandCopyHolds == roc.step = "command" => roc.status = ro.status

\* A decision that will pass the version check leaves an aborted rollout at its step, and
\* a paused one at its step and its weight: whoever raised the flag meanwhile has made a
\* new version.
Deciding == roc.step \in {"scale", "status"}
DecisionHeedsFlags ==
    Deciding /\ current =>
        /\ ro.aborted => roc.status.index = ro.status.index
        /\ ro.paused /\ ~ro.aborted => /\ roc.status.index = ro.status.index
                                       /\ roc.status.weight = ro.status.weight

\* No decision that will pass the version check was taken on a rollout that is over, but
\* for a hold.
DecisionHeedsEnd ==
    Deciding /\ current /\ roc.action = "none" /\ ro.status.phase \in {"Failed", "RolledBack"}
        => ro.paused \/ ro.aborted

\* The inductive invariant behind AbortSticks, PauseHolds and OnlyCommandsReopen
\* (Reconcile's final Status().Update against applyControlCommand's flags).
DecisionsHeed ==
    /\ CacheCatchesUp
    /\ CommandCopyHolds
    /\ DecisionHeedsFlags
    /\ DecisionHeedsEnd

\* The canary never has more replicas than a step up to the next one gives it, whatever
\* the age of the copies it was scaled from and whatever was lost by a restart (the weight
\* Evaluate and applyControlCommand set beforehand).
ExposureBounded ==
    spec.replicas # Unset /\ canary.replicas > 0 =>
        \E i \in 1..Len(spec.steps) :
            /\ i <= ro.status.index + 2
            /\ spec.steps[i].weight # Unset
            /\ canary.replicas <= WeightReplicas(spec.steps[i].weight, spec.replicas)

\* What a reconcile is about to scale the two Deployments to shares out the replicas of the
\* Rollout, none lost to the rounding of a weight and none given twice, unless a Deployment
\* has its share already (weightReplicas and the StableReplicas of a Decision).
ScalesSplit ==
    roc.step = "scale" /\ spec.replicas # Unset =>
        /\ roc.canary \in 0..spec.replicas \cup {Unset}
        /\ roc.stable \in 0..spec.replicas \cup {Unset}
        /\ roc.canary # Unset /\ roc.stable # Unset => roc.canary + roc.stable = spec.replicas

\* Too many checks failed.
GivenUp == spec.failureThreshold > 0 /\ ro.status.failures >= spec.failureThreshold

\* Up to the threshold, failed checks are counted no faster than one an interval (the
\* pacing of the active probe in Reconcile: "failures may only accumulate at the
\* health-check interval").  Past it no check is needed: a rollout that was rolled back
\* and is then promoted keeps its count, and is rolled back again before it has a pod
\* (RollbackDecision, which counts itself).
PacedFailures ==
    [][ro'.status.failures > ro.status.failures => due \/ GivenUp]_vars

\* A rollout that is over stays so unless an operator commands otherwise (the terminal
\* hold of Reconcile).
OnlyCommandsReopen ==
    [][ro.status.phase \in {"Failed", "RolledBack"} /\ ro'.status.phase # ro.status.phase
          => roc.action # "none" \/ ro.paused \/ ro.aborted]_vars

\* A rollback is carried out in the end, and for good: the status says so and the canary
\* is gone, provided no scale got lost (the aborted hold of Reconcile, which scales once
\* more only if something else queues it).
AbortHonoured ==
    \/ <>lost
    \/ <>[](ro.aborted => ro.status.phase = "RolledBack" /\ canary.replicas = 0)

\* A rollout that asks no more of its canary than ready pods comes to an end, unless an
\* operator paused it, the pods cannot run, or an operator promoted it into a pause before
\* it had a pod (Evaluate, and what queues a reconcile).
RolloutEnds ==
    \/ spec.activeProbe
    \/ <>(\/ ro.status.phase \in {"Healthy", "Failed", "RolledBack"}
         \/ ro.paused
         \/ canary.stuck)
    \/ <>[](ro.status.weight = 0)

Weights == [i \in 1..Len(spec.steps) |-> spec.steps[i].weight]
Walk ==
    INSTANCE RolloutWalk WITH
        plan <- Weights,
        phase <- ro.status.phase, index <- ro.status.index, weight <- ro.status.weight,
        paused <- ro.paused, aborted <- ro.aborted

\* Whatever happens, the Rollout walks its steps one by one, takes no other weight than
\* theirs, is Healthy after the last of them only, and stands while a flag is up (module
\* RolloutWalk; Evaluate, applyControlCommand and the holds of Reconcile together).
ImplementsWalk == Walk!Spec
-----------------------------------------------------------------------------
(* What the code's comments promise and the code does not keep. *)

\* rollout_controller.go: a later reconcile "must not resume the step walk", for it "would
\* resurrect a rolled-back rollout".
RolledBackStays ==
    [][ro.status.phase = "RollingBack" => ro'.status.phase \in {"RollingBack", "RolledBack"}]_vars
=============================================================================
