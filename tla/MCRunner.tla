------------------------------ MODULE MCRunner ------------------------------
(***************************************************************************)
(* Instances of Runner for TLC: three pipelines.                           *)
(***************************************************************************)
EXTENDS Runner, TLC

CONSTANTS build, gate, deploy, a1, a2

\* build, then an approval with two signatures, then a deployment by a Job.
GatedTasks == {build, gate, deploy}
GatedDependsOn == build :> {} @@ gate :> {build} @@ deploy :> {gate}
GatedOrder == build :> 0 @@ gate :> 1 @@ deploy :> 2
GatedStage == [t \in GatedTasks |-> Parallel]
GatedType == build :> "Job" @@ gate :> "Approval" @@ deploy :> "Job"
GatedRequired == [t \in GatedTasks |-> 2]
GatedDeciders == build :> {} @@ gate :> Approvers @@ deploy :> {}
AnyApprover == Permutations(Approvers)

\* Two Jobs, one after the other: by dependency, or as a Serial stage.  The Hub may
\* decide on the first as if it were an approval.
PairTasks == {build, deploy}
PairDependsOn == build :> {} @@ deploy :> {build}
PairOrder == build :> 0 @@ deploy :> 1
PairStage == [t \in PairTasks |-> Parallel]
PairType == [t \in PairTasks |-> "Job"]
PairRequired == [t \in PairTasks |-> 1]
PairDeciders == build :> {a1} @@ deploy :> {}
SerialDependsOn == [t \in PairTasks |-> {}]
SerialStage == [t \in PairTasks |-> "stage"]

\* An approval, then a Job.
ReleaseTasks == {gate, deploy}
ReleaseDependsOn == gate :> {} @@ deploy :> {gate}
ReleaseOrder == gate :> 0 @@ deploy :> 1
ReleaseStage == [t \in ReleaseTasks |-> Parallel]
ReleaseType == gate :> "Approval" @@ deploy :> "Job"
ReleaseRequired == [t \in ReleaseTasks |-> 1]
ReleaseDeciders == gate :> {a1} @@ deploy :> {}

\* A Job or a Rollout.
AloneTasks == {build, deploy}
AloneDependsOn == [t \in AloneTasks |-> {}]
AloneOrder == build :> 0 @@ deploy :> 1
AloneStage == [t \in AloneTasks |-> Parallel]
AloneType == build :> "Job" @@ deploy :> "Canary"
AloneRequired == [t \in AloneTasks |-> 1]
AloneDeciders == [t \in AloneTasks |-> {a1}]

\* One Job.
SoloTasks == {build}
SoloDependsOn == build :> {}
SoloOrder == build :> 0
SoloStage == build :> Parallel
SoloType == build :> "Job"
SoloRequired == build :> 1
SoloDeciders == build :> {a1}
-----------------------------------------------------------------------------
(* The TaskRun controller and the approve handler alone, on a TaskRun some client   *)
(* of the cluster created with a RetryPolicy, of any of the tasks.  (buildTaskRun    *)
(* gives the TaskRuns of a run none.)                                                *)

AloneInit ==
    /\ PrcInit
    /\ TrcInit
    /\ DispatchInit
    /\ faults = 0
    /\ \E alone \in Tasks :
          /\ births = [t \in Tasks |-> IF t = alone THEN 1 ELSE 0]
          /\ tr = [t \in Tasks |-> IF t = alone THEN [NoTaskRun EXCEPT !.phase = "", !.uid = 1]
                                   ELSE NoTaskRun]
          /\ trQueued = {alone}
    /\ trCache = tr
    /\ pr = NoPipelineRun
    /\ prCache = NoPipelineRun
    /\ child = [t \in Tasks |-> NoChild]
    /\ childCache = child
    /\ prWatch = << >>
    /\ trWatch = << >>
    /\ prQueued = FALSE
    /\ prCurrent = {}
    /\ trCurrent = [t \in Tasks |-> {}]

AloneDecision ==
    /\ WithinLag
    /\ \E t \in Tasks : Decides(t)
    /\ UNCHANGED <<prc, trc, faults>>

AloneNext == ClusterStep \/ TaskRunStep \/ AloneDecision \/ CallFails \/ Restart
AloneSpec == AloneInit /\ [][AloneNext]_vars
=============================================================================
