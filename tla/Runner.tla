------------------------------- MODULE Runner -------------------------------
(***************************************************************************)
(* The runner at work on one PipelineRun: the two controllers and the      *)
(* Hub's handlers, each a client of the same API server.  They run         *)
(* concurrently, and any of them may take its next step at any time.       *)
(***************************************************************************)
EXTENDS PipelineRunReconciler, TaskRunReconciler, Dispatch

CONSTANTS
    MaxFaults,    \* bound: failed calls and restarts
    MaxLag        \* bound: how many writes the caches may be behind when another is made

ASSUME BoundsAssumption == MaxFaults \in Nat /\ MaxLag \in Nat

VARIABLE faults

local == <<prc, trc, dispatchVars, faults>>
vars == <<clusterVars, local>>

TypeOK ==
    /\ ClusterTypeOK
    /\ PrcTypeOK
    /\ TrcTypeOK
    /\ DispatchTypeOK
    /\ faults \in 0..MaxFaults

Init ==
    /\ ClusterInit
    /\ PrcInit
    /\ TrcInit
    /\ DispatchInit
    /\ faults = 0

\* The caches are not so far behind that the bound keeps the writers waiting.
WithinLag == Len(prWatch) + Len(trWatch) <= MaxLag

ClusterStep == ClusterNext /\ UNCHANGED local
PipelineRunStep == WithinLag /\ PrcNext /\ UNCHANGED <<trc, dispatchVars, faults>>
TaskRunStep == WithinLag /\ TrcNext /\ UNCHANGED <<prc, dispatchVars, faults>>
DispatchStep == WithinLag /\ DispatchNext /\ UNCHANGED <<prc, trc, faults>>

Fault == faults < MaxFaults /\ faults' = faults + 1

\* An API call of one of the three fails.
CallFails ==
    /\ Fault
    /\ \/ PrAbort /\ UNCHANGED <<trc, dispatchVars>>
       \/ TrAbort /\ UNCHANGED <<prc, dispatchVars>>
       \/ RerunAbort /\ UNCHANGED <<prc, trc>>

\* The process restarts: what was in hand is gone, the caches are listed anew and
\* everything in them is queued.
Restart ==
    /\ Fault
    /\ prc' = PrIdle
    /\ trc' = TrIdle
    /\ rerun' = RerunIdle
    /\ prCache' = pr
    /\ trCache' = tr
    /\ childCache' = child
    /\ prWatch' = << >>
    /\ trWatch' = << >>
    /\ prQueued' = TRUE
    /\ trQueued' = Tasks
    /\ prCurrent' = {}
    /\ trCurrent' = [t \in Tasks |-> {}]
    /\ UNCHANGED <<objects, reruns>>

Next ==
    \/ ClusterStep
    \/ PipelineRunStep
    \/ TaskRunStep
    \/ DispatchStep
    \/ CallFails
    \/ Restart

Spec == Init /\ [][Next]_vars
-----------------------------------------------------------------------------
(* Fairness.  The watch streams deliver, Jobs end, the garbage collector collects; *)
(* a controller whose work queue is not empty takes the next item, and goes on with *)
(* the reconcile in hand.  The queue is served in order, so no item of it starves.  *)

Fairness ==
    /\ WF_vars(SyncPipelineRun /\ UNCHANGED local)
    /\ WF_vars(SyncTaskRun /\ UNCHANGED local)
    /\ WF_vars(PipelineRunStep)
    /\ WF_vars(trc.step # "idle" /\ TaskRunStep)
    /\ \A t \in Tasks :
          /\ WF_vars(SyncChild(t) /\ UNCHANGED local)
          /\ WF_vars(Type[t] = "Job" /\ ChildProgress(t) /\ UNCHANGED local)
          /\ WF_vars(CollectGarbage(t) /\ UNCHANGED local)
          /\ SF_vars(WithinLag /\ ReconcileTaskRun(t) /\ UNCHANGED <<prc, dispatchVars, faults>>)

FairSpec == Spec /\ Fairness
-----------------------------------------------------------------------------
(* The properties. *)

\* A rerun that found the run Failed is at its last call (rerun_handler.go:99-110).
Reviving == rerun.step = "revive" /\ rerun.failed

\* The runner implements the lifecycle of a run: a run that ended Succeeded or
\* Cancelled stays so; a Failed one is brought back only by the last call of a rerun,
\* by no reconcile; and once a cancel has landed on a live run no reconcile that
\* started before it can move the run anywhere else (cancel_handler.go: the cancel is
\* race-free).
Lifecycle ==
    INSTANCE RunLifecycle WITH phase <- pr.phase, request <- pr.cancel, reviving <- Reviving
ImplementsLifecycle == Lifecycle!Spec

\* Nobody asked for a cancel or a rerun, and none was carried out.
Undisturbed == ~pr.cancel /\ pr.phase # "Cancelled" /\ reruns = 0

\* The Hub's approvals suffice to make the task Succeeded, whatever its type.
SignedOff(t) == Cardinality(tr[t].approvedBy) >= Required[t]

Rejected(t) == tr[t].rejectedBy # {}

\* A task has got past: it succeeded; or it had its signatures, and somebody rejected it
\* all the same; or it has a Rollout, which it goes on mirroring when it has been Healthy
\* once; or it is a Job that was rejected, as one that has succeeded may be, too.
Passed(t) ==
    /\ Exists(tr, t)
    /\ \/ Succeeded(tr, t)
       \/ SignedOff(t)
       \/ Type[t] = "Canary" /\ tr[t].ref
       \/ Type[t] = "Job" /\ Rejected(t)

\* While nobody cancels or reruns, a task has a TaskRun only when all it waits for has
\* got past, however old the list was that it was created from (findRunnableTasks).
DagOrder ==
    Undisturbed => \A t \in Tasks : Exists(tr, t) =>
                      \A u \in Tasks : u \in DependsOn[t] \/ Earlier(u, t) => Passed(u)

\* No work behind an approval has begun before the approval had its signatures.
GateHolds ==
    Undisturbed => \A g \in Tasks : Type[g] = "Approval" =>
                      \A t \in DownstreamTasks(g) :
                         child[t].status # "Absent" => SignedOff(g)

\* A run reported Succeeded had every task succeed, a Failed one had a task fail, in
\* the summary it ends with and in the TaskRuns of its Jobs, unless the Hub has decided
\* on the Job since.  (An approval may be decided again, and the TaskRun of a Canary task
\* goes on mirroring its Rollout: of these only the summary can vouch for the outcome.  A
\* rerun opens the TaskRun before the run.)
OutcomeIsTrue ==
    reruns = 0 =>
       /\ pr.phase = "Succeeded" => \A t \in Tasks : /\ pr.tasks[t] = "Succeeded"
                                                     /\ Type[t] = "Job" =>
                                                            Succeeded(tr, t) \/ Rejected(t)
       /\ pr.phase = "Failed" => \E t \in Tasks : /\ pr.tasks[t] = "Failed"
                                                  /\ Type[t] = "Job" =>
                                                        tr[t].phase = "Failed" \/ SignedOff(t)

\* The step in which a rerun resets the task's TaskRun.
Resets(t) == rerun.step = "reset" /\ rerun.task = t

\* The step in which the Hub's decision on the task is recorded.
Decides(t) == \E approver \in Deciders[t] : ApproveTask(t, approver) \/ RejectTask(t, approver)

\* A signature is never lost to another writer of the TaskRun's status, only to a rerun
\* of the task.
SignatureKept ==
    [][\A t \in Tasks : tr'[t].uid = tr[t].uid =>
          tr[t].approvedBy \subseteq tr'[t].approvedBy \/ Resets(t)]_vars

\* A Cancelled run schedules nothing more, though a reconcile may still see it as it was
\* before (applyCancelIfRequested, step 2).
NothingAfterCancel ==
    [][pr.phase = "Cancelled" => births' = births]_vars

\* The summary of a cancelled run leaves no task unfinished: it is all the Hub ever
\* learns of them (applyCancelIfRequested, step 1).
CancelledSummaryIsFinal ==
    pr.phase = "Cancelled" => \A t \in Tasks : pr.tasks[t] \in TerminalTaskPhases

\* Until something is rerun, a Job task that succeeded, at the latest by its first retry,
\* did so by the Job that bears its name, unless the Hub's approvals made it so.  (After that
\* retry the cache may still show the Job it deleted: a second one then deletes the new Job
\* as a failed one, even when it has succeeded, and the success of a Job that is gone may be
\* taken for its successor's.  A rerun deletes the Job too, and may be followed the same way;
\* reconcileJob.)
SuccessIsEarned ==
    reruns = 0 => \A t \in Tasks :
        (/\ Type[t] = "Job"
         /\ tr[t].phase = "Succeeded"
         /\ tr[t].retries <= 1
         /\ ~SignedOff(t)
         /\ child[t].status # "Absent")
            => child[t].status = "Succeeded"

\* A Job task that nobody rejected fails only when its retries are used up.
RetriesExhausted ==
    \A t \in Tasks :
        Type[t] = "Job" /\ tr[t].phase = "Failed" /\ ~Rejected(t) => tr[t].retries = MaxRetries

\* A finished Job task is opened again only by a rerun, and its outcome overruled only by
\* a decision of the Hub: by no reconcile, from however old a copy.
OnlyRerunReopens ==
    [][\A t \in Tasks :
          (/\ Type[t] = "Job"
           /\ tr[t].phase \in {"Succeeded", "Failed"}
           /\ tr'[t].uid = tr[t].uid
           /\ tr'[t].phase # tr[t].phase)
             => Resets(t) \/ (Decides(t) /\ tr'[t].phase \in {"Succeeded", "Failed"})]_vars

\* A task is started at most once more for every rerun, though TaskRuns are created from
\* lists that may be older than the rerun that deleted them (findRunnableTasks).
StartedOncePerRerun == \A t \in Tasks : births[t] <= 1 + reruns

\* Until something is rerun, a cancel request leaves a run only when the run is over.  (A
\* rerun may bring the run back just when a reconcile that found it over is about to
\* remove the request.)
CancelKept ==
    [][pr.cancel /\ ~pr'.cancel /\ reruns = 0 => pr.phase \in TerminalPhases]_vars
-----------------------------------------------------------------------------
(* The inductive invariant behind ImplementsLifecycle. *)

\* The last version in the stream, or the cached one if there is none, is the object.
CacheCatchesUp ==
    IF prWatch = << >> THEN prCache = pr ELSE prWatch[Len(prWatch)] = pr

\* A run that is not applied was never written.
NotAppliedYet == pr.phase = "Absent" => pr = NoPipelineRun /\ prWatch = << >>

\* A reconcile in hand that will write the run decided to cancel it if its copy had the
\* request, and else to move it.
Deciding == prc.step \in {"create", "delete", "update"}
DecisionFits ==
    Deciding => prc.next.phase \in
        IF prc.next.cancel THEN {"Cancelled"}
        ELSE {"Pending", "Running", "WaitingApproval", "Succeeded", "Failed"}

\* While the copy it read is current, what it decided on is how the run is.
ReconcilerCopyHolds ==
    Deciding /\ "PipelineRun" \in prCurrent =>
        /\ pr.phase \notin TerminalPhases \cup {"Absent"}
        /\ prc.next.cancel = pr.cancel

\* The same for the rerun handler, which looked whether the run is Failed.
RerunCopyHolds ==
    rerun.step # "idle" /\ rerun.failed /\ "Rerun" \in prCurrent => pr.phase = "Failed"

\* Nobody acts on a copy of the run whose version check would pass though the run is
\* not as the copy says (Status().Update, rerun_handler.go and updateStatus).
CopiesHold ==
    /\ CacheCatchesUp
    /\ NotAppliedYet
    /\ DecisionFits
    /\ ReconcilerCopyHolds
    /\ RerunCopyHolds
-----------------------------------------------------------------------------
(* The inductive invariant behind NothingAfterCancel. *)

\* A copy of the run that keeps a reconcile from scheduling: it bears the request, or is
\* over by it.
Marked(copy) == copy.cancel \/ copy.phase = "Cancelled"

\* Nobody can schedule a Cancelled run any more, for every copy of it that may still be
\* read is marked, and the reconcile that creates TaskRuns is the only one that could
\* have cancelled it (applyCancelIfRequested clears the request after its status update).
CancelSeen ==
    /\ pr.phase = "Cancelled" =>
          /\ prc.step # "create"
          /\ Marked(prCache)
          /\ \A i \in 1..Len(prWatch) : Marked(prWatch[i])
    /\ "PipelineRun" \in prCurrent => prWatch = << >>
-----------------------------------------------------------------------------
(* What ought to happen in the end. *)

\* Once applied, a run ends or waits for an approval.
RunSettles ==
    pr.phase # "Absent" ~> pr.phase \in TerminalPhases \/ FindPendingApproval(tr) # {}

\* A cancel request is honoured.
CancelHonoured == pr.cancel ~> pr.phase \in TerminalPhases /\ ~pr.cancel
-----------------------------------------------------------------------------
(* What the code's comments promise and the code does not keep. *)

\* protocol.go: a cancel "tears down every in-flight TaskRun".  The reconciler has
\* finished the cancel and will not look at the TaskRuns again, yet one is there.
CancelLeavesNothing ==
    (/\ pr.phase = "Cancelled"
     /\ ~pr.cancel
     /\ prCache = pr
     /\ prc.step = "idle")
      => \A t \in Tasks : ~Exists(tr, t)

\* pipelinerun_cancel.go: "a mid-way failure is safe to retry on the next reconcile".
\* A task reported Succeeded is still reported Succeeded when the run is cancelled.
CancelKeepsOutcomes ==
    [][pr'.phase = "Cancelled" =>
          \A t \in Tasks : pr.tasks[t] = "Succeeded" => pr'.tasks[t] = "Succeeded"]_vars
=============================================================================
