------------------------- MODULE TaskRunReconciler -------------------------
(***************************************************************************)
(* The TaskRun controller: a Job task gets a Job, a Canary task a Rollout, *)
(* whose outcome is mirrored to the TaskRun; an Approval task is only      *)
(* prepared for the decision that comes from the Hub.  A reconcile reads   *)
(* the TaskRun and its child from the caches, makes at most one call on    *)
(* the child, and writes the TaskRun's status.                             *)
(***************************************************************************)
EXTENDS Cluster

CONSTANT MaxRetries   \* Spec.RetryPolicy.MaxRetries of every TaskRun

ASSUME RetriesAssumption == MaxRetries \in Nat

\* task: the TaskRun being reconciled; step: the call made next; next: the TaskRun
\* it will write, with the uid of the copy that was read.
VARIABLE trc

TrSteps == {"idle", "createChild", "deleteChild", "update"}
TrIdle == [step |-> "idle", task |-> CHOOSE t \in Tasks : TRUE, next |-> NoTaskRun]

TrcTypeOK == trc \in [step : TrSteps, task : Tasks, next : TaskRuns]

TrcInit == trc = TrIdle

TrWork(t) == trc.step = "idle" /\ t \in trQueued

TrStart(t, step, next) ==
    /\ TrWork(t)
    /\ trQueued' = trQueued \ {t}
    /\ trc' = [step |-> step, task |-> t, next |-> next]
    /\ trCurrent' = ReadTaskRun("TaskRun", t)
    /\ UNCHANGED <<objects, caches, watches, prQueued, prCurrent>>

\* A finished Job task is looked at again.
MutNothingToDo(t) ==
    LET own == trCache[t] IN
    \/ own.phase = "Absent"
    \/ Type[t] = "Approval" /\ own.phase \notin {"", "Pending"}
    \/ Type[t] # "Approval" /\ own.ref /\ childCache[t].status = "Absent"

\* An approval whose decision is taken, a finished Job task, a child the cache does
\* not show: the reconcile ends, without asking for another.
NothingToDo(t) ==
    LET own == trCache[t] IN
    \/ own.phase = "Absent"
    \/ Type[t] = "Approval" /\ own.phase \notin {"", "Pending"}
    \/ Type[t] = "Job" /\ own.phase \in {"Succeeded", "Failed"}
    \/ Type[t] # "Approval" /\ own.ref /\ childCache[t].status = "Absent"

IgnoreTaskRun(t) ==
    /\ TrWork(t)
    /\ NothingToDo(t)
    /\ trQueued' = trQueued \ {t}
    /\ UNCHANGED <<objects, caches, watches, prQueued, versions, trc>>

PrepareApproval(t) ==
    /\ Type[t] = "Approval"
    /\ ~NothingToDo(t)
    /\ TrStart(t, "update", [trCache[t] EXCEPT !.phase = "Pending", !.asked = TRUE])

\* No Job or Rollout yet: create it.
StartChild(t) ==
    /\ Type[t] # "Approval"
    /\ ~NothingToDo(t)
    /\ ~trCache[t].ref
    /\ TrStart(t, "createChild", [trCache[t] EXCEPT !.phase = "Running", !.ref = TRUE])

\* The failed Job is deleted and the TaskRun freed of it, to start another.
RetryJob(t) ==
    /\ Type[t] = "Job"
    /\ ~NothingToDo(t)
    /\ trCache[t].ref
    /\ childCache[t].status = "Failed"
    /\ trCache[t].retries < MaxRetries
    /\ TrStart(t, "deleteChild", [trCache[t] EXCEPT !.retries = @ + 1, !.ref = FALSE])

\* A failed Job fails the TaskRun, whatever its RetryPolicy.
MutMirrorAtOnce(t) ==
    /\ Type[t] # "Approval"
    /\ ~NothingToDo(t)
    /\ trCache[t].ref
    /\ childCache[t].status # "Active"
    /\ TrStart(t, "update", [trCache[t] EXCEPT !.phase = childCache[t].status])

\* A Job that is no longer running is taken to have succeeded.
MutMirrorAnyEnd(t) ==
    /\ Type[t] # "Approval"
    /\ ~NothingToDo(t)
    /\ trCache[t].ref
    /\ childCache[t].status # "Active"
    /\ TrStart(t, "update", [trCache[t] EXCEPT !.phase = "Succeeded"])

\* A Job still running changes nothing.
JobOutcome(t) ==
    IF childCache[t].status = "Active" THEN trCache[t].phase ELSE childCache[t].status

\* A Rollout still under way makes the TaskRun Running, whatever it was.
RolloutOutcome(t) ==
    IF childCache[t].status = "Active" THEN "Running" ELSE childCache[t].status

\* The child's outcome becomes the TaskRun's.
MirrorChild(t) ==
    /\ Type[t] # "Approval"
    /\ ~NothingToDo(t)
    /\ trCache[t].ref
    /\ ~(Type[t] = "Job" /\ childCache[t].status = "Failed" /\ trCache[t].retries < MaxRetries)
    /\ TrStart(t, "update",
               [trCache[t] EXCEPT !.phase = IF Type[t] = "Job" THEN JobOutcome(t)
                                            ELSE RolloutOutcome(t)])

ReconcileTaskRun(t) ==
    \/ IgnoreTaskRun(t)
    \/ PrepareApproval(t)
    \/ StartChild(t)
    \/ RetryJob(t)
    \/ MirrorChild(t)
-----------------------------------------------------------------------------
\* The child belongs to the TaskRun the reconcile read, which may be gone by now.
CreateOwnChild ==
    /\ trc.step = "createChild"
    /\ CreateChild(trc.task, trc.next.uid)
    /\ trc' = [trc EXCEPT !.step = "update"]
    /\ UNCHANGED <<pr, tr, births, caches, watches, queues, versions>>

DeleteOwnChild ==
    /\ trc.step = "deleteChild"
    /\ DeleteChild(trc.task)
    /\ trc' = [trc EXCEPT !.step = "update"]
    /\ UNCHANGED <<pr, tr, births, caches, watches, queues, versions>>

\* The status is written whatever happened to the TaskRun since it was read.
MutUpdateTaskRun ==
    /\ trc.step = "update"
    /\ Exists(tr, trc.task)
    /\ PutTaskRun(trc.task, trc.next, "TaskRun")
    /\ trc' = TrIdle
    /\ trQueued' = IF trc.next.ref THEN trQueued ELSE trQueued \cup {trc.task}
    /\ UNCHANGED <<pr, child, births, caches, prWatch, prQueued, prCurrent>>

\* The outcome of a Rollout is written again with every reconcile, each time with the
\* second it is written in as its CompletionTime.
RestampOutcome ==
    /\ Type[trc.task] = "Canary"
    /\ trc.next.phase \in {"Succeeded", "Failed"}
    /\ trc.next = tr[trc.task]
    /\ RestampTaskRun(trc.task)

\* A retry asks to be called again (RequeueAfter the backoff).
UpdateTaskRun ==
    /\ trc.step = "update"
    /\ "TaskRun" \in trCurrent[trc.task]
    /\ PutTaskRun(trc.task, trc.next, "TaskRun") \/ RestampOutcome
    /\ trc' = TrIdle
    /\ trQueued' = IF Type[trc.task] = "Job" /\ ~trc.next.ref
                   THEN trQueued \cup {trc.task} ELSE trQueued
    /\ UNCHANGED <<pr, child, births, caches, prWatch, prQueued, prCurrent>>

\* A call fails: the reconcile ends with its error and the TaskRun is queued again.
TrAbort ==
    /\ trc.step # "idle"
    /\ trc' = TrIdle
    /\ trQueued' = trQueued \cup {trc.task}
    /\ trCurrent' = [trCurrent EXCEPT ![trc.task] = @ \ {"TaskRun"}]
    /\ UNCHANGED <<objects, caches, watches, prQueued, prCurrent>>

TaskRunConflict ==
    /\ trc.step = "update"
    /\ "TaskRun" \notin trCurrent[trc.task]
    /\ TrAbort

TrcNext ==
    \/ \E t \in Tasks : ReconcileTaskRun(t)
    \/ CreateOwnChild
    \/ DeleteOwnChild
    \/ UpdateTaskRun
    \/ TaskRunConflict
=============================================================================
