----------------------- MODULE PipelineRunReconciler -----------------------
(***************************************************************************)
(* The PipelineRun controller.  A reconcile reads the run and its TaskRuns *)
(* from the cache, decides, and then carries the decision out one API call *)
(* at a time: it creates or deletes TaskRuns, writes the run's status and, *)
(* after a cancel, removes the request.  The controller has one worker, so *)
(* one reconcile runs at a time, and between two of its calls every other  *)
(* client of the API server may act.                                       *)
(***************************************************************************)
EXTENDS Cluster

\* step: the call the reconcile makes next; todo: the TaskRuns it has still to
\* create or delete; next: the PipelineRun it will write.
VARIABLE prc

PrSteps == {"idle", "create", "delete", "update", "clear"}
PrIdle == [step |-> "idle", todo |-> {}, next |-> NoPipelineRun]

PrcTypeOK == prc \in [step : PrSteps, todo : SUBSET Tasks, next : PipelineRuns]

PrcInit == prc = PrIdle

PrWork == prc.step = "idle" /\ prQueued

\* The TaskRun calls come first, the status update after the last of them.
PrStep(step, todo) == IF todo = {} THEN "update" ELSE step

PrStart(step, todo, next) ==
    /\ PrWork
    /\ prQueued' = FALSE
    /\ prc' = [step |-> step, todo |-> todo, next |-> next]
    /\ prCurrent' = ReadPipelineRun("PipelineRun")
    /\ UNCHANGED <<objects, caches, watches, trQueued, trCurrent>>

\* The run with the phase "" of a new object defaulted, and the summary refreshed.
Refreshed ==
    [prCache EXCEPT !.phase = IF @ = "" THEN "Pending" ELSE @,
                    !.approval = {},
                    !.tasks = SummarizeTasks(trCache)]

\* A cancel request does not keep the run from being scheduled.
MutSchedulable == prCache.phase \notin TerminalPhases \cup {"Absent"}

\* The run takes part in scheduling: no cancel request, no terminal phase.
Schedulable == /\ prCache.phase \notin TerminalPhases \cup {"Absent"}
               /\ ~prCache.cancel

\* A Failed run none of whose tasks is failed any more is taken up again.
MutIgnoreRun ==
    /\ prCache.phase = "Failed"
    /\ ~HasFailedTask(trCache)
    /\ PrStart("update", {}, [Refreshed EXCEPT !.phase = "Running"])

\* Not found, or terminal with nothing to clear: the reconcile ends.
IgnoreRun ==
    /\ PrWork
    /\ \/ prCache.phase = "Absent"
       \/ prCache.phase \in TerminalPhases /\ ~prCache.cancel
    /\ prQueued' = FALSE
    /\ UNCHANGED <<objects, caches, watches, trQueued, versions, prc>>

AwaitApproval ==
    /\ Schedulable
    /\ FindPendingApproval(trCache) # {}
    /\ PrStart("update", {}, [Refreshed EXCEPT !.phase = "WaitingApproval",
                                               !.approval = FindPendingApproval(trCache)])

StopOnFailure ==
    /\ Schedulable
    /\ FindPendingApproval(trCache) = {}
    /\ HasFailedTask(trCache)
    /\ PrStart("update", {}, [Refreshed EXCEPT !.phase = "Failed"])

Advance ==
    /\ Schedulable
    /\ FindPendingApproval(trCache) = {}
    /\ ~HasFailedTask(trCache)
    /\ LET runnable == FindRunnableTasks(trCache)
           phase == IF runnable # {} THEN "Running"
                    ELSE IF AllTasksSucceeded(trCache) THEN "Succeeded"
                    ELSE Refreshed.phase
       IN  PrStart(PrStep("create", runnable), runnable, [Refreshed EXCEPT !.phase = phase])

\* A cancel request for a run that is over is only removed.
RefuseCancel ==
    /\ prCache.phase \in TerminalPhases
    /\ prCache.cancel
    /\ PrStart("clear", {}, prCache)

\* Only a Running run is cancelled, not one that waits for an approval.
MutBeginCancel ==
    /\ prCache.phase = "Running"
    /\ prCache.cancel
    /\ PrStart("update", {}, [prCache EXCEPT !.phase = "Cancelled", !.approval = {},
                                            !.tasks = CancelledTaskSummary(trCache)])

BeginCancel ==
    /\ prCache.phase \notin TerminalPhases \cup {"Absent"}
    /\ prCache.cancel
    /\ LET existing == {t \in Tasks : Exists(trCache, t)}
       IN  PrStart(PrStep("delete", existing), existing,
                   [prCache EXCEPT !.phase = "Cancelled", !.approval = {},
                                   !.tasks = CancelledTaskSummary(trCache)])

Reconcile ==
    \/ IgnoreRun
    \/ AwaitApproval
    \/ StopOnFailure
    \/ Advance
    \/ RefuseCancel
    \/ BeginCancel
-----------------------------------------------------------------------------
Done(t) == prc' = [prc EXCEPT !.todo = @ \ {t}, !.step = PrStep(@, prc.todo \ {t})]

\* In the order of Spec.Tasks.
CreateNext ==
    /\ prc.step = "create"
    /\ \E t \in prc.todo :
          /\ \A u \in prc.todo : Order[t] <= Order[u]
          /\ CreateTaskRun(t)
          /\ Done(t)
    /\ UNCHANGED <<pr, child, caches, prWatch, queues, prCurrent>>

\* In the order Go ranges over a map: any.
DeleteNext ==
    /\ prc.step = "delete"
    /\ \E t \in prc.todo :
          /\ DeleteTaskRun(t)
          /\ Done(t)
    /\ UNCHANGED <<pr, child, births, caches, prWatch, queues, prCurrent>>

\* The run is written whatever happened to it since it was read.
MutUpdateStatus ==
    /\ prc.step = "update"
    /\ PutPipelineRun(prc.next, "PipelineRun")
    /\ prc' = IF prc.next.cancel THEN [prc EXCEPT !.step = "clear"] ELSE PrIdle
    /\ UNCHANGED <<tr, child, births, caches, trWatch, queues, trCurrent>>

\* The copy is current, so its cancel annotation is the object's.
UpdateStatus ==
    /\ prc.step = "update"
    /\ "PipelineRun" \in prCurrent
    /\ PutPipelineRun(prc.next, "PipelineRun")
    /\ prc' = IF prc.next.cancel THEN [prc EXCEPT !.step = "clear"] ELSE PrIdle
    /\ UNCHANGED <<tr, child, births, caches, trWatch, queues, trCurrent>>

ClearCancel ==
    /\ prc.step = "clear"
    /\ PutPipelineRun([pr EXCEPT !.cancel = FALSE], "PipelineRun")
    /\ prc' = PrIdle
    /\ UNCHANGED <<tr, child, births, caches, trWatch, queues, trCurrent>>

\* A call fails: the reconcile ends with its error and the run is queued again.
PrAbort ==
    /\ prc.step # "idle"
    /\ prc' = PrIdle
    /\ prQueued' = TRUE
    /\ prCurrent' = prCurrent \ {"PipelineRun"}
    /\ UNCHANGED <<objects, caches, watches, trQueued, trCurrent>>

StatusConflict ==
    /\ prc.step = "update"
    /\ "PipelineRun" \notin prCurrent
    /\ PrAbort

PrcNext ==
    \/ Reconcile
    \/ CreateNext
    \/ DeleteNext
    \/ UpdateStatus
    \/ StatusConflict
    \/ ClearCancel
=============================================================================
