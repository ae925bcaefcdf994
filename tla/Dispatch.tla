------------------------------ MODULE Dispatch ------------------------------
(***************************************************************************)
(* The handlers of the Hub's commands.  The connector's read loop runs one *)
(* handler at a time and only logs the error of one that fails, so a       *)
(* command that meets a Conflict is lost.  A handler that reads one object *)
(* and writes it once is one step here: its write takes effect only if the *)
(* object did not change in between.  A rerun makes several calls, and the *)
(* reconcilers act between them.                                           *)
(***************************************************************************)
EXTENDS Cluster

CONSTANTS
    Required,      \* Required[t]: the approvals task t needs, 1 if it has no ApprovalConfig
    Deciders,      \* Deciders[t]: the Approvers in whose name the Hub decides task t
    HubCommands,   \* the commands the Hub sends after the run is applied
    RerunTasks,    \* the tasks it asks to rerun
    MaxReruns      \* bound: how often it does

ASSUME DispatchAssumption ==
    /\ Required \in [Tasks -> Nat \ {0}]
    /\ Deciders \in [Tasks -> SUBSET Approvers]
    /\ HubCommands \subseteq {"approve", "reject", "cancel", "rerun"}
    /\ RerunTasks \subseteq Tasks
    /\ MaxReruns \in Nat

\* rerun: the rerun being handled: the call it makes next, whether the run it read was
\* Failed, and the dependents it has still to delete.  reruns: how many were begun.
VARIABLES rerun, reruns

dispatchVars == <<rerun, reruns>>

RerunSteps == {"idle", "deleteChild", "reset", "downstream", "revive"}
RerunIdle ==
    [step |-> "idle", task |-> CHOOSE t \in Tasks : TRUE, failed |-> FALSE, todo |-> {}]

DispatchTypeOK ==
    /\ rerun \in [step : RerunSteps, task : Tasks, failed : BOOLEAN, todo : SUBSET Tasks]
    /\ reruns \in 0..MaxReruns

DispatchInit == rerun = RerunIdle /\ reruns = 0

Receives(command) == rerun.step = "idle" /\ command \in HubCommands

\* A resent command finds the run and leaves it alone.
ApplyPipelineRun ==
    /\ rerun.step = "idle"
    /\ pr.phase = "Absent"
    /\ PutPipelineRun([NoPipelineRun EXCEPT !.phase = ""], "Dispatch")
    /\ UNCHANGED <<trVars, child, births, caches, queues, dispatchVars>>

\* One signature is enough, however many are required.
MutApproveTask(t, approver) ==
    /\ Receives("approve")
    /\ Exists(trCache, t)
    /\ TaskRunCacheCurrent(t)
    /\ PutTaskRun(t, [tr[t] EXCEPT !.asked = TRUE, !.approvedBy = @ \cup {approver},
                                   !.phase = "Succeeded"], "Dispatch")
    /\ UNCHANGED <<prVars, child, births, caches, queues, dispatchVars>>

\* Whatever the task's type and phase are: a Job may be approved, a finished task may.
ApproveTask(t, approver) ==
    /\ Receives("approve")
    /\ Exists(trCache, t)
    /\ approver \notin trCache[t].approvedBy
    /\ TaskRunCacheCurrent(t)
    /\ LET signed == trCache[t].approvedBy \cup {approver} IN
       PutTaskRun(t, [trCache[t] EXCEPT !.asked = TRUE, !.approvedBy = signed,
                        !.phase = IF Cardinality(signed) >= Required[t] THEN "Succeeded" ELSE @],
                  "Dispatch")
    /\ UNCHANGED <<prVars, child, births, caches, queues, dispatchVars>>

RejectTask(t, approver) ==
    /\ Receives("reject")
    /\ Exists(trCache, t)
    /\ TaskRunCacheCurrent(t)
    /\ PutTaskRun(t, [trCache[t] EXCEPT !.asked = TRUE, !.rejectedBy = {approver},
                                        !.phase = "Failed"], "Dispatch")
    /\ UNCHANGED <<prVars, child, births, caches, queues, dispatchVars>>

\* A merge patch of the annotation: it lands on whatever the object is by now, and is
\* empty if the copy it is made from has the annotation.
CancelPipelineRun ==
    /\ Receives("cancel")
    /\ prCache.phase \notin TerminalPhases \cup {"Absent"}
    /\ ~prCache.cancel
    /\ PutPipelineRun([pr EXCEPT !.cancel = TRUE], "Dispatch")
    /\ UNCHANGED <<trVars, child, births, caches, queues, dispatchVars>>
-----------------------------------------------------------------------------
(* Rerun, call by call. *)

BeginRerun(t) ==
    /\ Receives("rerun")
    /\ t \in RerunTasks
    /\ reruns < MaxReruns
    /\ Exists(trCache, t)
    /\ prCache.phase # "Absent"
    /\ rerun' = [step |-> IF trCache[t].ref THEN "deleteChild" ELSE "reset", task |-> t,
                 failed |-> prCache.phase = "Failed", todo |-> DownstreamTasks(t)]
    /\ reruns' = reruns + 1
    /\ prCurrent' = ReadPipelineRun("Rerun")
    /\ trCurrent' = ReadTaskRun("Rerun", t)
    /\ UNCHANGED <<objects, caches, watches, queues>>

RerunDeleteChild ==
    /\ rerun.step = "deleteChild"
    /\ DeleteChild(rerun.task)
    /\ rerun' = [rerun EXCEPT !.step = "reset"]
    /\ UNCHANGED <<pr, tr, births, caches, watches, queues, versions, reruns>>

\* The handler returns; what it did stays done.
RerunEnds ==
    /\ rerun' = RerunIdle
    /\ UNCHANGED reruns

AfterReset(todo) == IF todo # {} THEN "downstream" ELSE "revive"

Reset(own) == [own EXCEPT !.phase = "Pending", !.ref = FALSE, !.retries = 0,
                          !.asked = FALSE, !.approvedBy = {}, !.rejectedBy = {}]

\* A copy that is current is the object.
RerunReset ==
    /\ rerun.step = "reset"
    /\ \/ /\ "Rerun" \in trCurrent[rerun.task]
          /\ PutTaskRun(rerun.task, Reset(tr[rerun.task]), "Rerun")
       \/ /\ ~Exists(tr, rerun.task)               \* NotFound is ignored
          /\ UNCHANGED trVars
    /\ rerun' = [rerun EXCEPT !.step = AfterReset(rerun.todo)]
    /\ UNCHANGED <<prVars, child, births, caches, queues, reruns>>

RerunDeleteDownstream ==
    /\ rerun.step = "downstream"
    /\ \E t \in rerun.todo :
          /\ DeleteTaskRun(t)
          /\ rerun' = [rerun EXCEPT !.todo = @ \ {t}, !.step = AfterReset(rerun.todo \ {t})]
    /\ UNCHANGED <<prVars, child, births, caches, queues, reruns>>

\* Only a Failed run is revived.
Revive ==
    /\ rerun.step = "revive"
    /\ rerun.failed
    /\ "Rerun" \in prCurrent
    /\ PutPipelineRun([pr EXCEPT !.phase = "Running"], "Rerun")
    /\ RerunEnds
    /\ UNCHANGED <<trVars, child, births, caches, queues>>

NothingToRevive ==
    /\ rerun.step = "revive"
    /\ ~rerun.failed
    /\ RerunEnds
    /\ prCurrent' = prCurrent \ {"Rerun"}
    /\ UNCHANGED <<objects, caches, watches, queues, trCurrent>>

\* A call fails: the error is logged, and nobody tries again.
RerunAbort ==
    /\ rerun.step # "idle"
    /\ RerunEnds
    /\ prCurrent' = prCurrent \ {"Rerun"}
    /\ trCurrent' = [trCurrent EXCEPT ![rerun.task] = @ \ {"Rerun"}]
    /\ UNCHANGED <<objects, caches, watches, queues>>

RerunConflict ==
    /\ \/ /\ rerun.step = "reset"
          /\ Exists(tr, rerun.task)
          /\ "Rerun" \notin trCurrent[rerun.task]
       \/ /\ rerun.step = "revive"
          /\ rerun.failed
          /\ "Rerun" \notin prCurrent
    /\ RerunAbort

DispatchNext ==
    \/ ApplyPipelineRun
    \/ \E t \in Tasks : \/ \E approver \in Deciders[t] : \/ ApproveTask(t, approver)
                                                      \/ RejectTask(t, approver)
                        \/ BeginRerun(t)
    \/ CancelPipelineRun
    \/ RerunDeleteChild
    \/ RerunReset
    \/ RerunDeleteDownstream
    \/ Revive
    \/ NothingToRevive
    \/ RerunConflict
=============================================================================
