--------------------------- MODULE OutcomeProofs ---------------------------
(***************************************************************************)
(* Proofs about a run that nobody reruns, for every pipeline and every     *)
(* bound: its tasks start in the order of the DAG, nothing behind an       *)
(* approval starts before its signatures, the outcome it ends with is      *)
(* true, a cancel request stays until the run is over, a task is started   *)
(* once, and a Job task that succeeded, up to its first retry, did so by   *)
(* the Job that is there: all of them whatever the Hub decides, and on     *)
(* tasks of whatever type.  They rest on TaskRunProofs, for what a list of *)
(* TaskRuns says was so once.                                              *)
(***************************************************************************)
EXTENDS TaskRunProofs

\* Every version of the run that may still be read.
PrVersions == {pr, prCache} \cup {prWatch[i] : i \in 1..Len(prWatch)}

\* The run was cancelled, or a request is on it that will cancel it: until something is
\* rerun, there is no way back from here.
Ending == pr.phase = "Cancelled" \/ (pr.cancel /\ pr.phase \notin TerminalPhases)

\* A copy of the run says it is over, or that it is to be cancelled, only if that is so; and
\* a reconcile that deletes TaskRuns or removes the request is right to.
RunFactsHold ==
    /\ rerun.step = "idle"
    /\ \A v \in PrVersions : /\ v.phase \in TerminalPhases => pr.phase = v.phase
                             /\ v.cancel /\ v.phase \notin TerminalPhases => Ending
    /\ prc.step = "delete" => Ending
    /\ Deciding /\ prc.next.cancel => Ending
    /\ prc.step = "clear" => pr.phase \in TerminalPhases

\* A task has one TaskRun, once it was created.
CreatedOnce ==
    ~Ending => \A t \in Tasks : births[t] = IF Exists(tr, t) THEN 1 ELSE 0

\* An older version of a TaskRun is behind it only as Follows says.
VersionsFollowed ==
    \A t \in Tasks : \A v \in Versions(t) :
        v.phase # "Absent" /\ v.uid = tr[t].uid => Follows(t, v, tr[t])

\* A version of t's TaskRun has got past: Passed, of any version.
GotPast(t, v) ==
    /\ v.phase # "Absent"
    /\ \/ v.phase = "Succeeded"
       \/ Signed(t, v)
       \/ Type[t] = "Canary" /\ v.ref
       \/ Type[t] = "Job" /\ v.rejectedBy # {}

\* All that t waits for has got past.
Ready(t) == \A u \in Tasks : u \in DependsOn[t] \/ Earlier(u, t) => Passed(u)

OrderHolds ==
    ~Ending => \A t \in Tasks :
                  Exists(tr, t) \/ (prc.step = "create" /\ t \in prc.todo) => Ready(t)

\* The TaskRun of a Job has the outcome, or the Hub has overruled it.
Vouches(t, v) == v.phase = "Succeeded" \/ v.rejectedBy # {}
Blames(t, v) == v.phase = "Failed" \/ Signed(t, v)

\* The outcome that a version of the run reports is true of the TaskRuns.
OutcomeFits(run, existing) ==
    /\ run.phase = "Succeeded" => \A t \in Tasks : /\ run.tasks[t] = "Succeeded"
                                                   /\ Type[t] = "Job" => Vouches(t, existing[t])
    /\ run.phase = "Failed" => \E t \in Tasks : /\ run.tasks[t] = "Failed"
                                                /\ Type[t] = "Job" => Blames(t, existing[t])

OutcomeHolds ==
    /\ OutcomeFits(pr, tr)
    /\ ~Ending /\ Deciding => OutcomeFits(prc.next, tr)

RunHolds ==
    reruns = 0 =>
        /\ RunFactsHold
        /\ CreatedOnce
        /\ VersionsFollowed
        /\ OrderHolds
        /\ OutcomeHolds

\* The summary a cancel writes, and the one that was written, leave nothing unfinished.
SummaryHolds ==
    /\ Deciding /\ prc.next.cancel => \A t \in Tasks : prc.next.tasks[t] \in TerminalTaskPhases
    /\ CancelledSummaryIsFinal

\* A task was created once, and once more for every rerun that deleted its TaskRun.
BirthsHold ==
    /\ \A v \in PrVersions : ~v.cancel /\ v.phase # "Cancelled"
    /\ prc.step # "delete"
    /\ \A t \in Tasks :
          births[t] + (IF rerun.step # "idle" /\ t \in rerun.todo THEN 1 ELSE 0)
             <= reruns + (IF Exists(tr, t) THEN 1 ELSE 0)
-----------------------------------------------------------------------------
(* What a step may do to the run, and to the reconcile in hand. *)

\* The writes of the run.
RunMove ==
    \/ UNCHANGED pr
    \/ pr = NoPipelineRun /\ pr' = [NoPipelineRun EXCEPT !.phase = ""] /\ UNCHANGED prc
    \/ pr' = [pr EXCEPT !.cancel = TRUE] /\ UNCHANGED prc /\ "cancel" \in HubCommands
    \/ /\ rerun.step = "revive" /\ pr.phase = "Failed"
       /\ pr' = [pr EXCEPT !.phase = "Running"] /\ UNCHANGED prc
    \/ prc.step = "update" /\ "PipelineRun" \in prCurrent /\ pr' = prc.next
    \/ prc.step = "clear" /\ pr' = [pr EXCEPT !.cancel = FALSE] /\ prc' = PrIdle

\* The reconcile in hand is begun, carried on, or over.
ReconcileMove ==
    \/ UNCHANGED prc
    \/ prc' = PrIdle
    \/ Reconcile
    \/ /\ prc.step \in {"create", "delete"}
       /\ \E t \in prc.todo : Done(t) /\ (prc.step = "create" => CreateTaskRun(t))
       /\ UNCHANGED pr
    \/ /\ prc.step = "update" /\ "PipelineRun" \in prCurrent /\ prc.next.cancel
       /\ prc' = [prc EXCEPT !.step = "clear"] /\ pr' = prc.next

\* Membership in PrVersions, without the set of the stream.
LEMMA PrVersionCases ==
    ASSUME NEW v
    PROVE  v \in PrVersions <=> v = pr \/ v = prCache \/ \E i \in 1..Len(prWatch) : v = prWatch[i]
BY DEF PrVersions

LEMMA PrVersionType ==
    ASSUME ClusterTypeOK, NEW v \in PrVersions
    PROVE  v \in PipelineRuns
<1>1. pr \in PipelineRuns /\ prCache \in PipelineRuns /\ prWatch \in Seq(PipelineRuns)
  BY DEF ClusterTypeOK
<1>2. \A i \in 1..Len(prWatch) : prWatch[i] \in PipelineRuns
  BY <1>1
<1> QED
  BY <1>1, <1>2, PrVersionCases

\* A write of the run adds one version to it.
LEMMA PutPrVersions ==
    ASSUME prWatch \in Seq(PipelineRuns), NEW obj \in PipelineRuns, NEW client,
           PutPipelineRun(obj, client), UNCHANGED prCache
    PROVE  pr' = obj /\ PrVersions' \subseteq PrVersions \cup {pr'}
<1>1. CASE obj = pr
  BY <1>1 DEF PutPipelineRun, PrVersions
<1>2. CASE obj # pr
  <2>1. pr' = obj /\ prWatch' = Append(prWatch, obj)
    BY <1>2 DEF PutPipelineRun
  <2>2. /\ Len(prWatch) \in Nat
        /\ Len(prWatch') = Len(prWatch) + 1
        /\ \A i \in 1..Len(prWatch) : prWatch'[i] = prWatch[i]
        /\ prWatch'[Len(prWatch) + 1] = obj
    BY <2>1, AppendProperties, LenProperties
  <2>3. ASSUME NEW i \in 1..Len(prWatch') PROVE prWatch'[i] \in PrVersions \cup {pr'}
    <3>1. CASE i \in 1..Len(prWatch)
      BY <2>2, <3>1, PrVersionCases
    <3>2. CASE i = Len(prWatch) + 1
      BY <2>1, <2>2, <3>2
    <3> QED
      BY <2>2, <3>1, <3>2
  <2> QED
    BY <2>1, <2>3 DEF PrVersions
<1> QED
  BY <1>1, <1>2

LEMMA SyncPrVersions ==
    ASSUME prWatch \in Seq(PipelineRuns), SyncPipelineRun
    PROVE  PrVersions' \subseteq PrVersions
<1>1. /\ prWatch # << >> /\ UNCHANGED pr
      /\ prCache' = Head(prWatch) /\ prWatch' = Tail(prWatch)
  BY DEF SyncPipelineRun, objects
<1>2. /\ Head(prWatch) = prWatch[1]
      /\ Len(prWatch) \in Nat /\ Len(prWatch) >= 1
      /\ Len(Tail(prWatch)) = Len(prWatch) - 1
      /\ \A i \in 1..(Len(prWatch) - 1) : Tail(prWatch)[i] = prWatch[i + 1]
  BY <1>1, HeadTailProperties, LenProperties, EmptySeq
<1>3. \A i \in 1..Len(prWatch') : i + 1 \in 1..Len(prWatch) /\ prWatch'[i] = prWatch[i + 1]
  BY <1>1, <1>2
<1>4. prCache' = prWatch[1] /\ 1 \in 1..Len(prWatch)
  BY <1>1, <1>2
<1> QED
  BY <1>1, <1>3, <1>4 DEF PrVersions

\* Every step is of these kinds.
LEMMA PipelineRunKinds ==
    ASSUME TypeOK, CopiesHold, PipelineRunStep
    PROVE  RunMove /\ ReconcileMove /\ PrVersions' \subseteq PrVersions \cup {pr'}
<1>1. /\ pr \in PipelineRuns /\ prWatch \in Seq(PipelineRuns) /\ prc.next \in PipelineRuns
      /\ PrcNext
  BY DEF TypeOK, ClusterTypeOK, PrcTypeOK, PipelineRunStep
<1>2. UNCHANGED <<pr, prCache, prWatch>> => RunMove /\ PrVersions' = PrVersions
  BY DEF RunMove, PrVersions
<1>3. CASE Reconcile
  <2>1. UNCHANGED <<pr, prCache, prWatch>>
    BY <1>3 DEF Reconcile, IgnoreRun, AwaitApproval, StopOnFailure, Advance, RefuseCancel,
       BeginCancel, PrStart, objects, caches, watches
  <2> QED
    BY <1>2, <1>3, <2>1 DEF ReconcileMove
<1>4. CASE CreateNext \/ DeleteNext
  <2>1. UNCHANGED <<pr, prCache, prWatch>>
    BY <1>4 DEF CreateNext, DeleteNext, caches
  <2>2. ReconcileMove
    BY <1>4, <2>1 DEF CreateNext, DeleteNext, ReconcileMove
  <2> QED
    BY <1>2, <2>1, <2>2
<1>5. CASE UpdateStatus
  <2>1. /\ prc.step = "update" /\ "PipelineRun" \in prCurrent
        /\ PutPipelineRun(prc.next, "PipelineRun") /\ UNCHANGED prCache
        /\ prc' = IF prc.next.cancel THEN [prc EXCEPT !.step = "clear"] ELSE PrIdle
    BY <1>5 DEF UpdateStatus, caches
  <2>2. pr' = prc.next /\ PrVersions' \subseteq PrVersions \cup {pr'}
    BY <1>1, <2>1, PutPrVersions
  <2> QED
    BY <2>1, <2>2 DEF RunMove, ReconcileMove
<1>6. CASE StatusConflict
  <2>1. UNCHANGED <<pr, prCache, prWatch>> /\ prc' = PrIdle
    BY <1>6 DEF StatusConflict, PrAbort, objects, caches, watches
  <2> QED
    BY <1>2, <2>1 DEF ReconcileMove
<1>7. CASE ClearCancel
  <2> DEFINE obj == [pr EXCEPT !.cancel = FALSE]
  <2>1. obj \in PipelineRuns
    BY <1>1 DEF PipelineRuns
  <2>2. /\ PutPipelineRun(obj, "PipelineRun") /\ UNCHANGED prCache
        /\ prc.step = "clear" /\ prc' = PrIdle
    BY <1>7 DEF ClearCancel, caches
  <2>3. pr' = obj /\ PrVersions' \subseteq PrVersions \cup {pr'}
    <3> HIDE DEF obj
    <3> QED
      BY <1>1, <2>1, <2>2, PutPrVersions
  <2> QED
    BY <2>2, <2>3 DEF RunMove, ReconcileMove
<1> QED
  BY <1>1, <1>3, <1>4, <1>5, <1>6, <1>7 DEF PrcNext

LEMMA DispatchKinds ==
    ASSUME TypeOK, CopiesHold, DispatchStep
    PROVE  RunMove /\ ReconcileMove /\ PrVersions' \subseteq PrVersions \cup {pr'}
<1>1. /\ pr \in PipelineRuns /\ prWatch \in Seq(PipelineRuns)
      /\ DispatchNext /\ UNCHANGED prc
  BY DEF TypeOK, ClusterTypeOK, DispatchStep
<1>2. ReconcileMove
  BY <1>1 DEF ReconcileMove
<1>3. CASE UNCHANGED <<pr, prCache, prWatch>>
  BY <1>2, <1>3 DEF RunMove, PrVersions
<1>4. ASSUME NEW obj \in PipelineRuns, NEW client, PutPipelineRun(obj, client), UNCHANGED prCache,
             pr' = obj => RunMove
      PROVE  RunMove /\ PrVersions' \subseteq PrVersions \cup {pr'}
  BY <1>1, <1>4, PutPrVersions
<1>5. CASE ApplyPipelineRun
  <2> DEFINE obj == [NoPipelineRun EXCEPT !.phase = ""]
  <2>1. obj \in PipelineRuns
    BY RecordTypes DEF PipelineRuns, PipelineRunPhases
  <2>2. PutPipelineRun(obj, "Dispatch") /\ UNCHANGED prCache /\ pr = NoPipelineRun
    BY <1>5 DEF ApplyPipelineRun, caches, CopiesHold, NotAppliedYet
  <2>3. pr' = obj => RunMove
    BY <1>1, <2>2 DEF RunMove
  <2> HIDE DEF obj
  <2> QED
    BY <1>2, <1>4, <2>1, <2>2, <2>3
<1>6. CASE CancelPipelineRun
  <2> DEFINE obj == [pr EXCEPT !.cancel = TRUE]
  <2>1. obj \in PipelineRuns
    BY <1>1 DEF PipelineRuns
  <2>2. PutPipelineRun(obj, "Dispatch") /\ UNCHANGED prCache /\ "cancel" \in HubCommands
    BY <1>6 DEF CancelPipelineRun, Receives, caches
  <2>3. pr' = obj => RunMove
    BY <1>1, <2>2 DEF RunMove
  <2> HIDE DEF obj
  <2> QED
    BY <1>2, <1>4, <2>1, <2>2, <2>3
<1>7. CASE Revive
  <2> DEFINE obj == [pr EXCEPT !.phase = "Running"]
  <2>1. obj \in PipelineRuns
    BY <1>1 DEF PipelineRuns, PipelineRunPhases
  <2>2. PutPipelineRun(obj, "Rerun") /\ UNCHANGED prCache /\ rerun.step = "revive"
        /\ rerun.failed /\ "Rerun" \in prCurrent
    BY <1>7 DEF Revive, caches
  <2>3. pr.phase = "Failed"
    BY <2>2 DEF CopiesHold, RerunCopyHolds
  <2>4. pr' = obj => RunMove
    BY <1>1, <2>2, <2>3 DEF RunMove
  <2> HIDE DEF obj
  <2> QED
    BY <1>2, <1>4, <2>1, <2>2, <2>4
<1> QED
  BY <1>1, <1>3, <1>5, <1>6, <1>7
     DEF DispatchNext, ApproveTask, RejectTask, BeginRerun, RerunDeleteChild, RerunReset,
         RerunDeleteDownstream, NothingToRevive, RerunConflict, RerunAbort,
         prVars, objects, caches, watches, versions

LEMMA StepKinds ==
    ASSUME TypeOK, CopiesHold, [Next]_vars
    PROVE  RunMove /\ ReconcileMove /\ PrVersions' \subseteq PrVersions \cup {pr'}
<1>1. prWatch \in Seq(PipelineRuns)
  BY DEF TypeOK, ClusterTypeOK
<1>2. CASE UNCHANGED vars
  BY <1>2 DEF vars, clusterVars, local, objects, caches, watches, RunMove, ReconcileMove,
     PrVersions
<1>3. CASE ClusterStep
  <2>1. UNCHANGED <<pr, prc>>
    BY <1>3 DEF ClusterStep, ClusterNext, SyncPipelineRun, SyncTaskRun, SyncChild,
       ChildProgress, CollectGarbage, objects, local
  <2>2. SyncPipelineRun \/ UNCHANGED <<prCache, prWatch>>
    BY <1>3 DEF ClusterStep, ClusterNext, SyncTaskRun, SyncChild, ChildProgress,
       CollectGarbage, caches, watches
  <2> QED
    BY <1>1, <2>1, <2>2, SyncPrVersions DEF RunMove, ReconcileMove, PrVersions
<1>4. CASE TaskRunStep
  <2>1. UNCHANGED <<pr, prCache, prWatch, prc>>
    BY <1>4 DEF TaskRunStep, TrcNext, ReconcileTaskRun, IgnoreTaskRun, PrepareApproval,
       StartChild, RetryJob, MirrorChild, TrStart, CreateOwnChild, DeleteOwnChild,
       UpdateTaskRun, TaskRunConflict, TrAbort, objects, caches, watches, versions
  <2> QED
    BY <2>1 DEF RunMove, ReconcileMove, PrVersions
<1>5. CASE CallFails
  <2>1. UNCHANGED <<pr, prCache, prWatch>> /\ (UNCHANGED prc \/ prc' = PrIdle)
    BY <1>5 DEF CallFails, PrAbort, TrAbort, RerunAbort, objects, caches, watches
  <2> QED
    BY <2>1 DEF RunMove, ReconcileMove, PrVersions
<1>6. CASE Restart
  <2>1. UNCHANGED pr /\ prCache' = pr /\ prWatch' = << >> /\ prc' = PrIdle
    BY <1>6 DEF Restart, objects
  <2>2. Len(prWatch') = 0
    <3>1. Len(<< >>) = 0
      OBVIOUS
    <3> QED
      BY <2>1, <3>1, Zenon
  <2> QED
    BY <2>1, <2>2 DEF RunMove, ReconcileMove, PrVersions
<1> QED
  BY <1>2, <1>3, <1>4, <1>5, <1>6, PipelineRunKinds, DispatchKinds DEF Next

\* What a step may do to the TaskRuns, their stream and their cache.
WriteMove ==
    \/ UNCHANGED <<tr, trWatch, trCache>>
    \/ SyncTaskRun
    \/ UNCHANGED tr /\ trCache' = tr /\ trWatch' = << >>
    \/ \E t \in Tasks : \E obj \in TaskRuns : \E client :
          /\ Writes(t, obj, client)
          /\ Type[t] = "Job" => PutTaskRun(t, obj, client)
          /\ UNCHANGED trCache

LEMMA StepWrites ==
    ASSUME TypeOK, [Next]_vars
    PROVE  WriteMove
<1>1. /\ tr \in [Tasks -> TaskRuns] /\ trCache \in [Tasks -> TaskRuns]
      /\ trc \in [step : TrSteps, task : Tasks, next : TaskRuns]
      /\ rerun \in [step : RerunSteps, task : Tasks, failed : BOOLEAN, todo : SUBSET Tasks]
      /\ prc \in [step : PrSteps, todo : SUBSET Tasks, next : PipelineRuns]
  BY DEF TypeOK, ClusterTypeOK, TrcTypeOK, DispatchTypeOK, PrcTypeOK
<1>2. UNCHANGED <<tr, trWatch, trCache>> => WriteMove
  BY DEF WriteMove
<1>3. ASSUME NEW t \in Tasks, NEW obj \in TaskRuns, NEW client, PutTaskRun(t, obj, client),
             UNCHANGED trCache
      PROVE  WriteMove
  BY <1>3 DEF WriteMove, Writes
<1>11. ASSUME NEW t \in Tasks, NEW obj \in TaskRuns, RestampTaskRun(t), obj = tr[t],
              Type[t] # "Job", UNCHANGED trCache
       PROVE  WriteMove
  BY <1>11 DEF WriteMove, Writes
<1>4. CASE UNCHANGED vars
  BY <1>2, <1>4 DEF vars, clusterVars, objects, caches, watches
<1>5. CASE ClusterStep
  <2>1. SyncTaskRun \/ UNCHANGED <<tr, trWatch, trCache>>
    BY <1>5 DEF ClusterStep, ClusterNext, SyncPipelineRun, SyncChild, ChildProgress,
       CollectGarbage, objects, caches, watches
  <2> QED
    BY <1>2, <2>1 DEF WriteMove
<1>6. CASE PipelineRunStep
  <2>1. CASE CreateNext
    <3>1. PICK t \in prc.todo : CreateTaskRun(t)
      BY <2>1 DEF CreateNext
    <3>2. t \in Tasks /\ UNCHANGED trCache
      BY <1>1, <2>1 DEF CreateNext, caches
    <3>3. NewTaskRun(t) \in TaskRuns
      BY <3>2, NewTaskRunSound
    <3>4. UNCHANGED <<tr, trWatch>> \/ PutTaskRun(t, NewTaskRun(t), "")
      BY <3>1 DEF CreateTaskRun, trVars
    <3> QED
      BY <1>2, <1>3, <3>2, <3>3, <3>4
  <2>2. CASE DeleteNext
    <3>1. PICK t \in prc.todo : PutTaskRun(t, NoTaskRun, "")
      BY <2>2 DEF DeleteNext, DeleteTaskRun
    <3>2. t \in Tasks /\ UNCHANGED trCache
      BY <1>1, <2>2 DEF DeleteNext, caches
    <3> QED
      BY <1>3, <3>1, <3>2, RecordTypes
  <2>3. CASE Reconcile \/ UpdateStatus \/ StatusConflict \/ ClearCancel
    <3>1. UNCHANGED <<tr, trWatch, trCache>>
      BY <2>3 DEF Reconcile, IgnoreRun, AwaitApproval, StopOnFailure, Advance, RefuseCancel,
         BeginCancel, PrStart, UpdateStatus, StatusConflict, PrAbort, ClearCancel, objects,
         caches, watches
    <3> QED
      BY <1>2, <3>1
  <2> QED
    BY <1>6, <2>1, <2>2, <2>3 DEF PipelineRunStep, PrcNext
<1>7. CASE TaskRunStep
  <2>1. CASE UpdateTaskRun
    <3>1. /\ trc.task \in Tasks /\ trc.next \in TaskRuns /\ UNCHANGED trCache
          /\ PutTaskRun(trc.task, trc.next, "TaskRun") \/ RestampOutcome
      BY <1>1, <2>1 DEF UpdateTaskRun, caches
    <3>2. CASE PutTaskRun(trc.task, trc.next, "TaskRun")
      BY <1>3, <3>1, <3>2
    <3>3. CASE RestampOutcome
      BY <1>11, <3>1, <3>3 DEF RestampOutcome
    <3> QED
      BY <3>1, <3>2, <3>3
  <2>2. CASE UNCHANGED <<tr, trWatch, trCache>>
    BY <1>2, <2>2
  <2> QED
    BY <1>7, <2>1, <2>2 DEF TaskRunStep, TrcNext, ReconcileTaskRun, IgnoreTaskRun,
       PrepareApproval, StartChild, RetryJob, MirrorChild, TrStart, CreateOwnChild,
       DeleteOwnChild, TaskRunConflict, TrAbort, objects, caches, watches
<1>8. CASE DispatchStep
  <2>1. ASSUME NEW t \in Tasks, NEW obj, PutTaskRun(t, obj, "Dispatch"), UNCHANGED trCache
        PROVE  obj \in TaskRuns => WriteMove
    BY <1>3, <2>1
  <2>2. ASSUME NEW t \in Tasks, NEW approver \in Deciders[t], ApproveTask(t, approver)
        PROVE  WriteMove
    <3> DEFINE signed == trCache[t].approvedBy \cup {approver}
               phase == IF Cardinality(signed) >= Required[t] THEN "Succeeded"
                        ELSE trCache[t].phase
               obj == [trCache[t] EXCEPT !.asked = TRUE, !.approvedBy = signed, !.phase = phase]
    <3>1. PutTaskRun(t, obj, "Dispatch") /\ UNCHANGED trCache
      BY <2>2 DEF ApproveTask, caches
    <3>2. trCache[t] \in TaskRuns
      BY <1>1
    <3>3. signed \in SUBSET Approvers /\ phase \in TaskRunPhases \cup {"Absent"}
      BY <3>2, DispatchAssumption DEF TaskRuns, TaskRunPhases
    <3> HIDE DEF signed, phase
    <3>4. obj \in TaskRuns
      BY <3>2, <3>3 DEF TaskRuns
    <3> QED
      BY <2>1, <3>1, <3>4
  <2>3. ASSUME NEW t \in Tasks, NEW approver \in Deciders[t], RejectTask(t, approver)
        PROVE  WriteMove
    <3> DEFINE obj == [trCache[t] EXCEPT !.asked = TRUE, !.rejectedBy = {approver},
                                         !.phase = "Failed"]
    <3>1. PutTaskRun(t, obj, "Dispatch") /\ UNCHANGED trCache
      BY <2>3 DEF RejectTask, caches
    <3>2. trCache[t] \in TaskRuns
      BY <1>1
    <3>3. obj \in TaskRuns
      BY <3>2, DispatchAssumption DEF TaskRuns, TaskRunPhases
    <3> HIDE DEF obj
    <3> QED
      BY <2>1, <3>1, <3>3
  <2>4. CASE RerunReset
    <3>1. UNCHANGED trCache
          /\ \/ PutTaskRun(rerun.task, Reset(tr[rerun.task]), "Rerun")
             \/ UNCHANGED <<tr, trWatch>>
      BY <2>4 DEF RerunReset, caches, trVars
    <3>2. rerun.task \in Tasks /\ tr[rerun.task] \in TaskRuns
      BY <1>1
    <3>3. Reset(tr[rerun.task]) \in TaskRuns
      BY <3>2 DEF Reset, TaskRuns, TaskRunPhases
    <3> QED
      BY <1>2, <1>3, <3>1, <3>2, <3>3
  <2>5. CASE RerunDeleteDownstream
    <3>1. PICK t \in rerun.todo : PutTaskRun(t, NoTaskRun, "")
      BY <2>5 DEF RerunDeleteDownstream, DeleteTaskRun
    <3>2. t \in Tasks /\ UNCHANGED trCache
      BY <1>1, <2>5 DEF RerunDeleteDownstream, caches
    <3> QED
      BY <1>3, <3>1, <3>2, RecordTypes
  <2>6. CASE UNCHANGED <<tr, trWatch, trCache>>
    BY <1>2, <2>6
  <2> QED
    BY <1>8, <2>2, <2>3, <2>4, <2>5, <2>6 DEF DispatchStep, DispatchNext, ApplyPipelineRun,
       BeginRerun, CancelPipelineRun, RerunDeleteChild, Revive, NothingToRevive, RerunConflict,
       RerunAbort, trVars, objects, caches, watches
<1>9. CASE CallFails
  <2>1. UNCHANGED <<tr, trWatch, trCache>>
    BY <1>9 DEF CallFails, PrAbort, TrAbort, RerunAbort, objects, caches, watches
  <2> QED
    BY <1>2, <2>1
<1>10. CASE Restart
  BY <1>10 DEF Restart, objects, WriteMove
<1> QED
  BY <1>4, <1>5, <1>6, <1>7, <1>8, <1>9, <1>10 DEF Next

\* A step adds at most one version to those of a TaskRun: the one it writes.
LEMMA StepVersions ==
    ASSUME TypeOK, TaskRunsHold, [Next]_vars
    PROVE  \A t \in Tasks : Versions(t)' \subseteq Versions(t) \cup {tr'[t]}
<1>1. /\ tr \in [Tasks -> TaskRuns] /\ trCache \in [Tasks -> TaskRuns]
      /\ trWatch \in Seq(Events) /\ trCurrent \in [Tasks -> SUBSET Clients]
      /\ \A t \in Tasks : CatchesUp(t)
  BY DEF TypeOK, ClusterTypeOK, Events, TaskRunsHold
<1>2. CASE UNCHANGED <<tr, trWatch, trCache>>
  BY <1>2 DEF Versions
<1>3. CASE SyncTaskRun
  BY <1>1, <1>3, SyncTaskRunVersions
<1>4. CASE UNCHANGED tr /\ trCache' = tr /\ trWatch' = << >>
  <2>1. Len(trWatch') = 0
    <3>1. Len(<< >>) = 0
      OBVIOUS
    <3> QED
      BY <1>4, <3>1, Zenon
  <2> QED
    BY <1>4, <2>1 DEF Versions
<1>5. ASSUME NEW t \in Tasks, NEW obj \in TaskRuns, NEW client, Writes(t, obj, client),
             UNCHANGED trCache
      PROVE  \A u \in Tasks : Versions(u)' \subseteq Versions(u) \cup {tr'[u]}
  BY <1>1, <1>5, PutTaskRunVersions
<1> QED
  BY <1>2, <1>3, <1>4, <1>5, StepWrites DEF WriteMove

\* No rerun is in hand before the first was begun.
LEMMA NoRerunBegins ==
    ASSUME TypeOK, [Next]_vars, rerun.step = "idle" \/ reruns # 0, reruns' = 0
    PROVE  reruns = 0 /\ rerun'.step = "idle"
<1>1. reruns \in Nat
  BY DEF TypeOK, DispatchTypeOK, DispatchAssumption
<1>2. CASE \E t \in Tasks : BeginRerun(t)
  BY <1>1, <1>2 DEF BeginRerun
<1>3. CASE UNCHANGED dispatchVars
  BY <1>3 DEF dispatchVars
<1>4. CASE rerun' = RerunIdle /\ (UNCHANGED reruns \/ reruns = 0)
  BY <1>4 DEF RerunIdle
<1>5. CASE rerun.step # "idle" /\ UNCHANGED reruns
  BY <1>5
<1> QED
  BY <1>2, <1>3, <1>4, <1>5
     DEF Next, vars, local, ClusterStep, PipelineRunStep, TaskRunStep, DispatchStep, CallFails,
         Restart, RerunAbort, RerunEnds, DispatchNext, ApplyPipelineRun, ApproveTask, RejectTask,
         CancelPipelineRun, RerunDeleteChild, RerunReset, RerunDeleteDownstream, Revive,
         NothingToRevive, RerunConflict, dispatchVars

\* What a reconcile decides on.
LEMMA ReconcileDecides ==
    ASSUME TypeOK, Reconcile
    PROVE  /\ UNCHANGED <<pr, tr, births>>
           /\ \/ UNCHANGED prc
              \/ /\ prCache.phase \in TerminalPhases
                 /\ prc'.step = "clear"
              \/ /\ prCache.cancel /\ prCache.phase \notin TerminalPhases
                 /\ prc'.step \in {"delete", "update"}
                 /\ prc'.next.phase = "Cancelled" /\ prc'.next.cancel
                 /\ prc'.next.tasks = CancelledTaskSummary(trCache)
              \/ /\ prc'.step \in {"create", "update"}
                 /\ prc'.step = "create" => prc'.todo = FindRunnableTasks(trCache)
                 /\ ~prc'.next.cancel /\ prc'.next.phase # "Cancelled"
                 /\ prc'.next.tasks = SummarizeTasks(trCache)
                 /\ prc'.next.phase = "Succeeded" => AllTasksSucceeded(trCache)
                 /\ prc'.next.phase = "Failed" => HasFailedTask(trCache)
<1>1. prCache \in PipelineRuns
  BY DEF TypeOK, ClusterTypeOK
<1>2. UNCHANGED <<pr, tr, births>>
  BY DEF Reconcile, IgnoreRun, AwaitApproval, StopOnFailure, Advance, RefuseCancel, BeginCancel,
     PrStart, objects
<1>3. /\ Refreshed.cancel = prCache.cancel /\ Refreshed.tasks = SummarizeTasks(trCache)
      /\ Refreshed.phase = IF prCache.phase = "" THEN "Pending" ELSE prCache.phase
  BY <1>1 DEF Refreshed, PipelineRuns
<1>4. \A phase, approval :
         LET next == [Refreshed EXCEPT !.phase = phase, !.approval = approval]
         IN  next.phase = phase /\ next.cancel = prCache.cancel
             /\ next.tasks = SummarizeTasks(trCache)
  BY <1>1, <1>3 DEF Refreshed, PipelineRuns
<1>5. \A phase :
         LET next == [Refreshed EXCEPT !.phase = phase]
         IN  next.phase = phase /\ next.cancel = prCache.cancel
             /\ next.tasks = SummarizeTasks(trCache)
  BY <1>1, <1>3 DEF Refreshed, PipelineRuns
<1>6. CASE IgnoreRun
  BY <1>2, <1>6 DEF IgnoreRun
<1>7. CASE AwaitApproval
  <2> DEFINE next == [Refreshed EXCEPT !.phase = "WaitingApproval",
                                       !.approval = FindPendingApproval(trCache)]
  <2>1. next.phase = "WaitingApproval" /\ next.cancel = prCache.cancel
        /\ next.tasks = SummarizeTasks(trCache)
    BY <1>4
  <2>2. ~prCache.cancel /\ prc'.step = "update" /\ prc'.next = next
    BY <1>7 DEF AwaitApproval, Schedulable, PrStart
  <2> HIDE DEF next
  <2> QED
    BY <1>2, <2>1, <2>2
<1>8. CASE StopOnFailure
  <2> DEFINE next == [Refreshed EXCEPT !.phase = "Failed"]
  <2>1. next.phase = "Failed" /\ next.cancel = prCache.cancel
        /\ next.tasks = SummarizeTasks(trCache)
    BY <1>5
  <2>2. ~prCache.cancel /\ prc'.step = "update" /\ prc'.next = next /\ HasFailedTask(trCache)
    BY <1>8 DEF StopOnFailure, Schedulable, PrStart
  <2> HIDE DEF next
  <2> QED
    BY <1>2, <2>1, <2>2
<1>9. CASE Advance
  <2> DEFINE runnable == FindRunnableTasks(trCache)
             phase == IF runnable # {} THEN "Running"
                      ELSE IF AllTasksSucceeded(trCache) THEN "Succeeded"
                      ELSE Refreshed.phase
             next == [Refreshed EXCEPT !.phase = phase]
  <2>1. next.phase = phase /\ next.cancel = prCache.cancel
        /\ next.tasks = SummarizeTasks(trCache)
    BY <1>5
  <2>2. /\ ~prCache.cancel /\ prCache.phase \notin TerminalPhases
        /\ prc'.step = PrStep("create", runnable) /\ prc'.todo = runnable /\ prc'.next = next
    BY <1>9 DEF Advance, Schedulable, PrStart
  <2>3. phase # "Cancelled" /\ phase # "Failed"
        /\ (phase = "Succeeded" => AllTasksSucceeded(trCache))
    BY <1>3, <2>2 DEF TerminalPhases
  <2> HIDE DEF next, phase
  <2> QED
    BY <1>2, <2>1, <2>2, <2>3 DEF PrStep
<1>10. CASE RefuseCancel
  BY <1>2, <1>10 DEF RefuseCancel, PrStart
<1>11. CASE BeginCancel
  <2> DEFINE existing == {t \in Tasks : Exists(trCache, t)}
             next == [prCache EXCEPT !.phase = "Cancelled", !.approval = {},
                                     !.tasks = CancelledTaskSummary(trCache)]
  <2>1. next.phase = "Cancelled" /\ next.cancel = prCache.cancel
        /\ next.tasks = CancelledTaskSummary(trCache)
    BY <1>1 DEF PipelineRuns
  <2>2. /\ prCache.cancel /\ prCache.phase \notin TerminalPhases
        /\ prc'.step = PrStep("delete", existing) /\ prc'.next = next
    BY <1>11 DEF BeginCancel, PrStart
  <2> HIDE DEF next, existing
  <2> QED
    BY <1>2, <2>1, <2>2 DEF PrStep
<1> QED
  BY <1>6, <1>7, <1>8, <1>9, <1>10, <1>11 DEF Reconcile

\* The records of a step that goes on with a reconcile.
LEMMA DoneKeeps ==
    ASSUME TypeOK, NEW t \in prc.todo, Done(t)
    PROVE  /\ prc'.next = prc.next /\ prc'.todo \subseteq prc.todo
           /\ prc'.step \in {prc.step, "update"}
BY DEF TypeOK, PrcTypeOK, Done, PrStep
-----------------------------------------------------------------------------
(* RunFactsHold. *)

\* Until something is rerun, a run that is over stays as it is, and one that is to be
\* cancelled is cancelled.
LEMMA NoWayBack ==
    ASSUME TypeOK, CopiesHold, RunFactsHold, RunMove
    PROVE  /\ Ending => Ending'
           /\ pr.phase \in TerminalPhases => pr'.phase = pr.phase
<1>1. pr \in PipelineRuns
  BY DEF TypeOK, ClusterTypeOK
<1>2. CASE UNCHANGED pr
  BY <1>2 DEF Ending
<1>3. CASE pr = NoPipelineRun
  BY <1>3 DEF Ending, NoPipelineRun, TerminalPhases
<1>4. CASE pr' = [pr EXCEPT !.cancel = TRUE]
  <2>1. pr'.cancel /\ pr'.phase = pr.phase
    BY <1>1, <1>4 DEF PipelineRuns
  <2> QED
    BY <2>1 DEF Ending
<1>5. CASE prc.step = "update" /\ "PipelineRun" \in prCurrent /\ pr' = prc.next
  <2>1. /\ prc.next.phase \in IF prc.next.cancel THEN {"Cancelled"} ELSE ProceedPhases
        /\ pr.phase \notin TerminalPhases
        /\ prc.next.cancel = pr.cancel
    BY <1>5 DEF CopiesHold, DecisionFits, ReconcilerCopyHolds, Deciding, ProceedPhases
  <2> QED
    BY <1>5, <2>1 DEF Ending, TerminalPhases
<1>6. CASE prc.step = "clear" /\ pr' = [pr EXCEPT !.cancel = FALSE]
  <2>1. pr'.phase = pr.phase /\ pr.phase \in TerminalPhases
    BY <1>1, <1>6 DEF PipelineRuns, RunFactsHold
  <2> QED
    BY <2>1 DEF Ending
<1> QED
  BY <1>2, <1>3, <1>4, <1>5, <1>6 DEF RunMove, RunFactsHold

LEMMA RunFactsStep ==
    ASSUME TypeOK, CopiesHold, RunFactsHold, rerun'.step = "idle",
           RunMove, ReconcileMove, PrVersions' \subseteq PrVersions \cup {pr'}
    PROVE  RunFactsHold'
<1>1. /\ Ending => Ending'
      /\ pr.phase \in TerminalPhases => pr'.phase = pr.phase
  BY NoWayBack
<1>2. prc \in [step : PrSteps, todo : SUBSET Tasks, next : PipelineRuns]
  BY DEF TypeOK, PrcTypeOK
<1>3. ASSUME NEW v \in PrVersions'
      PROVE  /\ v.phase \in TerminalPhases => pr'.phase = v.phase
             /\ v.cancel /\ v.phase \notin TerminalPhases => Ending'
  <2>1. CASE v \in PrVersions
    BY <1>1, <2>1 DEF RunFactsHold
  <2>2. CASE v = pr'
    BY <2>2 DEF Ending
  <2> QED
    BY <1>3, <2>1, <2>2
<1>4. /\ prc'.step = "delete" => Ending'
      /\ Deciding' /\ prc'.next.cancel => Ending'
      /\ prc'.step = "clear" => pr'.phase \in TerminalPhases
  <2>1. CASE UNCHANGED prc
    BY <1>1, <2>1 DEF RunFactsHold, Deciding
  <2>2. CASE prc' = PrIdle
    BY <2>2 DEF PrIdle, Deciding
  <2>3. CASE Reconcile
    <3>1. prCache \in PrVersions
      BY PrVersionCases
    <3>2. /\ prCache.phase \in TerminalPhases => pr.phase = prCache.phase
          /\ prCache.cancel /\ prCache.phase \notin TerminalPhases => Ending
      BY <3>1 DEF RunFactsHold
    <3> QED
      BY <1>1, <2>1, <2>3, <3>2, ReconcileDecides DEF Deciding
  <2>4. ASSUME NEW t \in prc.todo, Done(t), prc.step \in {"create", "delete"}
        PROVE  /\ prc'.step = "delete" => Ending'
               /\ Deciding' /\ prc'.next.cancel => Ending'
               /\ prc'.step # "clear"
    BY <1>1, <2>4, DoneKeeps DEF RunFactsHold, Deciding
  <2>5. CASE /\ prc.step = "update" /\ prc.next.cancel
             /\ prc' = [prc EXCEPT !.step = "clear"] /\ pr' = prc.next
    <3>1. prc'.step = "clear" /\ ~Deciding'
      BY <1>2, <2>5 DEF Deciding
    <3>2. prc.next.phase = "Cancelled"
      BY <2>5 DEF CopiesHold, DecisionFits, Deciding
    <3> QED
      BY <2>5, <3>1, <3>2 DEF TerminalPhases
  <2> QED
    BY <2>1, <2>2, <2>3, <2>4, <2>5 DEF ReconcileMove
<1> QED
  BY <1>3, <1>4 DEF RunFactsHold
-----------------------------------------------------------------------------
(* The TaskRuns of a run that nobody reruns. *)

\* A later version of a TaskRun that got past has got past.
LEMMA FollowsPast ==
    ASSUME NEW t \in Tasks, NEW m, NEW v, NEW w,
           Sound(t, m, v), GotPast(t, v), Follows(t, v, w)
    PROVE  GotPast(t, w)
<1>1. Type[t] \in TaskTypes
  BY DagAssumption
<1>2. CASE Type[t] = "Approval"
  BY <1>2 DEF GotPast, Follows, Sound
<1>3. CASE Type[t] = "Job"
  BY <1>3 DEF GotPast, Follows, Sound
<1>4. CASE Type[t] = "Canary"
  BY <1>4 DEF GotPast, Follows, Sound
<1> QED
  BY <1>1, <1>2, <1>3, <1>4 DEF TaskTypes

LEMMA FollowsOn ==
    ASSUME NEW t, NEW u, NEW v, NEW w, Follows(t, u, v), Follows(t, v, w)
    PROVE  Follows(t, u, w)
BY DEF Follows

LEMMA PassedIsPast ==
    ASSUME NEW t
    PROVE  Passed(t) <=> GotPast(t, tr[t])
BY DEF Passed, GotPast, Exists, Succeeded, SignedOff, Signed, Rejected

\* Before the end, a version of a TaskRun is of the one that is there.
LEMMA VersionsAreOfThisOne ==
    ASSUME TypeOK, TaskRunsHold, CreatedOnce, VersionsFollowed, ~Ending,
           NEW t \in Tasks, NEW v \in Versions(t), v.phase # "Absent"
    PROVE  Exists(tr, t) /\ Follows(t, v, tr[t])
<1>1. Sound(t, births[t], v) /\ births[t] \in Nat
  BY DEF TaskRunsHold, TypeOK, ClusterTypeOK
<1>2. v.uid \in 1..births[t]
  BY <1>1 DEF Sound
<1>3. births[t] = IF Exists(tr, t) THEN 1 ELSE 0
  BY DEF CreatedOnce
<1>4. Exists(tr, t) /\ births[t] = 1 /\ v.uid = 1
  BY <1>2, <1>3
<1>5. tr[t].uid = births[t]
  BY <1>4 DEF TaskRunsHold
<1> QED
  BY <1>4, <1>5 DEF VersionsFollowed

\* So what the cache shows as succeeded has got past, and what it shows of a finished Job is
\* how the Job's TaskRun is, if the Hub has not overruled it.
LEMMA CacheTellsTrue ==
    ASSUME TypeOK, TaskRunsHold, CreatedOnce, VersionsFollowed, ~Ending, NEW t \in Tasks
    PROVE  /\ Succeeded(trCache, t) => Passed(t)
           /\ Type[t] = "Job" /\ Succeeded(trCache, t) => Vouches(t, tr[t])
           /\ Type[t] = "Job" /\ trCache[t].phase = "Failed" => Blames(t, tr[t])
<1>1. trCache[t] \in Versions(t) /\ tr[t] \in Versions(t)
  BY VersionCases
<1>2. Sound(t, births[t], trCache[t]) /\ Sound(t, births[t], tr[t])
  BY <1>1 DEF TaskRunsHold
<1>3. ASSUME trCache[t].phase \in {"Succeeded", "Failed"}
      PROVE  Exists(tr, t) /\ Follows(t, trCache[t], tr[t])
  BY <1>1, <1>3, VersionsAreOfThisOne
<1>4. ASSUME Succeeded(trCache, t) PROVE Passed(t)
  <2>1. GotPast(t, trCache[t])
    BY <1>4 DEF GotPast, Succeeded
  <2> QED
    BY <1>2, <1>3, <1>4, <2>1, FollowsPast, PassedIsPast DEF Succeeded
<1> QED
  BY <1>3, <1>4 DEF Follows, Vouches, Blames, Succeeded

\* What a step may do to a TaskRun of such a run.
UndisturbedMove(t) ==
    \/ tr'[t] = tr[t] /\ births'[t] = births[t]
    \/ Exists(tr, t) /\ Follows(t, tr[t], tr'[t]) /\ births'[t] = births[t]
    \/ /\ ~Exists(tr, t)
       /\ tr'[t] = NewTaskRun(t)
       /\ births'[t] = births[t] + 1
       /\ prc.step = "create" /\ t \in prc.todo
    \/ /\ tr'[t] = NoTaskRun /\ births'[t] = births[t]
       /\ Ending

LEMMA MovesUndisturbed ==
    ASSUME TypeOK, TaskRunsHold, RunFactsHold, [Next]_vars
    PROVE  \A t \in Tasks : UndisturbedMove(t)
BY StepTaskRuns DEF RunFactsHold, TaskRunMove, UndisturbedMove, Resets

\* A task that has got past stays so.
LEMMA PassedStays ==
    ASSUME TaskRunsHold, ~Ending, NEW t \in Tasks, UndisturbedMove(t), Passed(t)
    PROVE  Passed(t)'
<1>1. Sound(t, births[t], tr[t])
  BY VersionCases DEF TaskRunsHold
<1>2. GotPast(t, tr[t]) /\ Exists(tr, t)
  BY PassedIsPast DEF Passed
<1>3. Follows(t, tr[t], tr'[t])
  BY <1>2, FollowsItself DEF UndisturbedMove, Exists
<1>4. GotPast(t, tr'[t])
  BY <1>1, <1>2, <1>3, FollowsPast
<1> QED
  BY <1>4 DEF Passed, GotPast, Exists, Succeeded, SignedOff, Signed, Rejected

LEMMA CreatedOnceStep ==
    ASSUME TypeOK, CreatedOnce, Ending => Ending', \A t \in Tasks : UndisturbedMove(t)
    PROVE  CreatedOnce'
<1> SUFFICES ASSUME ~Ending', NEW t \in Tasks
             PROVE  births'[t] = IF Exists(tr', t) THEN 1 ELSE 0
  BY DEF CreatedOnce, Exists
<1>1. ~Ending /\ births[t] = (IF Exists(tr, t) THEN 1 ELSE 0)
  BY DEF CreatedOnce
<1>2. CASE tr'[t] = tr[t] /\ births'[t] = births[t]
  BY <1>1, <1>2 DEF Exists
<1>3. CASE Exists(tr, t) /\ Follows(t, tr[t], tr'[t]) /\ births'[t] = births[t]
  BY <1>1, <1>3 DEF Exists, Follows
<1>4. CASE ~Exists(tr, t) /\ tr'[t] = NewTaskRun(t) /\ births'[t] = births[t] + 1
  <2>1. NewTaskRun(t).phase = ""
    BY NewTaskRunSound
  <2>2. Exists(tr', t)
    BY <1>4, <2>1 DEF Exists
  <2>3. births'[t] = 1
    BY <1>1, <1>4
  <2> QED
    BY <2>2, <2>3
<1> QED
  BY <1>1, <1>2, <1>3, <1>4 DEF UndisturbedMove

LEMMA VersionsFollowedStep ==
    ASSUME TypeOK, TaskRunsHold, TaskRunsHold', VersionsFollowed,
           \A t \in Tasks : UndisturbedMove(t),
           \A t \in Tasks : Versions(t)' \subseteq Versions(t) \cup {tr'[t]}
    PROVE  VersionsFollowed'
<1> SUFFICES ASSUME NEW t \in Tasks, NEW v \in Versions(t)', v.phase # "Absent", v.uid = tr'[t].uid
             PROVE  Follows(t, v, tr'[t])
  BY DEF VersionsFollowed
<1>1. CASE v = tr'[t]
  BY <1>1, FollowsItself
<1>2. CASE v \in Versions(t)
  <2>1. Sound(t, births[t], v) /\ births[t] \in Nat
    BY <1>2 DEF TaskRunsHold, TypeOK, ClusterTypeOK
  <2>2. v.uid \in 1..births[t]
    BY <2>1 DEF Sound
  <2>3. NewTaskRun(t).uid = births[t] + 1 /\ NoTaskRun.uid = 0
    BY NewTaskRunSound DEF NoTaskRun
  <2>4. tr'[t] # NewTaskRun(t) /\ tr'[t] # NoTaskRun
    BY <2>1, <2>2, <2>3
  <2>5. CASE tr'[t] = tr[t]
    BY <1>2, <2>5 DEF VersionsFollowed
  <2>6. CASE Follows(t, tr[t], tr'[t])
    <3>1. v.uid = tr[t].uid
      BY <2>6 DEF Follows
    <3>2. Follows(t, v, tr[t])
      BY <1>2, <3>1 DEF VersionsFollowed
    <3> QED
      BY <2>6, <3>2, FollowsOn
  <2> QED
    BY <2>4, <2>5, <2>6 DEF UndisturbedMove
<1> QED
  BY <1>1, <1>2

LEMMA OrderStep ==
    ASSUME TypeOK, TaskRunsHold, TaskRunsHold', CreatedOnce, VersionsFollowed, OrderHolds,
           Ending => Ending', \A t \in Tasks : UndisturbedMove(t), ReconcileMove
    PROVE  OrderHolds'
<1> SUFFICES ASSUME ~Ending', NEW t \in Tasks,
                    Exists(tr', t) \/ (prc'.step = "create" /\ t \in prc'.todo)
             PROVE  Ready(t)'
  BY DEF OrderHolds, Exists
<1>1. ~Ending
  OBVIOUS
<1>2. Exists(tr, t) \/ (prc.step = "create" /\ t \in prc.todo) => Ready(t)
  BY <1>1 DEF OrderHolds
<1>3. Ready(t)
  <2>1. CASE Exists(tr', t)
    <3>1. CASE tr'[t] = NoTaskRun
      BY <2>1, <3>1 DEF Exists, NoTaskRun
    <3>2. CASE tr'[t] = tr[t]
      BY <1>2, <2>1, <3>2 DEF Exists
    <3> QED
      BY <1>2, <3>1, <3>2 DEF UndisturbedMove
  <2>2. CASE prc'.step = "create" /\ t \in prc'.todo
    <3>1. CASE UNCHANGED prc
      BY <1>2, <2>2, <3>1
    <3>2. CASE Reconcile
      <4>1. CASE UNCHANGED prc
        BY <1>2, <2>2, <4>1
      <4>2. CASE prc'.todo = FindRunnableTasks(trCache)
        <5>1. \A u \in Tasks : u \in DependsOn[t] \/ Earlier(u, t) => Succeeded(trCache, u)
          BY <2>2, <4>2 DEF FindRunnableTasks, DependenciesSatisfied, SerialBlocked
        <5> QED
          BY <1>1, <5>1, CacheTellsTrue DEF Ready
      <4> QED
        BY <2>2, <3>2, <4>1, <4>2, ReconcileDecides
    <3>3. ASSUME NEW u \in prc.todo, Done(u), prc.step \in {"create", "delete"}
          PROVE  Ready(t)
      <4>1. prc'.todo \subseteq prc.todo /\ prc'.step \in {prc.step, "update"}
        BY <3>3, DoneKeeps
      <4> QED
        BY <1>2, <2>2, <4>1
    <3>4. CASE prc' = PrIdle
      BY <2>2, <3>4 DEF PrIdle
    <3>5. CASE prc' = [prc EXCEPT !.step = "clear"]
      <4>1. prc'.step = "clear"
        BY <3>5 DEF TypeOK, PrcTypeOK
      <4> QED
        BY <2>2, <4>1
    <3> QED
      BY <3>1, <3>2, <3>3, <3>4, <3>5 DEF ReconcileMove
  <2> QED
    BY <2>1, <2>2
<1>4. \A u \in Tasks : Passed(u) => Passed(u)'
  BY <1>1, PassedStays
<1> QED
  BY <1>3, <1>4 DEF Ready

\* A true outcome stays true while what vouches for it does.
LEMMA OutcomeStays ==
    ASSUME NEW run, NEW old, NEW new, OutcomeFits(run, old),
           \A t \in Tasks : Type[t] = "Job" => /\ (Vouches(t, old[t]) => Vouches(t, new[t]))
                                              /\ (Blames(t, old[t]) => Blames(t, new[t]))
    PROVE  OutcomeFits(run, new)
BY DEF OutcomeFits

LEMMA OutcomeStep ==
    ASSUME TypeOK, CopiesHold, TaskRunsHold, RunFactsHold, CreatedOnce, VersionsFollowed,
           OutcomeHolds, Ending => Ending', \A t \in Tasks : UndisturbedMove(t),
           RunMove, ReconcileMove
    PROVE  OutcomeHolds'
<1>1. /\ pr \in PipelineRuns /\ prc.next \in PipelineRuns
      /\ prc \in [step : PrSteps, todo : SUBSET Tasks, next : PipelineRuns]
  BY DEF TypeOK, ClusterTypeOK, PrcTypeOK
<1>2. ASSUME ~Ending, NEW run, OutcomeFits(run, tr)
      PROVE  OutcomeFits(run, tr')
  <2>1. ASSUME NEW t \in Tasks, Type[t] = "Job"
        PROVE  /\ Vouches(t, tr[t]) => Vouches(t, tr'[t])
               /\ Blames(t, tr[t]) => Blames(t, tr'[t])
    <3>1. CASE Exists(tr, t) /\ (tr'[t] = tr[t] \/ Follows(t, tr[t], tr'[t]))
      BY <2>1, <3>1 DEF Follows, Vouches, Blames
    <3>2. CASE ~Exists(tr, t)
      <4>1. tr[t] = NoTaskRun
        BY <3>2, VersionCases DEF TaskRunsHold, Sound, Exists
      <4>2. ~Vouches(t, NoTaskRun) /\ ~Blames(t, NoTaskRun)
        <5>1. NoTaskRun.phase = "Absent" /\ NoTaskRun.rejectedBy = {}
              /\ NoTaskRun.approvedBy = {}
          BY DEF NoTaskRun
        <5>2. Required[t] \in Nat \ {0}
          BY DispatchAssumption
        <5>3. Cardinality({}) = 0
          BY FS_EmptySet
        <5> QED
          BY <5>1, <5>2, <5>3 DEF Vouches, Blames, Signed
      <4> QED
        BY <4>1, <4>2
    <3> QED
      BY <1>2, <3>1, <3>2 DEF UndisturbedMove
  <2> QED
    BY <1>2, <2>1, OutcomeStays
<1>3. OutcomeFits(pr, tr')
  <2>1. CASE pr.phase \in {"Succeeded", "Failed"}
    BY <1>2, <2>1 DEF Ending, TerminalPhases, OutcomeHolds
  <2>2. CASE pr.phase \notin {"Succeeded", "Failed"}
    BY <2>2 DEF OutcomeFits
  <2> QED
    BY <2>1, <2>2
<1>4. OutcomeFits(pr', tr')
  <2>1. CASE UNCHANGED pr
    BY <1>3, <2>1
  <2>2. CASE pr' = [NoPipelineRun EXCEPT !.phase = ""]
    <3>1. pr'.phase = ""
      BY <2>2, RecordTypes DEF PipelineRuns
    <3> QED
      BY <3>1 DEF OutcomeFits
  <2>3. CASE pr' = [pr EXCEPT !.cancel = TRUE] \/ pr' = [pr EXCEPT !.cancel = FALSE]
    <3>1. pr'.phase = pr.phase /\ pr'.tasks = pr.tasks
      BY <1>1, <2>3 DEF PipelineRuns
    <3> QED
      BY <1>3, <3>1 DEF OutcomeFits
  <2>4. CASE prc.step = "update" /\ "PipelineRun" \in prCurrent /\ pr' = prc.next
    <3>1. /\ prc.next.cancel => prc.next.phase = "Cancelled"
          /\ pr.phase \notin TerminalPhases /\ prc.next.cancel = pr.cancel /\ Deciding
      BY <2>4 DEF CopiesHold, DecisionFits, ReconcilerCopyHolds, Deciding
    <3>2. CASE prc.next.cancel
      BY <2>4, <3>1, <3>2 DEF OutcomeFits
    <3>3. CASE ~prc.next.cancel
      <4>1. ~Ending
        BY <3>1, <3>3 DEF Ending, TerminalPhases
      <4>2. OutcomeFits(prc.next, tr)
        BY <3>1, <4>1 DEF OutcomeHolds
      <4> QED
        BY <1>2, <2>4, <4>1, <4>2
    <3> QED
      BY <3>2, <3>3
  <2> QED
    BY <2>1, <2>2, <2>3, <2>4 DEF RunMove, RunFactsHold
<1>5. ASSUME ~Ending', Deciding' PROVE OutcomeFits(prc'.next, tr')
  <2>1. ~Ending
    BY <1>5
  <2>2. Deciding /\ prc'.next = prc.next => OutcomeFits(prc'.next, tr')
    BY <1>2, <2>1 DEF OutcomeHolds
  <2>3. CASE UNCHANGED prc
    BY <1>5, <2>2, <2>3 DEF Deciding
  <2>4. CASE Reconcile
    <3> DEFINE run == prc'.next
    <3>1. CASE UNCHANGED prc
      BY <2>3, <3>1
    <3>2. CASE prc'.step = "clear"
      BY <1>5, <3>2 DEF Deciding
    <3>3. CASE run.phase = "Cancelled"
      BY <3>3 DEF OutcomeFits
    <3>4. CASE /\ run.tasks = SummarizeTasks(trCache) /\ UNCHANGED tr
               /\ run.phase = "Succeeded" => AllTasksSucceeded(trCache)
               /\ run.phase = "Failed" => HasFailedTask(trCache)
      <4>1. \A t \in Tasks : /\ Succeeded(trCache, t) => run.tasks[t] = "Succeeded"
                             /\ trCache[t].phase = "Failed" => run.tasks[t] = "Failed"
        BY <3>4 DEF SummarizeTasks, Exists, Succeeded
      <4>2. \A t \in Tasks : Type[t] = "Job" =>
                                /\ Succeeded(trCache, t) => Vouches(t, tr'[t])
                                /\ trCache[t].phase = "Failed" => Blames(t, tr'[t])
        BY <2>1, <3>4, CacheTellsTrue
      <4> HIDE DEF run
      <4>3. run.phase = "Succeeded" => \A t \in Tasks : /\ run.tasks[t] = "Succeeded"
                                                        /\ Type[t] = "Job" => Vouches(t, tr'[t])
        BY <3>4, <4>1, <4>2 DEF AllTasksSucceeded
      <4>4. run.phase = "Failed" => \E t \in Tasks : /\ run.tasks[t] = "Failed"
                                                     /\ Type[t] = "Job" => Blames(t, tr'[t])
        BY <3>4, <4>1, <4>2 DEF HasFailedTask
      <4>5. OutcomeFits(run, tr')
        BY <4>3, <4>4 DEF OutcomeFits
      <4> QED
        BY <4>5 DEF run
    <3> QED
      BY <2>4, <3>1, <3>2, <3>3, <3>4, ReconcileDecides
  <2>5. ASSUME NEW t \in prc.todo, Done(t), prc.step \in {"create", "delete"}
        PROVE  OutcomeFits(prc'.next, tr')
    BY <2>2, <2>5, DoneKeeps DEF Deciding
  <2>6. CASE prc' = PrIdle
    BY <1>5, <2>6 DEF Deciding, PrIdle
  <2>7. CASE prc' = [prc EXCEPT !.step = "clear"]
    <3>1. prc'.step = "clear"
      BY <1>1, <2>7
    <3> QED
      BY <1>5, <3>1 DEF Deciding
  <2> QED
    BY <2>3, <2>4, <2>5, <2>6, <2>7 DEF ReconcileMove
<1> QED
  BY <1>4, <1>5 DEF OutcomeHolds

LEMMA InitRunHolds == Init => RunHolds
<1> SUFFICES ASSUME Init PROVE RunHolds
  OBVIOUS
<1>1. /\ pr = NoPipelineRun /\ prCache = NoPipelineRun /\ prWatch = << >> /\ trWatch = << >>
      /\ tr = [t \in Tasks |-> NoTaskRun] /\ trCache = tr /\ births = [t \in Tasks |-> 0]
      /\ prc.step = "idle" /\ rerun.step = "idle"
  BY DEF Init, ClusterInit, PrcInit, DispatchInit, PrIdle, RerunIdle
<1>2. Len(prWatch) = 0 /\ Len(trWatch) = 0
  <2>1. Len(<< >>) = 0
    OBVIOUS
  <2> QED
    BY <1>1, <2>1, Zenon
<1>3. \A v \in PrVersions : v = NoPipelineRun
  BY <1>1, <1>2 DEF PrVersions
<1>4. NoPipelineRun.phase = "Absent" /\ NoPipelineRun.cancel = FALSE
      /\ NoTaskRun.phase = "Absent"
  BY DEF NoPipelineRun, NoTaskRun
<1>5. \A t \in Tasks : \A v \in Versions(t) : v = NoTaskRun
  BY <1>1, <1>2 DEF Versions
<1>6. \A t \in Tasks : tr[t] = NoTaskRun /\ births[t] = 0
  BY <1>1
<1> QED
  BY <1>1, <1>3, <1>4, <1>5, <1>6
     DEF RunHolds, RunFactsHold, CreatedOnce, VersionsFollowed, OrderHolds, OutcomeHolds,
         OutcomeFits, TerminalPhases, Deciding, Exists

LEMMA StepRunHolds ==
    ASSUME TypeOK, CopiesHold, TaskRunsHold, RunHolds, [Next]_vars
    PROVE  RunHolds'
<1> SUFFICES ASSUME reruns' = 0
             PROVE  RunFactsHold' /\ CreatedOnce' /\ VersionsFollowed' /\ OrderHolds'
                    /\ OutcomeHolds'
  BY DEF RunHolds
<1>1. reruns = 0 /\ rerun'.step = "idle"
  BY NoRerunBegins DEF RunHolds, RunFactsHold
<1>2. RunFactsHold /\ CreatedOnce /\ VersionsFollowed /\ OrderHolds /\ OutcomeHolds
  BY <1>1 DEF RunHolds
<1>3. RunMove /\ ReconcileMove /\ PrVersions' \subseteq PrVersions \cup {pr'}
  BY StepKinds
<1>4. Ending => Ending'
  BY <1>2, <1>3, NoWayBack
<1>5. TaskRunsHold' /\ \A t \in Tasks : UndisturbedMove(t)
  BY <1>2, StepTaskRuns, MovesUndisturbed
<1>6. RunFactsHold'
  BY <1>1, <1>2, <1>3, RunFactsStep
<1>7. CreatedOnce'
  BY <1>2, <1>4, <1>5, CreatedOnceStep
<1>8. VersionsFollowed'
  BY <1>2, <1>5, StepVersions, VersionsFollowedStep
<1>9. OrderHolds'
  BY <1>2, <1>3, <1>4, <1>5, OrderStep
<1>10. OutcomeHolds'
  BY <1>2, <1>3, <1>4, <1>5, OutcomeStep
<1> QED
  BY <1>6, <1>7, <1>8, <1>9, <1>10

\* Until something is rerun, whatever copies of the run and of its TaskRuns are about, each
\* task has had one TaskRun, what was created could be, and the outcome that is reported or
\* about to be is true.
THEOREM RunsHold == Spec => []RunHolds
<1>1. TypeOK /\ CopiesHold /\ TaskRunsHold /\ RunHolds /\ [Next]_vars => RunHolds'
  BY StepRunHolds
<1> QED
  BY <1>1, InitRunHolds, TypeCorrect, CopiesAreCurrent, TaskRunsAreSound, PTL DEF Spec
-----------------------------------------------------------------------------
(* The properties. *)

\* While nobody cancels or reruns, a task has a TaskRun only when all it waits for has got
\* past, however old the list that findRunnableTasks was given: for every DAG, every Serial
\* stage, every lag and every fault, and with the Hub approving and rejecting tasks of any
\* type, a finished Job's too.
THEOREM TasksStartInOrder == Spec => []DagOrder
<1>1. RunHolds => DagOrder
  BY DEF RunHolds, DagOrder, Undisturbed, Ending, OrderHolds, Ready
<1> QED
  BY <1>1, RunsHold, PTL

\* Before its signatures, an approval keeps every task behind it from being created: the
\* tasks without TaskRun are closed under taking dependents.
LEMMA GateKeepsDownstream ==
    ASSUME TypeOK, TaskRunsHold, RunHolds, reruns = 0, ~Ending,
           NEW g \in Tasks, Type[g] = "Approval", NEW t \in DownstreamTasks(g), Exists(tr, t)
    PROVE  SignedOff(g)
<1> SUFFICES ASSUME ~SignedOff(g) PROVE FALSE
  OBVIOUS
<1> DEFINE absent == {u \in Tasks : ~Exists(tr, u)}
<1>1. ~Passed(g)
  <2>1. Sound(g, births[g], tr[g])
    BY VersionCases DEF TaskRunsHold
  <2> QED
    BY <2>1 DEF Passed, Succeeded, Sound, SignedOff, Signed
<1>2. {u \in Tasks : DependsOn[u] \cap (absent \cup {g}) # {}} \subseteq absent
  <2>1. ASSUME NEW u \in Tasks, NEW w \in DependsOn[u], w \in absent \cup {g}, Exists(tr, u)
        PROVE  FALSE
    <3>1. w \in Tasks
      BY DagAssumption
    <3>2. Passed(w)
      BY <2>1, <3>1 DEF RunHolds, OrderHolds, Ready
    <3> QED
      BY <1>1, <2>1, <3>2 DEF Passed
  <2> QED
    BY <2>1
<1>3. t \in absent
  BY <1>2 DEF DownstreamTasks
<1> QED
  BY <1>3

\* While nobody cancels or reruns, no work behind an approval, directly or not, has begun
\* before the approval had its signatures: whatever the pipeline and the number of
\* signatures.
THEOREM NothingPassesTheGate == Spec => []GateHolds
<1>1. ASSUME TypeOK, TaskRunsHold, RunHolds PROVE GateHolds
  <2> SUFFICES ASSUME Undisturbed, NEW g \in Tasks, Type[g] = "Approval",
                      NEW t \in DownstreamTasks(g), child[t].status # "Absent"
               PROVE  SignedOff(g)
    BY DEF GateHolds
  <2>1. reruns = 0 /\ ~Ending
    BY DEF Undisturbed, Ending
  <2>2. t \in Tasks
    BY DEF DownstreamTasks
  <2>3. births[t] >= 1 /\ births[t] = IF Exists(tr, t) THEN 1 ELSE 0
    BY <1>1, <2>1, <2>2 DEF TaskRunsHold, RunHolds, CreatedOnce
  <2> QED
    BY <1>1, <2>1, <2>3, GateKeepsDownstream
<1> QED
  BY <1>1, RunsHold, TaskRunsAreSound, TypeCorrect, PTL

\* The outcome a run is reported with is true of its tasks, though it was decided from a
\* list of TaskRuns that was old, and written some calls later; of a Job's TaskRun, as long
\* as the Hub does not overrule it.
THEOREM OutcomesAreTrue == Spec => []OutcomeIsTrue
<1>1. RunHolds => OutcomeIsTrue
  BY DEF RunHolds, OutcomeHolds, OutcomeFits, OutcomeIsTrue, Vouches, Blames, SignedOff, Signed,
         Rejected, Succeeded
<1> QED
  BY <1>1, RunsHold, PTL

\* Until something is rerun, a cancel request leaves a run only when the run is over,
\* whatever reconciles and commands are under way (ClearCancel patches a run it has not
\* read again).
THEOREM RequestStays == Spec => CancelKept
<1>1. ASSUME TypeOK, CopiesHold, RunHolds, [Next]_vars, pr.cancel, ~pr'.cancel, reruns = 0
      PROVE  pr.phase \in TerminalPhases
  <2>1. RunMove
    BY <1>1, StepKinds
  <2>2. rerun.step = "idle" /\ (prc.step = "clear" => pr.phase \in TerminalPhases)
    BY <1>1 DEF RunHolds, RunFactsHold
  <2>3. pr \in PipelineRuns
    BY <1>1 DEF TypeOK, ClusterTypeOK
  <2>4. CASE pr = NoPipelineRun
    BY <1>1, <2>4 DEF NoPipelineRun
  <2>5. CASE pr' = [pr EXCEPT !.cancel = TRUE]
    <3>1. pr'.cancel
      BY <2>3, <2>5 DEF PipelineRuns
    <3> QED
      BY <1>1, <3>1
  <2>6. CASE prc.step = "update" /\ "PipelineRun" \in prCurrent /\ pr' = prc.next
    BY <1>1, <2>6 DEF CopiesHold, ReconcilerCopyHolds, Deciding
  <2> QED
    BY <1>1, <2>1, <2>2, <2>4, <2>5, <2>6 DEF RunMove
<1> QED
  BY <1>1, RunsHold, CopiesAreCurrent, TypeCorrect, PTL DEF Spec, CancelKept
-----------------------------------------------------------------------------
(* The summary of a cancelled run. *)

LEMMA StepSummary ==
    ASSUME TypeOK, CopiesHold, SummaryHolds, [Next]_vars
    PROVE  SummaryHolds'
<1>1. /\ pr \in PipelineRuns
      /\ prc \in [step : PrSteps, todo : SUBSET Tasks, next : PipelineRuns]
  BY DEF TypeOK, ClusterTypeOK, PrcTypeOK
<1>2. RunMove /\ ReconcileMove
  BY StepKinds
<1>3. ASSUME Deciding', prc'.next.cancel
      PROVE  \A t \in Tasks : prc'.next.tasks[t] \in TerminalTaskPhases
  <2>1. Deciding /\ prc'.next = prc.next =>
            \A t \in Tasks : prc'.next.tasks[t] \in TerminalTaskPhases
    BY <1>3 DEF SummaryHolds
  <2>2. CASE UNCHANGED prc
    BY <1>3, <2>1, <2>2 DEF Deciding
  <2>3. CASE Reconcile
    <3>1. CASE prc'.next.tasks = CancelledTaskSummary(trCache)
      BY <3>1 DEF CancelledTaskSummary, TerminalTaskPhases
    <3>2. CASE UNCHANGED prc
      BY <2>2, <3>2
    <3>3. CASE prc'.step = "clear"
      BY <1>3, <3>3 DEF Deciding
    <3> QED
      BY <1>3, <2>3, <3>1, <3>2, <3>3, ReconcileDecides
  <2>4. ASSUME NEW t \in prc.todo, Done(t), prc.step \in {"create", "delete"}
        PROVE  Deciding /\ prc'.next = prc.next
    BY <2>4, DoneKeeps DEF Deciding
  <2>5. CASE prc' = PrIdle
    BY <1>3, <2>5 DEF Deciding, PrIdle
  <2>6. CASE prc' = [prc EXCEPT !.step = "clear"]
    <3>1. prc'.step = "clear"
      BY <1>1, <2>6
    <3> QED
      BY <1>3, <3>1 DEF Deciding
  <2> QED
    BY <1>2, <2>1, <2>2, <2>3, <2>4, <2>5, <2>6 DEF ReconcileMove
<1>4. CancelledSummaryIsFinal'
  <2>1. CASE UNCHANGED pr
    BY <2>1 DEF SummaryHolds, CancelledSummaryIsFinal
  <2>2. CASE pr' = [NoPipelineRun EXCEPT !.phase = ""] \/ pr' = [pr EXCEPT !.phase = "Running"]
    <3>1. pr'.phase # "Cancelled"
      BY <1>1, <2>2, RecordTypes DEF PipelineRuns
    <3> QED
      BY <3>1 DEF CancelledSummaryIsFinal
  <2>3. CASE pr' = [pr EXCEPT !.cancel = TRUE] \/ pr' = [pr EXCEPT !.cancel = FALSE]
    <3>1. pr'.phase = pr.phase /\ pr'.tasks = pr.tasks
      BY <1>1, <2>3 DEF PipelineRuns
    <3> QED
      BY <3>1 DEF SummaryHolds, CancelledSummaryIsFinal
  <2>4. CASE prc.step = "update" /\ pr' = prc.next
    <3>1. prc.next.phase = "Cancelled" => prc.next.cancel
      BY <2>4 DEF CopiesHold, DecisionFits, Deciding
    <3> QED
      BY <2>4, <3>1 DEF SummaryHolds, CancelledSummaryIsFinal, Deciding
  <2> QED
    BY <1>2, <2>1, <2>2, <2>3, <2>4 DEF RunMove
<1> QED
  BY <1>3, <1>4 DEF SummaryHolds

\* The summary of a cancelled run leaves no task unfinished, though it is composed before
\* the TaskRuns are deleted and written after (applyCancelIfRequested, step 1).
THEOREM CancelLeavesNoTaskOpen == Spec => []CancelledSummaryIsFinal
<1>1. Init => SummaryHolds
  BY DEF Init, ClusterInit, PrcInit, PrIdle, NoPipelineRun, SummaryHolds, Deciding,
     CancelledSummaryIsFinal
<1>2. TypeOK /\ CopiesHold /\ SummaryHolds /\ [Next]_vars => SummaryHolds'
  BY StepSummary
<1>3. SummaryHolds => CancelledSummaryIsFinal
  BY DEF SummaryHolds
<1> QED
  BY <1>1, <1>2, <1>3, TypeCorrect, CopiesAreCurrent, PTL DEF Spec
-----------------------------------------------------------------------------
(* How often a task is started. *)

\* What a step may do to the rerun in hand.
RerunMove ==
    \/ UNCHANGED <<rerun, reruns>>
    \/ rerun' = RerunIdle /\ reruns' = reruns
    \/ rerun.step = "idle" /\ reruns' = reruns + 1
    \/ rerun.step # "idle" /\ reruns' = reruns /\ rerun'.todo \subseteq rerun.todo
       /\ \A t \in rerun.todo \ rerun'.todo : tr'[t] = NoTaskRun

LEMMA StepReruns ==
    ASSUME TypeOK, [Next]_vars
    PROVE  RerunMove
<1>1. /\ rerun \in [step : RerunSteps, task : Tasks, failed : BOOLEAN, todo : SUBSET Tasks]
      /\ tr \in [Tasks -> TaskRuns]
  BY DEF TypeOK, ClusterTypeOK, DispatchTypeOK
<1>2. CASE UNCHANGED dispatchVars
  BY <1>2 DEF dispatchVars, RerunMove
<1>3. CASE rerun' = RerunIdle /\ UNCHANGED reruns
  BY <1>3 DEF RerunMove
<1>4. CASE \E t \in Tasks : BeginRerun(t)
  BY <1>4 DEF BeginRerun, Receives, RerunMove
<1>5. CASE RerunDeleteChild \/ RerunReset
  <2>1. rerun.step # "idle" /\ reruns' = reruns /\ rerun'.todo = rerun.todo
    BY <1>1, <1>5 DEF RerunDeleteChild, RerunReset
  <2> QED
    BY <2>1 DEF RerunMove
<1>6. CASE RerunDeleteDownstream
  <2>1. PICK t \in rerun.todo :
            /\ PutTaskRun(t, NoTaskRun, "")
            /\ rerun' = [rerun EXCEPT !.todo = @ \ {t}, !.step = AfterReset(rerun.todo \ {t})]
    BY <1>6 DEF RerunDeleteDownstream, DeleteTaskRun
  <2>2. rerun'.todo = rerun.todo \ {t} /\ rerun.step # "idle" /\ reruns' = reruns
    BY <1>1, <1>6, <2>1 DEF RerunDeleteDownstream
  <2>3. t \in Tasks
    BY <1>1
  <2>4. tr'[t] = NoTaskRun
    BY <1>1, <2>1, <2>3 DEF PutTaskRun
  <2> QED
    BY <2>2, <2>4 DEF RerunMove
<1> QED
  BY <1>2, <1>3, <1>4, <1>5, <1>6
     DEF Next, vars, local, ClusterStep, PipelineRunStep, TaskRunStep, DispatchStep, CallFails,
         Restart, RerunAbort, RerunEnds, DispatchNext, ApplyPipelineRun, ApproveTask, RejectTask,
         CancelPipelineRun, Revive, NothingToRevive, RerunConflict, dispatchVars

LEMMA StepBirths ==
    ASSUME "cancel" \notin HubCommands, TypeOK, CopiesHold, TaskRunsHold, BirthsHold, [Next]_vars
    PROVE  BirthsHold'
<1>1. /\ pr \in PipelineRuns /\ reruns \in Nat /\ births \in [Tasks -> Nat]
      /\ prc \in [step : PrSteps, todo : SUBSET Tasks, next : PipelineRuns]
  BY DispatchAssumption DEF TypeOK, ClusterTypeOK, PrcTypeOK, DispatchTypeOK
<1>2. RunMove /\ ReconcileMove /\ PrVersions' \subseteq PrVersions \cup {pr'}
  BY StepKinds
<1>3. ~pr.cancel /\ pr.phase # "Cancelled" /\ ~prCache.cancel /\ prCache.phase # "Cancelled"
  BY PrVersionCases DEF BirthsHold
<1>4. ~pr'.cancel /\ pr'.phase # "Cancelled"
  <2>1. CASE UNCHANGED pr
    BY <1>3, <2>1
  <2>2. CASE pr' = [NoPipelineRun EXCEPT !.phase = ""] \/ pr' = [pr EXCEPT !.phase = "Running"]
             \/ pr' = [pr EXCEPT !.cancel = FALSE]
    BY <1>1, <1>3, <2>2 DEF PipelineRuns, NoPipelineRun
  <2>3. CASE prc.step = "update" /\ "PipelineRun" \in prCurrent /\ pr' = prc.next
    BY <1>3, <2>3 DEF CopiesHold, DecisionFits, ReconcilerCopyHolds, Deciding
  <2> QED
    BY <1>2, <2>1, <2>2, <2>3 DEF RunMove
<1>5. \A v \in PrVersions' : ~v.cancel /\ v.phase # "Cancelled"
  BY <1>2, <1>4 DEF BirthsHold
<1>6. prc'.step # "delete"
  <2>1. CASE UNCHANGED prc
    BY <2>1 DEF BirthsHold
  <2>2. CASE prc' = PrIdle
    BY <2>2 DEF PrIdle
  <2>3. CASE Reconcile
    BY <1>3, <2>1, <2>3, ReconcileDecides
  <2>4. ASSUME NEW t \in prc.todo, Done(t) PROVE prc'.step # "delete"
    BY <2>4, DoneKeeps DEF BirthsHold
  <2>5. CASE prc' = [prc EXCEPT !.step = "clear"]
    BY <1>1, <2>5
  <2> QED
    BY <1>2, <2>1, <2>2, <2>3, <2>4, <2>5 DEF ReconcileMove
<1>7. ASSUME NEW t \in Tasks
      PROVE  births'[t] + (IF rerun'.step # "idle" /\ t \in rerun'.todo THEN 1 ELSE 0)
                <= reruns' + (IF Exists(tr', t) THEN 1 ELSE 0)
  <2> DEFINE due == IF rerun.step # "idle" /\ t \in rerun.todo THEN 1 ELSE 0
             due2 == IF rerun'.step # "idle" /\ t \in rerun'.todo THEN 1 ELSE 0
             there == IF Exists(tr, t) THEN 1 ELSE 0
             there2 == IF Exists(tr', t) THEN 1 ELSE 0
  <2>1. births[t] + due <= reruns + there /\ births[t] \in Int
    BY <1>1 DEF BirthsHold
  <2>2. RerunMove
    BY StepReruns
  <2>3. TaskRunMove(t)
    BY StepTaskRuns
  <2>4. reruns' - due2 >= reruns - due /\ reruns' \in Nat
    <3>1. CASE UNCHANGED <<rerun, reruns>>
      BY <1>1, <3>1
    <3>2. CASE rerun' = RerunIdle /\ reruns' = reruns
      BY <1>1, <3>2 DEF RerunIdle
    <3>3. CASE rerun.step = "idle" /\ reruns' = reruns + 1
      BY <1>1, <3>3
    <3>4. CASE rerun.step # "idle" /\ reruns' = reruns /\ rerun'.todo \subseteq rerun.todo
      BY <1>1, <3>4
    <3> QED
      BY <2>2, <3>1, <3>2, <3>3, <3>4 DEF RerunMove
  <2>5. CASE tr'[t] = NoTaskRun /\ births'[t] = births[t] /\ rerun.step = "downstream"
             /\ t \in rerun.todo /\ t \notin rerun'.todo
    <3>1. due = 1 /\ due2 = 0 /\ there2 = 0
      BY <2>5 DEF Exists, NoTaskRun
    <3>2. reruns' = reruns
      BY <1>1, <2>2, <2>5 DEF RerunMove
    <3>3. births[t] <= reruns
      BY <1>1, <2>1, <3>1
    <3> QED
      BY <1>1, <2>1, <2>5, <3>1, <3>2, <3>3
  <2>6. CASE ~Exists(tr, t) /\ tr'[t] = NewTaskRun(t) /\ births'[t] = births[t] + 1
    <3>1. there = 0 /\ there2 = 1
      BY <2>6, NewTaskRunSound DEF Exists
    <3>2. due \in Int /\ due2 \in Int /\ there \in Int /\ there2 \in Int
      OBVIOUS
    <3>3. births'[t] + due2 <= reruns' + there2
      <4>1. births'[t] \in Int /\ births'[t] - births[t] <= there2 - there
        BY <2>1, <2>6, <3>1
      <4> HIDE DEF due, due2, there, there2
      <4>2. PICK b2 \in Int : b2 = births'[t]
        BY <4>1
      <4>3. PICK r2 \in Nat : r2 = reruns'
        BY <2>4
      <4>4. r2 - due2 >= reruns - due
        BY <2>4, <4>3, Zenon
      <4>5. b2 - births[t] <= there2 - there
        BY <4>1, <4>2, Zenon
      <4>6. b2 + due2 <= r2 + there2
        BY <1>1, <2>1, <3>2, <4>4, <4>5
      <4> QED
        BY <4>2, <4>3, <4>6, Zenon
    <3> QED
      BY <3>3
  <2>7. CASE births'[t] = births[t] /\ (Exists(tr, t) => Exists(tr', t))
    <3>1. there2 >= there
      BY <2>7
    <3>2. due \in Int /\ due2 \in Int /\ there \in Int /\ there2 \in Int
      OBVIOUS
    <3>3. births'[t] + due2 <= reruns' + there2
      <4>1. births'[t] \in Int /\ births'[t] - births[t] <= there2 - there
        BY <2>1, <2>7, <3>1
      <4> HIDE DEF due, due2, there, there2
      <4>2. PICK b2 \in Int : b2 = births'[t]
        BY <4>1
      <4>3. PICK r2 \in Nat : r2 = reruns'
        BY <2>4
      <4>4. r2 - due2 >= reruns - due
        BY <2>4, <4>3, Zenon
      <4>5. b2 - births[t] <= there2 - there
        BY <4>1, <4>2, Zenon
      <4>6. b2 + due2 <= r2 + there2
        BY <1>1, <2>1, <3>2, <4>4, <4>5
      <4> QED
        BY <4>2, <4>3, <4>6, Zenon
    <3> QED
      BY <3>3
  <2>8. Exists(tr, t) /\ tr'[t] = Reset(tr[t]) => Exists(tr', t)
    <3>1. tr[t] \in TaskRuns
      BY DEF TypeOK, ClusterTypeOK
    <3> QED
      BY <3>1 DEF Reset, TaskRuns, Exists
  <2>9. prc.step # "delete"
    BY DEF BirthsHold
  <2> QED
    BY <2>3, <2>5, <2>6, <2>7, <2>8, <2>9 DEF TaskRunMove, Exists, Follows
<1> QED
  BY <1>5, <1>6, <1>7 DEF BirthsHold, Exists

\* When the Hub cancels nothing, a task is started at most once more for every rerun,
\* though TaskRuns are created from lists that may be older than the rerun that deleted
\* them (findRunnableTasks).  (A request that was on its way when the run failed may meet
\* the run that a rerun brought back, and delete TaskRuns that no rerun asked for.)
THEOREM RerunsStartOnceMore ==
    ASSUME "cancel" \notin HubCommands
    PROVE  Spec => []StartedOncePerRerun
<1>1. Init => BirthsHold
  <2> SUFFICES ASSUME Init PROVE BirthsHold
    OBVIOUS
  <2>1. /\ pr = NoPipelineRun /\ prCache = NoPipelineRun /\ prWatch = << >>
        /\ births = [t \in Tasks |-> 0] /\ prc.step = "idle" /\ rerun.step = "idle"
        /\ reruns = 0
    BY DEF Init, ClusterInit, PrcInit, DispatchInit, PrIdle, RerunIdle
  <2>2. Len(prWatch) = 0
    <3>1. Len(<< >>) = 0
      OBVIOUS
    <3> QED
      BY <2>1, <3>1, Zenon
  <2>3. \A v \in PrVersions : v = NoPipelineRun
    BY <2>1, <2>2 DEF PrVersions
  <2> QED
    BY <2>1, <2>3 DEF BirthsHold, NoPipelineRun
<1>2. TypeOK /\ CopiesHold /\ TaskRunsHold /\ BirthsHold /\ [Next]_vars => BirthsHold'
  BY StepBirths
<1>3. TypeOK /\ BirthsHold => StartedOncePerRerun
  <2> SUFFICES ASSUME TypeOK, BirthsHold, NEW t \in Tasks PROVE births[t] <= 1 + reruns
    BY DEF StartedOncePerRerun
  <2>1. births[t] \in Nat /\ reruns \in Nat
    BY DispatchAssumption DEF TypeOK, ClusterTypeOK, DispatchTypeOK
  <2> QED
    BY <2>1 DEF BirthsHold
<1> QED
  BY <1>1, <1>2, <1>3, TypeCorrect, CopiesAreCurrent, TaskRunsAreSound, PTL DEF Spec
-----------------------------------------------------------------------------
(* A cancelled run creates no TaskRun again that it deleted. *)

\* After a copy of the run that keeps a reconcile from scheduling there comes no other.
MarkedOn ==
    /\ Marked(prCache) => \A i \in 1..Len(prWatch) : Marked(prWatch[i])
    /\ \A i \in 1..Len(prWatch) :
          Marked(prWatch[i]) => \A j \in i..Len(prWatch) : Marked(prWatch[j])

\* The run is to be cancelled, and there is no copy that does not say so.
Closed == Ending /\ \A v \in PrVersions : Marked(v)

\* A task's TaskRun is created once; when it is gone nobody creates it again.
StartedOnce ==
    /\ Ending => MarkedOn
    /\ prc.step = "delete" => Closed
    /\ \A t \in Tasks :
          /\ births[t] <= 1
          /\ births[t] = 1 /\ ~Exists(tr, t) => Closed /\ prc.step # "create"

\* The Job of a task is that of the TaskRun that was created, and before it there is none.
JobsOfThisOne ==
    \A t \in Tasks : Type[t] = "Job" =>
        /\ childCache[t].status # "Absent" => births[t] = 1
        /\ child[t].status # "Absent" => births[t] = 1 /\ child[t].owner = 1
        /\ births[t] = 0 => TaskRunCacheCurrent(t)
-----------------------------------------------------------------------------
(* What relates a Job task's TaskRun, its Job, the copies of both and the reconcile in      *)
(* hand.  Up to the first retry the copies tell which Job it is about: before it there is   *)
(* one Job, and after it the one that failed is gone before there is another.               *)

InHand(t) == trc.step # "idle" /\ trc.task = t
Creating(t) == trc.step = "createChild" /\ trc.task = t
Deleting(t) == trc.step = "deleteChild" /\ trc.task = t

\* The copy the reconcile of t has in hand is current.
Sure(t) == InHand(t) /\ "TaskRun" \in trCurrent[t]

\* A Job may still be created for what the TaskRun is by the cache.
Open(t) == ~trCache[t].ref \/ Creating(t)

\* The Job is one that ended so, or gone, in the cluster and in the cache.
Ended(t, status) ==
    child[t].status \in {status, "Absent"} /\ childCache[t].status \in {status, "Absent"}

\* The events of t that are on their way are of the TaskRun as it is.
Expected(t) == \A i \in 1..Len(trWatch) : trWatch[i].task = t => trWatch[i].obj = tr[t]

\* One write was made between the cached TaskRun and the TaskRun: the Job's start or end, a
\* retry, or a decision of the Hub, which leaves both alone.
OneBehind(old, own) ==
    \/ old.retries = own.retries /\ (old.ref => own.ref)
    \/ old.ref /\ ~own.ref /\ own.retries = old.retries + 1

\* The cached TaskRun is the one before the TaskRun at most, for a reconcile writes it only
\* when its copy was current, and the Hub's decisions are recorded only then, too.
CacheNear(t) ==
    /\ Expected(t)
    /\ Sure(t) => TaskRunCacheCurrent(t)
    /\ trCache[t].phase = "Absent" => /\ child[t].status = "Absent"
                                      /\ childCache[t].status = "Absent"
                                      /\ ~InHand(t)
                                      /\ tr[t].phase = "" /\ tr[t].retries = 0
    /\ trCache[t].phase # "Absent" => OneBehind(trCache[t], tr[t])

\* What a reconcile in hand will write, and what the Job may be then.
HandFits(t) ==
    /\ Sure(t) => /\ OneBehind(tr[t], trc.next)
                  /\ trc.next.phase = "Succeeded" => tr[t].ref /\ trc.next.ref
    /\ Creating(t) => /\ trc.next.ref /\ trc.next.phase = "Running"
                      /\ trCache[t].retries = tr[t].retries
    /\ Deleting(t) => /\ ~trc.next.ref /\ trc.next.phase # "Succeeded" /\ trc.next.retries >= 1
                      /\ IF trCache[t].ref
                         THEN trc.next.retries = trCache[t].retries + 1
                         ELSE trc.next.retries = trCache[t].retries /\ ~tr[t].ref
    /\ InHand(t) /\ ~trc.next.ref /\ trc.next.retries = 1 => Ended(t, "Failed")
    /\ InHand(t) /\ trc.next.phase = "Succeeded" /\ trc.next.retries <= 1
          => Ended(t, "Succeeded") /\ trc.step = "update"

\* What the Job may be before the first retry, while the cache has not seen that one.
FirstJob(t) ==
    trCache[t].retries = 0 =>
       /\ childCache[t].status = "Failed" => child[t].status \in {"Failed", "Absent"}
       /\ Open(t) => /\ child[t].deleting => child[t].status = "Absent"
                     /\ child[t].status = "Absent" => childCache[t].status = "Absent"
       /\ tr[t].retries = 1 => Ended(t, "Failed")

\* What it may be up to that retry.
SecondJob(t) ==
    trCache[t].retries <= 1 =>
       /\ childCache[t].status = "Succeeded" => child[t].status \in {"Succeeded", "Absent"}
       /\ Open(t) => /\ childCache[t].status = "Succeeded" =>
                           child[t].status = "Succeeded" /\ ~child[t].deleting
                     /\ child[t].deleting => child[t].status \in {"Failed", "Absent"}

\* The Job of a task that succeeded, but not by the Hub's approvals.
JobEarned(t) ==
    tr[t].phase = "Succeeded" /\ tr[t].retries <= 1 /\ ~Signed(t, tr[t]) =>
       /\ trCache[t].ref /\ trCache[t].retries = tr[t].retries
       /\ ~Creating(t)
       /\ Ended(t, "Succeeded")

JobHolds(t) ==
    CacheNear(t) /\ HandFits(t) /\ FirstJob(t) /\ SecondJob(t) /\ JobEarned(t)

JobsHold ==
    reruns = 0 =>
        /\ StartedOnce
        /\ JobsOfThisOne
        /\ \A t \in Tasks : Type[t] = "Job" /\ Exists(tr, t) => JobHolds(t)
-----------------------------------------------------------------------------
(* StartedOnce. *)

\* What a step may do to the stream of the run's versions.
StreamMove ==
    \/ UNCHANGED <<prCache, prWatch>>
    \/ SyncPipelineRun
    \/ UNCHANGED prCache /\ prWatch' = Append(prWatch, pr')
    \/ prWatch' = << >>

LEMMA StepStream ==
    ASSUME TypeOK, [Next]_vars
    PROVE  StreamMove
<1>1. ASSUME NEW obj, NEW client, PutPipelineRun(obj, client), UNCHANGED prCache
      PROVE  StreamMove
  BY <1>1 DEF PutPipelineRun, StreamMove
<1>2. CASE UNCHANGED vars
  BY <1>2 DEF vars, clusterVars, caches, watches, StreamMove
<1>3. CASE ClusterStep
  BY <1>3 DEF ClusterStep, ClusterNext, SyncTaskRun, SyncChild, ChildProgress, CollectGarbage,
     caches, watches, StreamMove
<1>4. CASE TaskRunStep
  BY <1>4 DEF TaskRunStep, TrcNext, ReconcileTaskRun, IgnoreTaskRun, PrepareApproval,
     StartChild, RetryJob, MirrorChild, TrStart, CreateOwnChild, DeleteOwnChild,
     UpdateTaskRun, TaskRunConflict, TrAbort, caches, watches, StreamMove
<1>5. CASE PipelineRunStep
  <2>1. CASE UpdateStatus
    BY <1>1, <2>1 DEF UpdateStatus, caches
  <2>2. CASE ClearCancel
    BY <1>1, <2>2 DEF ClearCancel, caches
  <2>3. CASE Reconcile \/ CreateNext \/ DeleteNext \/ StatusConflict
    BY <2>3 DEF Reconcile, IgnoreRun, AwaitApproval, StopOnFailure, Advance, RefuseCancel,
       BeginCancel, PrStart, CreateNext, DeleteNext, StatusConflict, PrAbort, caches, watches,
       StreamMove
  <2> QED
    BY <1>5, <2>1, <2>2, <2>3 DEF PipelineRunStep, PrcNext
<1>6. CASE DispatchStep
  <2>1. CASE ApplyPipelineRun
    BY <1>1, <2>1 DEF ApplyPipelineRun, caches
  <2>2. CASE CancelPipelineRun
    BY <1>1, <2>2 DEF CancelPipelineRun, caches
  <2>3. CASE Revive
    BY <1>1, <2>3 DEF Revive, caches
  <2>4. CASE UNCHANGED <<prCache, prWatch>>
    BY <2>4 DEF StreamMove
  <2> QED
    BY <1>6, <2>1, <2>2, <2>3, <2>4
       DEF DispatchStep, DispatchNext, ApproveTask, RejectTask, BeginRerun, RerunDeleteChild,
           RerunReset, RerunDeleteDownstream, NothingToRevive, RerunConflict, RerunAbort,
           prVars, caches, watches
<1>7. CASE CallFails
  BY <1>7 DEF CallFails, PrAbort, TrAbort, RerunAbort, caches, watches, StreamMove
<1>8. CASE Restart
  BY <1>8 DEF Restart, StreamMove
<1> QED
  BY <1>2, <1>3, <1>4, <1>5, <1>6, <1>7, <1>8 DEF Next

\* A marked version at the end keeps the stream in order.
LEMMA AppendMarked ==
    ASSUME prWatch \in Seq(PipelineRuns), MarkedOn, UNCHANGED prCache,
           pr' \in PipelineRuns, prWatch' = Append(prWatch, pr'), Marked(pr')
    PROVE  MarkedOn'
<1>1. /\ Len(prWatch) \in Nat /\ Len(prWatch') = Len(prWatch) + 1
      /\ \A i \in 1..Len(prWatch) : prWatch'[i] = prWatch[i]
      /\ prWatch'[Len(prWatch) + 1] = pr'
  BY AppendProperties, LenProperties
<1>2. \A i \in 1..Len(prWatch') : i \in 1..Len(prWatch) \/ Marked(prWatch'[i])
  BY <1>1
<1>3. \A i \in 1..Len(prWatch) : Marked(prWatch[i]) = Marked(prWatch'[i])
  BY <1>1
<1>4. ASSUME NEW i \in 1..Len(prWatch'), Marked(prWatch'[i]), NEW j \in i..Len(prWatch')
      PROVE  Marked(prWatch'[j])
  <2>1. CASE j \in 1..Len(prWatch)
    <3>1. i \in 1..Len(prWatch) /\ j \in i..Len(prWatch)
      BY <1>1, <1>4, <2>1
    <3> QED
      BY <1>3, <1>4, <2>1, <3>1 DEF MarkedOn
  <2>2. j \in 1..Len(prWatch')
    BY <1>1, <1>4
  <2> QED
    BY <1>2, <2>1, <2>2
<1>5. Marked(prCache') => \A i \in 1..Len(prWatch') : Marked(prWatch'[i])
  BY <1>2, <1>3 DEF MarkedOn
<1> HIDE DEF Marked
<1> QED
  BY <1>4, <1>5 DEF MarkedOn

LEMMA SyncMarked ==
    ASSUME prWatch \in Seq(PipelineRuns), MarkedOn, SyncPipelineRun
    PROVE  MarkedOn'
<1>1. prWatch # << >> /\ prCache' = Head(prWatch) /\ prWatch' = Tail(prWatch)
  BY DEF SyncPipelineRun
<1>2. /\ Head(prWatch) = prWatch[1]
      /\ Len(prWatch) \in Nat /\ Len(prWatch) >= 1
      /\ Len(Tail(prWatch)) = Len(prWatch) - 1
      /\ \A i \in 1..(Len(prWatch) - 1) : Tail(prWatch)[i] = prWatch[i + 1]
  BY <1>1, HeadTailProperties, LenProperties, EmptySeq
<1>3. \A i \in 1..Len(prWatch') : i + 1 \in 1..Len(prWatch) /\ prWatch'[i] = prWatch[i + 1]
  BY <1>1, <1>2
<1>4. prCache' = prWatch[1] /\ 1 \in 1..Len(prWatch)
  BY <1>1, <1>2
<1>5. ASSUME Marked(prCache'), NEW i \in 1..Len(prWatch') PROVE Marked(prWatch'[i])
  <2>1. i + 1 \in 1..Len(prWatch)
    BY <1>3
  <2> QED
    BY <1>3, <1>4, <1>5, <2>1 DEF MarkedOn
<1>6. ASSUME NEW i \in 1..Len(prWatch'), Marked(prWatch'[i]), NEW j \in i..Len(prWatch')
      PROVE  Marked(prWatch'[j])
  <2>1. j \in 1..Len(prWatch') /\ i + 1 \in 1..Len(prWatch) /\ j + 1 \in (i + 1)..Len(prWatch)
    BY <1>1, <1>2, <1>6
  <2> QED
    BY <1>3, <1>6, <2>1 DEF MarkedOn
<1> QED
  BY <1>5, <1>6 DEF MarkedOn

\* When the run is bound to be cancelled, the versions from there on say so.
LEMMA StepMarked ==
    ASSUME TypeOK, TypeOK', CopiesHold, RunFactsHold, Ending => MarkedOn,
           RunMove, StreamMove, Ending'
    PROVE  MarkedOn'
<1>1. /\ prWatch \in Seq(PipelineRuns) /\ pr \in PipelineRuns /\ pr' \in PipelineRuns
      /\ Len(prWatch) \in Nat
  <2>1. prWatch \in Seq(PipelineRuns) /\ pr \in PipelineRuns /\ pr' \in PipelineRuns
    BY DEF TypeOK, ClusterTypeOK
  <2> QED
    BY <2>1, LenProperties
<1>2. Marked(pr')
  BY DEF Ending, Marked
<1>3. ASSUME ~Ending PROVE \A v \in PrVersions : ~Marked(v) \/ v.phase \in {"Succeeded", "Failed"}
  BY <1>3 DEF RunFactsHold, Ending, Marked, TerminalPhases
<1>4. ASSUME ~Ending PROVE \A v \in PrVersions : ~Marked(v)
  <2>1. SUFFICES ASSUME NEW v \in PrVersions, v.phase \in {"Succeeded", "Failed"} PROVE FALSE
    BY <1>3, <1>4
  <2>2. pr.phase \in {"Succeeded", "Failed"}
    BY <2>1 DEF RunFactsHold, TerminalPhases
  <2>3. pr'.phase = pr.phase
    BY <2>2, NoWayBack DEF TerminalPhases
  <2> QED
    BY <2>2, <2>3 DEF Ending, TerminalPhases
<1>5. MarkedOn
  <2>1. CASE ~Ending
    BY <1>4, <2>1, PrVersionCases DEF MarkedOn
  <2> QED
    BY <2>1
<1>6. CASE UNCHANGED <<prCache, prWatch>>
  BY <1>5, <1>6 DEF MarkedOn, Marked
<1>7. CASE prWatch' = << >>
  <2>1. Len(prWatch') = 0
    <3>1. Len(<< >>) = 0
      OBVIOUS
    <3> QED
      BY <1>7, <3>1, Zenon
  <2> QED
    BY <2>1 DEF MarkedOn
<1> QED
  BY <1>1, <1>2, <1>5, <1>6, <1>7, AppendMarked, SyncMarked DEF StreamMove

LEMMA StepStartedOnce ==
    ASSUME TypeOK, TypeOK', CopiesHold, TaskRunsHold, RunFactsHold, RunFactsHold', StartedOnce,
           [Next]_vars
    PROVE  StartedOnce'
<1>1. /\ prc \in [step : PrSteps, todo : SUBSET Tasks, next : PipelineRuns]
      /\ births \in [Tasks -> Nat]
  BY DEF TypeOK, ClusterTypeOK, PrcTypeOK
<1>2. RunMove /\ ReconcileMove /\ PrVersions' \subseteq PrVersions \cup {pr'}
  BY StepKinds
<1>3. Ending => Ending'
  BY <1>2, NoWayBack
<1>4. Ending' => MarkedOn'
  BY <1>2, StepStream, StepMarked DEF StartedOnce
<1>5. Closed => Closed'
  <2>1. Ending' => Marked(pr')
    BY DEF Ending, Marked
  <2> QED
    BY <1>2, <1>3, <2>1 DEF Closed
\* A reconcile that cancels has read a marked copy, and all that come after it are marked.
<1>6. ASSUME prCache.cancel, prCache.phase \notin TerminalPhases PROVE Closed
  <2>1. Marked(prCache) /\ prCache \in PrVersions
    BY <1>6, PrVersionCases DEF Marked
  <2>2. Ending
    BY <1>6, <2>1 DEF RunFactsHold
  <2>3. Marked(pr)
    BY <2>2 DEF Ending, Marked
  <2> QED
    BY <2>1, <2>2, <2>3, PrVersionCases DEF Closed, StartedOnce, MarkedOn
<1>7. prc'.step = "delete" => Closed'
  <2>1. SUFFICES ASSUME prc'.step = "delete" PROVE Closed
    BY <1>5
  <2>2. CASE UNCHANGED prc
    BY <2>1, <2>2 DEF StartedOnce
  <2>3. CASE Reconcile
    BY <1>6, <2>1, <2>2, <2>3, ReconcileDecides
  <2>4. ASSUME NEW t \in prc.todo, Done(t) PROVE Closed
    BY <2>1, <2>4, DoneKeeps DEF StartedOnce
  <2>5. prc' # PrIdle /\ prc' # [prc EXCEPT !.step = "clear"]
    BY <1>1, <2>1 DEF PrIdle
  <2> QED
    BY <1>2, <2>2, <2>3, <2>4, <2>5 DEF ReconcileMove
\* Nobody who reads a marked copy begins to create.
<1>8. ASSUME Closed, prc'.step = "create" PROVE prc.step = "create"
  <2>1. Marked(prCache)
    BY <1>8, PrVersionCases DEF Closed
  <2>2. prCache.phase = "Cancelled" => pr.phase = "Cancelled"
    BY PrVersionCases DEF RunFactsHold, TerminalPhases
  <2>3. CASE Reconcile /\ ~UNCHANGED prc
    <3>1. ~prCache.cancel /\ prCache.phase \notin TerminalPhases
      BY <1>8, <2>3 DEF Reconcile, IgnoreRun, AwaitApproval, StopOnFailure, Advance, Schedulable,
         RefuseCancel, BeginCancel, PrStart, PrStep
    <3> QED
      BY <2>1, <3>1 DEF Marked, TerminalPhases
  <2>4. ASSUME NEW t \in prc.todo, Done(t) PROVE prc.step = "create"
    BY <1>8, <2>4, DoneKeeps
  <2>5. prc' # PrIdle /\ prc' # [prc EXCEPT !.step = "clear"]
    BY <1>1, <1>8 DEF PrIdle
  <2> QED
    BY <1>2, <1>8, <2>3, <2>4, <2>5 DEF ReconcileMove
<1>9. ASSUME NEW t \in Tasks
      PROVE  /\ births'[t] <= 1
             /\ births'[t] = 1 /\ ~Exists(tr', t) => Closed' /\ prc'.step # "create"
  <2>1. /\ births[t] \in Nat /\ births[t] <= 1
        /\ births[t] = 1 /\ ~Exists(tr, t) => Closed /\ prc.step # "create"
    BY <1>1 DEF StartedOnce
  <2>2. TaskRunMove(t)
    BY StepTaskRuns
  <2>3. CASE births'[t] = births[t] /\ Exists(tr', t)
    BY <2>1, <2>3
  <2>4. CASE births'[t] = births[t] /\ ~Exists(tr, t)
    BY <1>5, <1>8, <2>1, <2>4
  <2>5. CASE ~Exists(tr, t) /\ births'[t] = births[t] + 1 /\ Exists(tr', t) /\ prc.step = "create"
    BY <2>1, <2>5
  <2>6. CASE births'[t] = births[t] /\ prc.step = "delete"
    <3>1. Closed /\ prc.step # "create"
      BY <2>6 DEF StartedOnce
    <3> QED
      BY <1>5, <1>8, <2>1, <2>6, <3>1
  <2>7. NewTaskRun(t).phase = ""
    BY NewTaskRunSound
  <2>8. rerun.step = "idle"
    BY DEF RunFactsHold
  <2> QED
    BY <2>2, <2>3, <2>4, <2>5, <2>6, <2>7, <2>8 DEF TaskRunMove, Exists, Follows, Resets
<1> QED
  BY <1>4, <1>7, <1>9 DEF StartedOnce, Exists
-----------------------------------------------------------------------------
(* What a step may do to a Job task. *)

\* The reconcile of t that is in hand, if one is, was in hand before.
HandStays(t) == InHand(t)' => trc' = trc /\ (Sure(t)' => Sure(t))

\* A reconcile of t is begun: it decides on what the caches show.
Begins(t) ==
    /\ trc.step = "idle"
    /\ trCache[t].phase # "Absent"
    /\ trc'.task = t
    /\ \/ /\ trc'.step = "createChild"
          /\ ~trCache[t].ref
          /\ trc'.next = [trCache[t] EXCEPT !.phase = "Running", !.ref = TRUE]
       \/ /\ trc'.step = "deleteChild"
          /\ trCache[t].ref /\ childCache[t].status = "Failed"
          /\ trCache[t].phase # "Succeeded"
          /\ trc'.next = [trCache[t] EXCEPT !.retries = @ + 1, !.ref = FALSE]
       \/ /\ trc'.step = "update"
          /\ trCache[t].ref
          /\ trCache[t].phase # "Succeeded"
          /\ \E phase \in {childCache[t].status, trCache[t].phase} :
                trc'.next = [trCache[t] EXCEPT !.phase = phase]
    /\ "TaskRun" \in trCurrent'[t] => TaskRunCacheCurrent(t)
    /\ child'[t] = child[t]

\* A reconcile of t calls for its Job to be created or deleted.
Calls(t) ==
    /\ trc.task = t
    /\ trc' = [trc EXCEPT !.step = "update"]
    /\ trCurrent'[t] = trCurrent[t]
    /\ \/ /\ trc.step = "createChild"
          /\ child'[t] =
                IF child[t].status = "Absent"
                THEN [status |-> "Active", owner |-> trc.next.uid, deleting |-> FALSE]
                ELSE child[t]
       \/ /\ trc.step = "deleteChild"
          /\ child'[t] = IF child[t].status = "Absent" THEN child[t]
                         ELSE [child[t] EXCEPT !.deleting = TRUE]

\* The Job ends, or it is collected.
JobMoves(t) ==
    /\ HandStays(t)
    /\ \/ /\ child[t].status = "Active"
          /\ \E status \in {"Succeeded", "Failed"} :
                child'[t] = [child[t] EXCEPT !.status = status]
       \/ Doomed(t) /\ child'[t] = NoChild

\* The Hub decides on the task.
HubDecides(t) ==
    /\ Exists(tr, t) /\ TaskRunCacheCurrent(t)
    /\ tr'[t] # tr[t]
    /\ tr'[t].ref = tr[t].ref /\ tr'[t].retries = tr[t].retries
    /\ tr'[t].phase = "Succeeded" => tr[t].phase = "Succeeded" \/ Signed(t, tr'[t])
    /\ trc' = trc /\ ~Sure(t)'

\* The TaskRun is written by a reconcile, decided on, created or deleted.
JobTaskWrite(t) ==
    \/ HubDecides(t)
    \/ Sure(t) /\ tr'[t] = trc.next /\ ~InHand(t)'
    \/ ~Exists(tr, t) /\ births[t] = 0 /\ tr'[t] = NewTaskRun(t) /\ HandStays(t)
    \/ tr'[t] = NoTaskRun /\ HandStays(t)

JobTaskMove(t) ==
    \/ /\ tr'[t] = tr[t] /\ child'[t] = child[t]
       /\ childCache'[t] \in {childCache[t], child[t]}
       /\ HandStays(t)
    \/ /\ tr'[t] = tr[t] /\ trCache'[t] = trCache[t] /\ childCache'[t] = childCache[t]
       /\ JobMoves(t) \/ Calls(t) \/ Begins(t)
    \/ /\ child'[t] = child[t] /\ childCache'[t] = childCache[t]
       /\ JobTaskWrite(t)

\* What it may do to the copies of t's TaskRun.
ComingMove(t) ==
    \/ /\ tr'[t] = tr[t] /\ trCache'[t] \in {trCache[t], tr[t]}
       /\ Expected(t)'
       /\ TaskRunCacheCurrent(t) => TaskRunCacheCurrent(t)'
    \/ /\ tr'[t] = tr[t] /\ ~Expected(t)
       /\ TaskRunCacheCurrent(t) => TaskRunCacheCurrent(t)'
    \/ /\ tr'[t] # tr[t] /\ trCache'[t] = trCache[t]
       /\ TaskRunCacheCurrent(t) => Expected(t)'
-----------------------------------------------------------------------------
(* Every step is of these kinds. *)

LEMMA StepComing ==
    ASSUME TypeOK, TaskRunsHold, [Next]_vars, NEW t \in Tasks, Type[t] = "Job"
    PROVE  ComingMove(t)
<1>1. /\ tr \in [Tasks -> TaskRuns] /\ trCache \in [Tasks -> TaskRuns]
      /\ trWatch \in Seq(Events) /\ Len(trWatch) \in Nat
  <2>1. tr \in [Tasks -> TaskRuns] /\ trCache \in [Tasks -> TaskRuns] /\ trWatch \in Seq(Events)
    BY DEF TypeOK, ClusterTypeOK, Events
  <2> QED
    BY <2>1, LenProperties
<1>2. CASE UNCHANGED <<tr, trWatch, trCache>>
  BY <1>2 DEF ComingMove, Expected, TaskRunCacheCurrent
<1>3. CASE SyncTaskRun
  <2>1. /\ trWatch # << >> /\ trWatch' = Tail(trWatch) /\ UNCHANGED tr
        /\ trCache' = [trCache EXCEPT ![Head(trWatch).task] = Head(trWatch).obj]
    BY <1>3 DEF SyncTaskRun, objects
  <2>2. /\ Head(trWatch) = trWatch[1] /\ Head(trWatch) \in Events
        /\ Len(trWatch) >= 1
        /\ Len(trWatch') = Len(trWatch) - 1
        /\ \A i \in 1..(Len(trWatch) - 1) : trWatch'[i] = trWatch[i + 1]
    BY <1>1, <2>1, HeadTailProperties, EmptySeq
  <2>3. \A i \in 1..Len(trWatch') : i + 1 \in 1..Len(trWatch) /\ trWatch'[i] = trWatch[i + 1]
    BY <1>1, <2>2
  <2>4. trCache'[t] = IF t = trWatch[1].task THEN trWatch[1].obj ELSE trCache[t]
    BY <1>1, <2>1, <2>2 DEF Events
  <2>5. TaskRunCacheCurrent(t) => TaskRunCacheCurrent(t)'
    BY <2>3 DEF TaskRunCacheCurrent
  <2>6. ASSUME Expected(t) PROVE Expected(t)' /\ trCache'[t] \in {trCache[t], tr[t]}
    <3>1. Expected(t)'
      BY <2>1, <2>3, <2>6 DEF Expected
    <3>2. 1 \in 1..Len(trWatch)
      BY <1>1, <2>2
    <3> QED
      BY <2>4, <2>6, <3>1, <3>2 DEF Expected
  <2> QED
    BY <2>1, <2>5, <2>6 DEF ComingMove
<1>4. CASE UNCHANGED tr /\ trCache' = tr /\ trWatch' = << >>
  <2>1. Len(trWatch') = 0
    <3>1. Len(<< >>) = 0
      OBVIOUS
    <3> QED
      BY <1>4, <3>1, Zenon
  <2> QED
    BY <1>4, <2>1 DEF ComingMove, Expected, TaskRunCacheCurrent
<1>5. ASSUME NEW u \in Tasks, NEW obj \in TaskRuns, NEW client, Writes(u, obj, client),
             Type[u] = "Job" => PutTaskRun(u, obj, client), UNCHANGED trCache
      PROVE  ComingMove(t)
  <2>1. CASE PutTaskRun(u, obj, client) /\ obj = tr[u]
    BY <1>2, <1>5, <2>1 DEF PutTaskRun
  <2>2. CASE \/ PutTaskRun(u, obj, client) /\ obj # tr[u]
             \/ RestampTaskRun(u) /\ obj = tr[u] /\ Type[u] # "Job"
    <3> DEFINE event == [task |-> u, obj |-> obj]
    <3>1. tr' = [tr EXCEPT ![u] = obj] /\ trWatch' = Append(trWatch, event)
      BY <1>1, <2>2 DEF PutTaskRun, RestampTaskRun
    <3>2. event \in Events /\ event.task = u /\ event.obj = obj
      BY DEF Events
    <3> HIDE DEF event
    <3>3. /\ Len(trWatch') = Len(trWatch) + 1
          /\ \A i \in 1..Len(trWatch) : trWatch'[i] = trWatch[i]
          /\ trWatch'[Len(trWatch) + 1] = event
      BY <1>1, <3>1, <3>2, AppendProperties
    <3>4. \A i \in 1..Len(trWatch') : i \in 1..Len(trWatch) \/ trWatch'[i] = event
      BY <1>1, <3>3
    <3>5. CASE t = u
      <4>1. tr'[t] = obj
        BY <1>1, <3>1, <3>5
      <4>2. TaskRunCacheCurrent(t) => Expected(t)'
        BY <3>2, <3>3, <3>4, <3>5, <4>1 DEF Expected, TaskRunCacheCurrent
      <4> QED
        BY <1>5, <2>2, <3>5, <4>1, <4>2 DEF ComingMove
    <3>6. CASE t # u
      <4>1. tr'[t] = tr[t]
        BY <1>1, <3>1, <3>6
      <4>2. TaskRunCacheCurrent(t) => TaskRunCacheCurrent(t)'
        BY <3>2, <3>3, <3>4, <3>6 DEF TaskRunCacheCurrent
      <4>3. Expected(t) => Expected(t)'
        BY <3>2, <3>3, <3>4, <3>6, <4>1 DEF Expected
      <4> QED
        BY <1>5, <4>1, <4>2, <4>3 DEF ComingMove
    <3> QED
      BY <3>5, <3>6
  <2> QED
    BY <1>5, <2>1, <2>2 DEF Writes
<1> QED
  BY <1>2, <1>3, <1>4, <1>5, StepWrites DEF WriteMove

\* The steps of the TaskRun controller.
LEMMA TaskRunJobMoves ==
    ASSUME TypeOK, TaskRunStep, NEW t \in Tasks, Type[t] = "Job"
    PROVE  JobTaskMove(t)
<1>1. /\ tr \in [Tasks -> TaskRuns] /\ trCache \in [Tasks -> TaskRuns]
      /\ child \in [Tasks -> Children] /\ childCache \in [Tasks -> Children]
      /\ trCurrent \in [Tasks -> SUBSET Clients]
      /\ trc \in [step : TrSteps, task : Tasks, next : TaskRuns]
      /\ TrcNext
  BY DEF TypeOK, ClusterTypeOK, TrcTypeOK, TaskRunStep
<1>2. CASE \E u \in Tasks : ReconcileTaskRun(u)
  <2>1. PICK u \in Tasks : ReconcileTaskRun(u)
    BY <1>2
  <2>2. UNCHANGED <<tr, child, trCache, childCache>>
    BY <2>1 DEF ReconcileTaskRun, IgnoreTaskRun, PrepareApproval, StartChild, RetryJob,
       MirrorChild, TrStart, objects, caches
  <2>3. CASE IgnoreTaskRun(u)
    <3>1. UNCHANGED <<trc, trCurrent>>
      BY <2>3 DEF IgnoreTaskRun, versions
    <3> QED
      BY <2>2, <3>1 DEF JobTaskMove, HandStays, InHand, Sure
  <2>4. ASSUME NEW step, NEW next, TrStart(u, step, next)
        PROVE  /\ trc.step = "idle" /\ trc' = [step |-> step, task |-> u, next |-> next]
               /\ u = t /\ "TaskRun" \in trCurrent'[t] => TaskRunCacheCurrent(t)
    BY <1>1, <2>4 DEF TrStart, TrWork, ReadTaskRun
  <2>5. CASE u # t /\ ~IgnoreTaskRun(u)
    <3>1. trc'.task = u
      BY <2>1, <2>4, <2>5 DEF ReconcileTaskRun, PrepareApproval, StartChild, RetryJob, MirrorChild
    <3> QED
      BY <2>2, <2>5, <3>1 DEF JobTaskMove, HandStays, InHand
  <2>6. CASE u = t /\ StartChild(u)
    <3>1. trCache[t].phase # "Absent" /\ ~trCache[t].ref
      BY <2>6 DEF StartChild, NothingToDo
    <3>2. Begins(t)
      BY <2>2, <2>4, <2>6, <3>1 DEF StartChild, Begins
    <3> QED
      BY <2>2, <3>2 DEF JobTaskMove
  <2>7. CASE u = t /\ RetryJob(u)
    <3>1. /\ trCache[t].phase # "Absent" /\ trCache[t].ref
          /\ trCache[t].phase # "Succeeded" /\ childCache[t].status = "Failed"
      BY <2>7 DEF RetryJob, NothingToDo
    <3>2. Begins(t)
      BY <2>2, <2>4, <2>7, <3>1 DEF RetryJob, Begins
    <3> QED
      BY <2>2, <3>2 DEF JobTaskMove
  <2>8. CASE u = t /\ MirrorChild(u)
    <3> DEFINE phase == IF Type[t] = "Job" THEN JobOutcome(t) ELSE RolloutOutcome(t)
    <3>1. /\ trCache[t].phase # "Absent" /\ trCache[t].ref
          /\ trCache[t].phase # "Succeeded"
      BY <2>8 DEF MirrorChild, NothingToDo
    <3>2. phase \in {childCache[t].status, trCache[t].phase}
      BY DEF JobOutcome
    <3>3. TrStart(t, "update", [trCache[t] EXCEPT !.phase = phase])
      BY <2>8 DEF MirrorChild
    <3> HIDE DEF phase
    <3>4. /\ trc'.task = t /\ trc'.step = "update" /\ trc.step = "idle"
          /\ trc'.next = [trCache[t] EXCEPT !.phase = phase]
          /\ "TaskRun" \in trCurrent'[t] => TaskRunCacheCurrent(t)
      BY <2>4, <2>8, <3>3
    <3>5. Begins(t)
      BY <2>2, <3>1, <3>2, <3>4 DEF Begins
    <3> QED
      BY <2>2, <3>5 DEF JobTaskMove
  <2> QED
    BY <2>1, <2>3, <2>5, <2>6, <2>7, <2>8 DEF ReconcileTaskRun, PrepareApproval
<1>3. CASE CreateOwnChild \/ DeleteOwnChild
  <2>1. /\ UNCHANGED <<tr, trCache, childCache, trCurrent>>
        /\ trc' = [trc EXCEPT !.step = "update"]
    BY <1>3 DEF CreateOwnChild, DeleteOwnChild, caches, versions
  <2>2. CASE trc.task # t
    <3>1. child'[t] = child[t]
      BY <1>1, <1>3, <2>2 DEF CreateOwnChild, DeleteOwnChild, CreateChild, DeleteChild
    <3> QED
      BY <1>1, <2>1, <2>2, <3>1 DEF JobTaskMove, HandStays, InHand
  <2>3. CASE trc.task = t
    <3>1. CASE CreateOwnChild
      BY <1>1, <2>1, <2>3, <3>1 DEF CreateOwnChild, CreateChild, Calls, JobTaskMove
    <3>2. CASE DeleteOwnChild
      <4>1. child'[t] = IF child[t].status = "Absent" THEN child[t]
                        ELSE [child[t] EXCEPT !.deleting = TRUE]
        BY <1>1, <2>3, <3>2 DEF DeleteOwnChild, DeleteChild
      <4> QED
        BY <2>1, <2>3, <3>2, <4>1 DEF DeleteOwnChild, Calls, JobTaskMove
    <3> QED
      BY <1>3, <3>1, <3>2
  <2> QED
    BY <2>2, <2>3
<1>4. CASE UpdateTaskRun
  <2>1. /\ trc.step = "update" /\ "TaskRun" \in trCurrent[trc.task] /\ trc' = TrIdle
        /\ Writes(trc.task, trc.next, "TaskRun")
        /\ UNCHANGED <<child, trCache, childCache>>
    BY <1>4 DEF UpdateTaskRun, RestampOutcome, Writes, caches
  <2>2. tr' = [tr EXCEPT ![trc.task] = trc.next]
    BY <1>1, <2>1 DEF Writes, PutTaskRun, RestampTaskRun
  <2>3. ~InHand(t)'
    BY <2>1 DEF InHand, TrIdle
  <2>4. CASE trc.task # t
    BY <1>1, <2>1, <2>2, <2>3, <2>4 DEF JobTaskMove, HandStays
  <2>5. CASE trc.task = t
    BY <1>1, <2>1, <2>2, <2>3, <2>5 DEF JobTaskMove, JobTaskWrite, Sure, InHand
  <2> QED
    BY <2>4, <2>5
<1>5. CASE TaskRunConflict
  <2>1. UNCHANGED <<tr, child, childCache>> /\ ~InHand(t)'
    BY <1>5 DEF TaskRunConflict, TrAbort, objects, caches, InHand, TrIdle
  <2> QED
    BY <2>1 DEF JobTaskMove, HandStays
<1> QED
  BY <1>1, <1>2, <1>3, <1>4, <1>5 DEF TrcNext

\* A decision of the Hub: the Job and the retries are left alone.
LEMMA DecidesHolds ==
    ASSUME TypeOK, TaskRunsHold, NEW t \in Tasks, Decides(t), tr'[t] # tr[t]
    PROVE  /\ Exists(tr, t) /\ TaskRunCacheCurrent(t)
           /\ tr'[t].ref = tr[t].ref /\ tr'[t].retries = tr[t].retries
           /\ tr'[t].phase = "Succeeded" => tr[t].phase = "Succeeded" \/ Signed(t, tr'[t])
<1>1. PICK approver \in Deciders[t] : ApproveTask(t, approver) \/ RejectTask(t, approver)
  BY DEF Decides
<1>2. /\ TaskRunCacheCurrent(t) /\ Exists(trCache, t)
      /\ tr \in [Tasks -> TaskRuns]
  BY <1>1 DEF ApproveTask, RejectTask, TypeOK, ClusterTypeOK
<1>3. trCache[t] = tr[t] /\ tr[t] \in TaskRuns
  BY <1>2, ReadTaskRunIsCurrent DEF TaskRunsHold
<1>4. \A obj : PutTaskRun(t, obj, "Dispatch") => tr'[t] = obj
  BY <1>2 DEF PutTaskRun
<1>5. CASE ApproveTask(t, approver)
  <2> DEFINE signed == trCache[t].approvedBy \cup {approver}
             phase == IF Cardinality(signed) >= Required[t] THEN "Succeeded" ELSE trCache[t].phase
             obj == [trCache[t] EXCEPT !.asked = TRUE, !.approvedBy = signed, !.phase = phase]
  <2>1. tr'[t] = obj
    BY <1>4, <1>5 DEF ApproveTask
  <2>2. phase = "Succeeded" => tr[t].phase = "Succeeded" \/ Cardinality(signed) >= Required[t]
    BY <1>3
  <2> HIDE DEF signed, phase
  <2>3. /\ obj.ref = tr[t].ref /\ obj.retries = tr[t].retries /\ obj.phase = phase
        /\ obj.approvedBy = signed
    BY <1>3 DEF TaskRuns
  <2> HIDE DEF obj
  <2> QED
    BY <1>2, <1>3, <2>1, <2>2, <2>3 DEF Exists, Signed
<1>6. CASE RejectTask(t, approver)
  <2> DEFINE obj == [trCache[t] EXCEPT !.asked = TRUE, !.rejectedBy = {approver},
                                       !.phase = "Failed"]
  <2>1. tr'[t] = obj
    BY <1>4, <1>6 DEF RejectTask
  <2>2. obj.ref = tr[t].ref /\ obj.retries = tr[t].retries /\ obj.phase = "Failed"
    BY <1>3 DEF TaskRuns
  <2> HIDE DEF obj
  <2> QED
    BY <1>2, <1>3, <2>1, <2>2 DEF Exists
<1> QED
  BY <1>1, <1>5, <1>6

\* The steps of the others, as long as nothing is rerun.
LEMMA OtherJobMoves ==
    ASSUME TypeOK, TaskRunsHold, rerun.step = "idle", StartedOnce, reruns = 0, reruns' = 0,
           ClusterStep \/ PipelineRunStep \/ DispatchStep \/ CallFails \/ Restart,
           NEW t \in Tasks, Type[t] = "Job"
    PROVE  JobTaskMove(t)
<1>1. /\ tr \in [Tasks -> TaskRuns] /\ child \in [Tasks -> Children]
      /\ childCache \in [Tasks -> Children] /\ births \in [Tasks -> Nat]
      /\ trCurrent \in [Tasks -> SUBSET Clients]
      /\ prc \in [step : PrSteps, todo : SUBSET Tasks, next : PipelineRuns]
      /\ reruns \in Nat
  BY DEF TypeOK, ClusterTypeOK, PrcTypeOK, DispatchTypeOK, DispatchAssumption
<1>2. CASE ClusterStep
  <2>1. UNCHANGED <<tr, trc, trCurrent>>
    BY <1>2 DEF ClusterStep, ClusterNext, SyncPipelineRun, SyncTaskRun, SyncChild,
       ChildProgress, CollectGarbage, objects, versions, local
  <2>2. HandStays(t)
    BY <2>1 DEF HandStays, Sure, InHand
  <2>3. CASE UNCHANGED <<child, childCache>>
    BY <2>1, <2>2, <2>3 DEF JobTaskMove
  <2>4. ASSUME NEW u \in Tasks, SyncChild(u) PROVE JobTaskMove(t)
    <3>1. child' = child /\ childCache' = [childCache EXCEPT ![u] = child[u]]
      BY <2>4 DEF SyncChild, objects
    <3>2. childCache'[t] \in {childCache[t], child[t]}
      BY <1>1, <3>1
    <3> QED
      BY <2>1, <2>2, <3>1, <3>2 DEF JobTaskMove
  <2>5. ASSUME NEW u \in Tasks, ChildProgress(u) \/ CollectGarbage(u) PROVE JobTaskMove(t)
    <3>1. UNCHANGED <<trCache, childCache>>
      BY <2>5 DEF ChildProgress, CollectGarbage, caches
    <3>2. CASE u # t
      <4>1. child'[t] = child[t]
        BY <1>1, <2>5, <3>2 DEF ChildProgress, CollectGarbage
      <4> QED
        BY <2>1, <2>2, <3>1, <4>1 DEF JobTaskMove
    <3>3. CASE u = t /\ ChildProgress(u)
      <4>1. /\ child[t].status = "Active"
            /\ \E status \in {"Succeeded", "Failed"} :
                  child'[t] = [child[t] EXCEPT !.status = status]
        BY <1>1, <3>3 DEF ChildProgress
      <4> QED
        BY <2>1, <2>2, <3>1, <4>1 DEF JobTaskMove, JobMoves
    <3>4. CASE u = t /\ CollectGarbage(u)
      BY <1>1, <2>1, <2>2, <3>1, <3>4 DEF CollectGarbage, JobTaskMove, JobMoves
    <3> QED
      BY <2>5, <3>2, <3>3, <3>4
  <2> QED
    BY <1>2, <2>3, <2>4, <2>5
       DEF ClusterStep, ClusterNext, SyncPipelineRun, SyncTaskRun, objects
<1>3. ASSUME NEW u \in Tasks, NEW obj, NEW client, PutTaskRun(u, obj, client)
      PROVE  tr' = [tr EXCEPT ![u] = obj] /\ trCurrent'[t] \subseteq trCurrent[t]
  BY <1>1, <1>3 DEF PutTaskRun
<1>4. trCurrent'[t] \subseteq trCurrent[t] /\ UNCHANGED trc => HandStays(t)
  BY DEF HandStays, Sure, InHand
<1>5. CASE PipelineRunStep
  <2>1. UNCHANGED <<trc, child, childCache>>
    BY <1>5 DEF PipelineRunStep, PrcNext, Reconcile, IgnoreRun, AwaitApproval, StopOnFailure,
       Advance, RefuseCancel, BeginCancel, PrStart, CreateNext, DeleteNext, UpdateStatus,
       StatusConflict, ClearCancel, PrAbort, objects, caches
  <2>2. CASE UNCHANGED <<tr, trCurrent>>
    BY <1>4, <2>1, <2>2 DEF JobTaskMove
  <2>3. ASSUME NEW u \in prc.todo, CreateTaskRun(u), prc.step = "create"
        PROVE  JobTaskMove(t)
    <3>1. UNCHANGED <<tr, trCurrent>>
          \/ (PutTaskRun(u, NewTaskRun(u), "") /\ ~Exists(tr, u) /\ births[u] = 0)
      <4>1. births[u] \in Nat /\ births[u] <= 1
        BY <1>1 DEF StartedOnce
      <4>2. births[u] = 1 /\ ~Exists(tr, u) => FALSE
        BY <1>1, <2>3 DEF StartedOnce
      <4>3. births[u] = 0 \/ births[u] = 1
        BY <4>1
      <4>4. CASE Exists(tr, u)
        BY <2>3, <4>4 DEF CreateTaskRun, trVars
      <4>5. CASE ~Exists(tr, u)
        BY <2>3, <4>2, <4>3, <4>5 DEF CreateTaskRun
      <4> QED
        BY <4>4, <4>5
    <3>2. CASE u = t /\ PutTaskRun(u, NewTaskRun(u), "") /\ ~Exists(tr, u) /\ births[u] = 0
      <4>1. tr' = [tr EXCEPT ![u] = NewTaskRun(u)] /\ HandStays(t)
        BY <1>1, <1>3, <1>4, <2>1, <3>2
      <4>2. tr'[t] = NewTaskRun(t) /\ ~Exists(tr, t) /\ births[t] = 0
        BY <1>1, <3>2, <4>1
      <4> QED
        BY <2>1, <4>1, <4>2 DEF JobTaskMove, JobTaskWrite
    <3>3. CASE u # t /\ PutTaskRun(u, NewTaskRun(u), "")
      BY <1>1, <1>3, <1>4, <2>1, <3>3 DEF JobTaskMove
    <3> QED
      BY <2>2, <3>1, <3>2, <3>3
  <2>4. ASSUME NEW u \in prc.todo, PutTaskRun(u, NoTaskRun, "")
        PROVE  JobTaskMove(t)
    <3>1. tr' = [tr EXCEPT ![u] = NoTaskRun] /\ HandStays(t)
      BY <1>1, <1>3, <1>4, <2>1, <2>4
    <3>2. tr'[t] = tr[t] \/ tr'[t] = NoTaskRun
      BY <1>1, <3>1
    <3> QED
      BY <2>1, <3>1, <3>2 DEF JobTaskMove, JobTaskWrite
  <2>5. CASE CreateNext
    BY <2>3, <2>5 DEF CreateNext
  <2>6. CASE DeleteNext
    BY <2>4, <2>6 DEF DeleteNext, DeleteTaskRun
  <2> QED
    BY <1>5, <2>2, <2>5, <2>6
       DEF PipelineRunStep, PrcNext, Reconcile, IgnoreRun, AwaitApproval, StopOnFailure,
           Advance, RefuseCancel, BeginCancel, PrStart, UpdateStatus, StatusConflict,
           ClearCancel, PrAbort, objects, versions
<1>6. CASE DispatchStep
  <2>1. UNCHANGED <<trc, child, childCache>>
        /\ \/ UNCHANGED <<tr, trCurrent>>
           \/ \E u \in Tasks : Decides(u)
    <3>1. ~\E u \in Tasks : BeginRerun(u)
      BY <1>1 DEF BeginRerun
    <3>2. ASSUME NEW u \in Tasks, NEW approver \in Deciders[u],
                 ApproveTask(u, approver) \/ RejectTask(u, approver)
          PROVE  UNCHANGED <<child, childCache>> /\ Decides(u)
      BY <3>2 DEF ApproveTask, RejectTask, Decides, caches
    <3> QED
      BY <1>6, <3>1, <3>2 DEF DispatchStep, DispatchNext, ApplyPipelineRun,
         CancelPipelineRun, RerunDeleteChild, RerunReset, RerunDeleteDownstream,
         Revive, NothingToRevive, RerunConflict, objects, caches, trVars
  <2>2. CASE UNCHANGED <<tr, trCurrent>>
    BY <1>4, <2>1, <2>2 DEF JobTaskMove
  <2>3. ASSUME NEW u \in Tasks, Decides(u)
        PROVE  JobTaskMove(t)
    <3>1. \E obj : PutTaskRun(u, obj, "Dispatch")
      BY <2>3 DEF Decides, ApproveTask, RejectTask
    <3>2. HandStays(t) /\ (tr'[t] # tr[t] => u = t /\ trCurrent'[t] = {})
      BY <1>1, <1>3, <1>4, <2>1, <3>1 DEF PutTaskRun
    <3>3. CASE tr'[t] = tr[t]
      BY <2>1, <3>2, <3>3 DEF JobTaskMove
    <3>4. CASE tr'[t] # tr[t]
      <4>1. Decides(t)
        BY <2>3, <3>2, <3>4
      <4>2. ~Sure(t)'
        BY <3>2, <3>4 DEF Sure
      <4>3. HubDecides(t)
        BY <2>1, <3>4, <4>1, <4>2, DecidesHolds DEF HubDecides
      <4> QED
        BY <2>1, <4>3 DEF JobTaskMove, JobTaskWrite
    <3> QED
      BY <3>3, <3>4
  <2> QED
    BY <2>1, <2>2, <2>3
<1>7. CASE CallFails
  <2>1. UNCHANGED <<tr, child, childCache>>
    BY <1>7 DEF CallFails, PrAbort, TrAbort, RerunAbort, objects, caches
  <2>2. trc' = TrIdle \/ UNCHANGED <<trc, trCurrent>>
    BY <1>7 DEF CallFails, PrAbort, TrAbort, RerunAbort
  <2>3. HandStays(t)
    BY <1>4, <2>2 DEF HandStays, InHand, TrIdle
  <2> QED
    BY <2>1, <2>3 DEF JobTaskMove
<1>8. CASE Restart
  <2>1. /\ UNCHANGED <<tr, child>> /\ childCache' = child /\ trc' = TrIdle
    BY <1>8 DEF Restart, objects
  <2>2. HandStays(t)
    BY <2>1 DEF HandStays, InHand, TrIdle
  <2> QED
    BY <2>1, <2>2 DEF JobTaskMove
<1> QED
  BY <1>2, <1>5, <1>6, <1>7, <1>8

LEMMA StepJobTask ==
    ASSUME TypeOK, TaskRunsHold, rerun.step = "idle", StartedOnce, reruns = 0, reruns' = 0,
           [Next]_vars, NEW t \in Tasks, Type[t] = "Job"
    PROVE  JobTaskMove(t)
<1>1. CASE UNCHANGED vars
  <2>1. UNCHANGED <<tr, child, childCache, trc, trCurrent>>
    BY <1>1 DEF vars, clusterVars, local, objects, caches, versions
  <2> QED
    BY <2>1 DEF JobTaskMove, HandStays, InHand, Sure
<1> QED
  BY <1>1, TaskRunJobMoves, OtherJobMoves DEF Next
-----------------------------------------------------------------------------
(* What keeps JobHolds. *)

LEMMA JobTypes ==
    ASSUME TypeOK, NEW t \in Tasks
    PROVE  /\ tr[t] \in TaskRuns /\ tr[t].retries \in Nat /\ tr[t].ref \in BOOLEAN
           /\ trCache[t] \in TaskRuns /\ trCache[t].retries \in Nat /\ trCache[t].ref \in BOOLEAN
           /\ child[t] \in Children /\ childCache[t] \in Children
           /\ trc \in [step : TrSteps, task : Tasks, next : TaskRuns]
           /\ trc.next \in TaskRuns /\ trc.next.retries \in Nat /\ trc.next.ref \in BOOLEAN
BY DEF TypeOK, ClusterTypeOK, TrcTypeOK, TaskRuns

\* The cached TaskRun moves on to the TaskRun itself.
LEMMA NextInLine ==
    ASSUME TypeOK, NEW t \in Tasks, Exists(tr, t), CacheNear(t), ComingMove(t), tr'[t] = tr[t]
    PROVE  /\ Expected(t)'
           /\ \/ trCache'[t] = trCache[t]
              \/ trCache'[t] = tr[t] /\ trCache[t].phase = "Absent"
              \/ trCache'[t] = tr[t] /\ OneBehind(trCache[t], tr[t])
           /\ TaskRunCacheCurrent(t) => TaskRunCacheCurrent(t)'
BY DEF ComingMove, CacheNear

\* Events and the Job's state reach the cache, whatever the order.
LEMMA DeliverJob ==
    ASSUME TypeOK, TaskRunsHold, NEW t \in Tasks, Exists(tr, t), JobHolds(t), ComingMove(t),
           tr'[t] = tr[t], child'[t] = child[t], childCache'[t] \in {childCache[t], child[t]},
           HandStays(t)
    PROVE  JobHolds(t)'
<1>1. /\ tr[t].retries \in Nat /\ tr[t].ref \in BOOLEAN /\ tr[t].phase # "Absent"
      /\ trCache[t].retries \in Nat /\ trCache[t].ref \in BOOLEAN
      /\ trc.next.retries \in Nat /\ trc.next.ref \in BOOLEAN
  BY JobTypes DEF Exists
<1>2. CacheNear(t) /\ HandFits(t) /\ FirstJob(t) /\ SecondJob(t) /\ JobEarned(t)
  BY DEF JobHolds
<1>3. /\ Expected(t)'
      /\ \/ trCache'[t] = trCache[t]
         \/ trCache'[t] = tr[t] /\ trCache[t].phase = "Absent"
         \/ trCache'[t] = tr[t] /\ OneBehind(trCache[t], tr[t])
      /\ TaskRunCacheCurrent(t) => TaskRunCacheCurrent(t)'
  BY <1>2, NextInLine
<1>4. InHand(t)' => InHand(t) /\ trc' = trc /\ (Sure(t)' => Sure(t))
  BY DEF HandStays, InHand
<1>5. (Creating(t)' => Creating(t) /\ trc' = trc) /\ (Deleting(t)' => Deleting(t) /\ trc' = trc)
  BY DEF HandStays, InHand, Creating, Deleting
<1>6. CacheNear(t)'
  BY <1>1, <1>2, <1>3, <1>4 DEF CacheNear, OneBehind, Sure, InHand
<1>7. \A status : Ended(t, status) => Ended(t, status)'
  BY DEF Ended
<1>8. HandFits(t)'
  <2>1. Sure(t)' => /\ OneBehind(tr[t], trc.next)'
                    /\ trc'.next.phase = "Succeeded" => tr'[t].ref /\ trc'.next.ref
    BY <1>2, <1>4 DEF HandFits, OneBehind, Sure
  <2>2. Creating(t)' => /\ trc'.next.ref /\ trc'.next.phase = "Running"
                        /\ trCache'[t].retries = tr'[t].retries
    BY <1>2, <1>3, <1>5 DEF HandFits
  <2>3. Deleting(t)' =>
            /\ ~trc'.next.ref /\ trc'.next.phase # "Succeeded" /\ trc'.next.retries >= 1
            /\ IF trCache'[t].ref
               THEN trc'.next.retries = trCache'[t].retries + 1
               ELSE trc'.next.retries = trCache'[t].retries /\ ~tr'[t].ref
    BY <1>1, <1>2, <1>3, <1>5 DEF HandFits, OneBehind, CacheNear, Deleting, InHand
  <2>4. InHand(t)' /\ ~trc'.next.ref /\ trc'.next.retries = 1 => Ended(t, "Failed")'
    BY <1>2, <1>4, <1>7 DEF HandFits
  <2>5. InHand(t)' /\ trc'.next.phase = "Succeeded" /\ trc'.next.retries <= 1
            => Ended(t, "Succeeded")' /\ trc'.step = "update"
    BY <1>2, <1>4, <1>7 DEF HandFits
  <2> QED
    BY <2>1, <2>2, <2>3, <2>4, <2>5 DEF HandFits
\* Where the cache has not seen the TaskRun, there is no Job yet.
<1>9. trCache[t].phase = "Absent" =>
          /\ trCache[t].retries = 0 /\ ~trCache[t].ref /\ tr[t].retries = 0
          /\ child[t].status = "Absent" /\ childCache[t].status = "Absent"
  <2>1. trCache[t].phase = "Absent" => trCache[t] = NoTaskRun
    <3>1. trCache[t] \in Versions(t)
      BY VersionCases
    <3> QED
      BY <3>1 DEF TaskRunsHold, Sound
  <2>2. NoTaskRun.retries = 0 /\ NoTaskRun.ref = FALSE
    BY DEF NoTaskRun
  <2> QED
    BY <1>2, <2>1, <2>2 DEF CacheNear
<1>10. FirstJob(t)'
  <2>1. CASE trCache'[t] = trCache[t]
    BY <1>2, <1>5, <2>1 DEF FirstJob, Open, Ended
  <2>2. CASE trCache'[t] = tr[t] /\ trCache[t].phase = "Absent"
    BY <1>2, <1>5, <1>9, <2>2 DEF FirstJob, Open, Ended
  <2>3. CASE trCache'[t] = tr[t] /\ OneBehind(trCache[t], tr[t])
    BY <1>1, <1>2, <1>5, <2>3 DEF FirstJob, Open, Ended, OneBehind
  <2> QED
    BY <1>3, <2>1, <2>2, <2>3
<1>12. SecondJob(t)'
  <2>1. CASE trCache'[t] = trCache[t]
    BY <1>2, <1>5, <2>1 DEF SecondJob, Open
  <2>2. CASE trCache'[t] = tr[t] /\ trCache[t].phase = "Absent"
    BY <1>1, <1>2, <1>5, <1>9, <2>2 DEF SecondJob, FirstJob, Open
  <2>3. CASE trCache'[t] = tr[t] /\ OneBehind(trCache[t], tr[t])
    <3>1. CASE trCache[t].retries = tr[t].retries /\ (trCache[t].ref => tr[t].ref)
      BY <1>1, <1>2, <1>5, <2>3, <3>1 DEF SecondJob, Open
    <3>2. CASE trCache[t].retries = 0 /\ tr[t].retries = 1
      BY <1>1, <1>2, <1>5, <2>3, <3>2 DEF SecondJob, FirstJob, Open, Ended
    <3>3. CASE tr[t].retries > 1
      BY <1>1, <2>3, <3>3 DEF SecondJob
    <3> QED
      BY <1>1, <2>3, <3>1, <3>2, <3>3 DEF OneBehind
  <2> QED
    BY <1>3, <2>1, <2>2, <2>3
<1>11. JobEarned(t)'
  BY <1>1, <1>2, <1>3, <1>5, <1>7 DEF JobEarned, OneBehind, CacheNear
<1> QED
  BY <1>6, <1>8, <1>10, <1>11, <1>12 DEF JobHolds

\* Nothing reaches the caches while the Job or the reconcile in hand moves.
LEMMA NoneDelivered ==
    ASSUME NEW t \in Tasks, Exists(tr, t), CacheNear(t), ComingMove(t),
           tr'[t] = tr[t], trCache'[t] = trCache[t]
    PROVE  Expected(t)' /\ (TaskRunCacheCurrent(t) => TaskRunCacheCurrent(t)')
BY DEF ComingMove, CacheNear

\* The Job ends, or the one that was deleted is collected.
LEMMA EndJob ==
    ASSUME TypeOK, NEW t \in Tasks, Exists(tr, t), JobHolds(t), ComingMove(t),
           child[t].status # "Absent" => child[t].owner = tr[t].uid,
           tr'[t] = tr[t], trCache'[t] = trCache[t], childCache'[t] = childCache[t], JobMoves(t)
    PROVE  JobHolds(t)'
<1>1. /\ tr[t].retries \in Nat /\ trCache[t].retries \in Nat
      /\ child[t] \in Children
  BY JobTypes
<1>2. CacheNear(t) /\ HandFits(t) /\ FirstJob(t) /\ SecondJob(t) /\ JobEarned(t)
  BY DEF JobHolds
<1>3. Expected(t)' /\ (TaskRunCacheCurrent(t) => TaskRunCacheCurrent(t)')
  BY <1>2, NoneDelivered
<1>4. InHand(t)' => InHand(t) /\ trc' = trc /\ (Sure(t)' => Sure(t))
  BY DEF JobMoves, HandStays, InHand
<1>5. (Creating(t)' => Creating(t) /\ trc' = trc) /\ (Deleting(t)' => Deleting(t) /\ trc' = trc)
  BY DEF JobMoves, HandStays, InHand, Creating, Deleting
<1>6. \/ /\ child[t].status = "Active" /\ child'[t].status \in {"Succeeded", "Failed"}
         /\ child'[t].deleting = child[t].deleting
      \/ child[t].status # "Absent" /\ child[t].deleting
         /\ child'[t].status = "Absent" /\ child'[t].deleting = FALSE
  BY <1>1 DEF JobMoves, Doomed, Children, NoChild
<1>7. CacheNear(t)'
  <2>1. trCache[t].phase # "Absent"
    BY <1>2, <1>6 DEF CacheNear
  <2>2. Sure(t)' => TaskRunCacheCurrent(t)'
    BY <1>2, <1>3, <1>4 DEF CacheNear, Sure
  <2> QED
    BY <1>2, <1>3, <2>1, <2>2 DEF CacheNear, OneBehind
<1>8. ASSUME NEW status \in {"Succeeded", "Failed"}, Ended(t, status)
      PROVE  Ended(t, status)'
  BY <1>6, <1>8 DEF Ended
<1>9. HandFits(t)'
  <2>1. Sure(t)' => /\ OneBehind(tr[t], trc.next)'
                    /\ trc'.next.phase = "Succeeded" => tr'[t].ref /\ trc'.next.ref
    BY <1>2, <1>4 DEF HandFits, OneBehind, Sure
  <2>2. /\ InHand(t)' /\ ~trc'.next.ref /\ trc'.next.retries = 1 => Ended(t, "Failed")'
        /\ InHand(t)' /\ trc'.next.phase = "Succeeded" /\ trc'.next.retries <= 1
              => Ended(t, "Succeeded")' /\ trc'.step = "update"
    BY <1>2, <1>4, <1>8 DEF HandFits
  <2> QED
    BY <1>2, <1>5, <2>1, <2>2 DEF HandFits
<1>10. FirstJob(t)'
  BY <1>2, <1>5, <1>6, <1>8 DEF FirstJob, Open
<1>11. SecondJob(t)'
  BY <1>2, <1>5, <1>6 DEF SecondJob, Open
<1>12. JobEarned(t)'
  BY <1>2, <1>5, <1>8 DEF JobEarned
<1> QED
  BY <1>7, <1>9, <1>10, <1>11, <1>12 DEF JobHolds

\* A call for the Job to be created or deleted.
LEMMA CallJob ==
    ASSUME TypeOK, NEW t \in Tasks, Exists(tr, t), JobHolds(t), ComingMove(t),
           tr'[t] = tr[t], trCache'[t] = trCache[t], childCache'[t] = childCache[t], Calls(t)
    PROVE  JobHolds(t)'
<1>1. /\ tr[t].retries \in Nat /\ trCache[t].retries \in Nat /\ trc.next.retries \in Nat
      /\ child[t] \in Children
      /\ trc \in [step : TrSteps, task : Tasks, next : TaskRuns]
  BY JobTypes
<1>2. CacheNear(t) /\ HandFits(t) /\ FirstJob(t) /\ SecondJob(t) /\ JobEarned(t)
  BY DEF JobHolds
<1>3. Expected(t)' /\ (TaskRunCacheCurrent(t) => TaskRunCacheCurrent(t)')
  BY <1>2, NoneDelivered
<1>4. /\ trc.task = t /\ trc'.task = t /\ trc'.next = trc.next /\ trc'.step = "update"
      /\ InHand(t) /\ (Sure(t)' => Sure(t)) /\ ~Creating(t)' /\ ~Deleting(t)'
  BY <1>1 DEF Calls, InHand, Sure, Creating, Deleting
<1>5. CacheNear(t)'
  BY <1>2, <1>3, <1>4 DEF CacheNear
<1>6. CASE trc.step = "createChild"
  <2>1. /\ Creating(t)
        /\ \/ child[t].status = "Absent" /\ child'[t].status = "Active"
              /\ child'[t].deleting = FALSE
           \/ child'[t] = child[t]
    BY <1>6 DEF Calls, Creating
  <2>2. trc.next.ref /\ trc.next.phase = "Running" /\ trCache[t].retries = tr[t].retries
    BY <1>2, <2>1 DEF HandFits
  <2>3. HandFits(t)'
    BY <1>2, <1>4, <2>2 DEF HandFits, OneBehind
  <2>4. FirstJob(t)'
    BY <1>2, <2>1, <2>2 DEF FirstJob, Open
  <2>5. SecondJob(t)'
    BY <1>2, <2>1 DEF SecondJob, Open
  <2>6. JobEarned(t)'
    BY <1>2, <2>1 DEF JobEarned
  <2> QED
    BY <1>5, <2>3, <2>4, <2>5, <2>6 DEF JobHolds
<1>7. CASE trc.step = "deleteChild"
  <2>1. /\ Deleting(t) /\ child'[t].status = child[t].status
        /\ child[t].status = "Absent" => child'[t] = child[t]
    BY <1>1, <1>7 DEF Calls, Deleting, Children
  <2>2. /\ ~trc.next.ref /\ trc.next.phase # "Succeeded" /\ trc.next.retries >= 1
        /\ ~trCache[t].ref => trc.next.retries = trCache[t].retries
    BY <1>2, <2>1 DEF HandFits
  <2>3. \A status : Ended(t, status) => Ended(t, status)'
    BY <2>1 DEF Ended
\* Only after the retry can the TaskRun be without a Job, and then that one failed.
  <2>4. ~trCache[t].ref => trCache[t].retries >= 1 /\ (trCache[t].retries = 1 => Ended(t, "Failed"))
    BY <1>2, <1>4, <2>2 DEF HandFits
  <2>5. HandFits(t)'
    BY <1>2, <1>4, <2>2, <2>3 DEF HandFits, OneBehind
  <2>6. FirstJob(t)'
    BY <1>1, <1>2, <1>4, <2>1, <2>3, <2>4 DEF FirstJob, Open
  <2>7. SecondJob(t)'
    BY <1>1, <1>2, <1>4, <2>1, <2>4 DEF SecondJob, Open, Ended
  <2>8. JobEarned(t)'
    BY <1>2, <1>4, <2>3 DEF JobEarned
  <2> QED
    BY <1>5, <2>5, <2>6, <2>7, <2>8 DEF JobHolds
<1> QED
  BY <1>6, <1>7 DEF Calls

\* A reconcile decides on what the caches show.
LEMMA BeginJob ==
    ASSUME TypeOK, TaskRunsHold, NEW t \in Tasks, Exists(tr, t), JobHolds(t), ComingMove(t),
           tr'[t] = tr[t], trCache'[t] = trCache[t], childCache'[t] = childCache[t], Begins(t)
    PROVE  JobHolds(t)'
<1>1. /\ tr[t].retries \in Nat /\ trCache[t].retries \in Nat
      /\ trCache[t] \in TaskRuns /\ trCache[t].ref \in BOOLEAN
  BY JobTypes
<1>2. CacheNear(t) /\ HandFits(t) /\ FirstJob(t) /\ SecondJob(t) /\ JobEarned(t)
  BY DEF JobHolds
<1>3. Expected(t)' /\ (TaskRunCacheCurrent(t) => TaskRunCacheCurrent(t)')
  BY <1>2, NoneDelivered
<1>4. /\ trCache[t].phase # "Absent" /\ OneBehind(trCache[t], tr[t])
      /\ trc.step = "idle" /\ trc'.task = t /\ child'[t] = child[t]
      /\ ~Creating(t) /\ ~Deleting(t)
  BY <1>2 DEF Begins, CacheNear, Creating, Deleting
<1>5. Sure(t)' => TaskRunCacheCurrent(t) /\ TaskRunCacheCurrent(t)' /\ trCache[t] = tr[t]
  BY <1>3, VersionCases DEF Sure, Begins, TaskRunsHold, CatchesUp, TaskRunCacheCurrent
<1>6. CacheNear(t)'
  BY <1>2, <1>3, <1>4, <1>5 DEF CacheNear, OneBehind
<1>7. JobEarned(t)' /\ FirstJob(t)' /\ SecondJob(t)'
  <2>1. Creating(t)' => ~trCache[t].ref
    BY DEF Begins, Creating
  <2> QED
    BY <1>2, <1>4, <2>1 DEF JobEarned, FirstJob, SecondJob, Open, Ended
<1>8. CASE trc'.step = "createChild"
  <2>1. ~trCache[t].ref /\ trc'.next = [trCache[t] EXCEPT !.phase = "Running", !.ref = TRUE]
    BY <1>8 DEF Begins
  <2>2. trc'.next.ref /\ trc'.next.retries = trCache[t].retries /\ trc'.next.phase = "Running"
    BY <1>1, <2>1 DEF TaskRuns
  <2>3. trCache[t].retries = tr[t].retries
    BY <1>1, <1>4, <2>1 DEF OneBehind
  <2>4. HandFits(t)'
    BY <1>4, <1>8, <2>2, <2>3 DEF HandFits, OneBehind, Deleting
  <2> QED
    BY <1>6, <1>7, <2>4 DEF JobHolds
<1>9. CASE trc'.step = "deleteChild"
  <2>1. /\ trCache[t].ref /\ childCache[t].status = "Failed" /\ trCache[t].phase # "Succeeded"
        /\ trc'.next = [trCache[t] EXCEPT !.retries = @ + 1, !.ref = FALSE]
    BY <1>9 DEF Begins
  <2>2. /\ ~trc'.next.ref /\ trc'.next.retries = trCache[t].retries + 1
        /\ trc'.next.phase = trCache[t].phase
    BY <1>1, <2>1 DEF TaskRuns
  <2>3. trCache[t].retries = 0 => Ended(t, "Failed")'
    BY <1>2, <1>4, <2>1 DEF FirstJob, Ended
  <2>4. Sure(t)' => OneBehind(tr[t], trc.next)'
    BY <1>5, <2>1, <2>2 DEF OneBehind
  <2>5. HandFits(t)'
    BY <1>1, <1>4, <1>9, <2>1, <2>2, <2>3, <2>4 DEF HandFits, Creating
  <2> QED
    BY <1>6, <1>7, <2>5 DEF JobHolds
<1>10. CASE trc'.step = "update"
  <2>1. trCache[t].ref /\ trCache[t].phase # "Succeeded"
    BY <1>10 DEF Begins
  <2>2. PICK phase \in {childCache[t].status, trCache[t].phase} :
           trc'.next = [trCache[t] EXCEPT !.phase = phase]
    BY <1>10 DEF Begins
  <2>3. trc'.next.ref /\ trc'.next.retries = trCache[t].retries /\ trc'.next.phase = phase
    BY <1>1, <2>1, <2>2 DEF TaskRuns
  <2>4. phase = "Succeeded" /\ trCache[t].retries <= 1 => Ended(t, "Succeeded")'
    BY <1>2, <1>4, <2>1, <2>2 DEF SecondJob, Ended
  <2>5. Sure(t)' => OneBehind(tr[t], trc.next)' /\ tr'[t].ref
    BY <1>5, <2>1, <2>3 DEF OneBehind
  <2>6. HandFits(t)'
    BY <1>10, <2>3, <2>4, <2>5 DEF HandFits, Creating, Deleting
  <2> QED
    BY <1>6, <1>7, <2>6 DEF JobHolds
<1> QED
  BY <1>8, <1>9, <1>10 DEF Begins

\* A reconcile writes the TaskRun: its copy was current, so the cache is not further behind
\* than by this write.
LEMMA WriteJob ==
    ASSUME TypeOK, TaskRunsHold, NEW t \in Tasks, Exists(tr, t), JobHolds(t), ComingMove(t),
           Sure(t), tr'[t] = trc.next, tr'[t] # tr[t], ~InHand(t)',
           child'[t] = child[t], childCache'[t] = childCache[t]
    PROVE  JobHolds(t)'
<1>1. /\ tr[t].retries \in Nat /\ trc.next.retries \in Nat
      /\ tr[t].phase # "Absent"
  BY JobTypes DEF Exists
<1>2. CacheNear(t) /\ HandFits(t) /\ FirstJob(t) /\ SecondJob(t) /\ JobEarned(t)
  BY DEF JobHolds
<1>3. TaskRunCacheCurrent(t) /\ trCache[t] = tr[t]
  BY <1>2 DEF CacheNear, TaskRunsHold, CatchesUp, TaskRunCacheCurrent
<1>4. trCache'[t] = tr[t] /\ Expected(t)'
  BY <1>3 DEF ComingMove
<1>5. InHand(t) /\ ~Creating(t)' /\ ~Deleting(t)' /\ ~Sure(t)'
  BY DEF Sure, InHand, Creating, Deleting
<1>6. /\ OneBehind(tr[t], trc.next)
      /\ trc.next.phase = "Succeeded" => tr[t].ref /\ trc.next.ref
  BY <1>2 DEF HandFits
<1>7. \A status : Ended(t, status)' <=> Ended(t, status)
  BY DEF Ended
<1>8. CacheNear(t)'
  BY <1>1, <1>4, <1>5, <1>6 DEF CacheNear, OneBehind
<1>9. HandFits(t)'
  BY <1>5 DEF HandFits
<1>10. FirstJob(t)'
  <2>1. tr[t].retries = 0 /\ trc.next.retries = 1 => Ended(t, "Failed")
    BY <1>2, <1>5, <1>6 DEF HandFits, OneBehind
  <2>2. Open(t)' => Open(t)
    BY <1>3, <1>4, <1>5 DEF Open
  <2> QED
    BY <1>2, <1>3, <1>4, <1>7, <2>1, <2>2 DEF FirstJob
<1>11. SecondJob(t)'
  BY <1>2, <1>3, <1>4, <1>5 DEF SecondJob, Open
<1>12. JobEarned(t)'
  <2>1. SUFFICES ASSUME trc.next.phase = "Succeeded", trc.next.retries <= 1
                 PROVE  tr[t].ref /\ tr[t].retries = trc.next.retries /\ Ended(t, "Succeeded")
    BY <1>4, <1>5, <1>7 DEF JobEarned
  <2> QED
    BY <1>2, <1>5, <1>6, <2>1 DEF HandFits, OneBehind
<1> QED
  BY <1>8, <1>9, <1>10, <1>11, <1>12 DEF JobHolds

\* The Hub decides on the task: the cache was not behind, and the reconcile in hand, if there
\* is one, can write the TaskRun no more.
LEMMA DecideJob ==
    ASSUME TypeOK, TaskRunsHold, NEW t \in Tasks, JobHolds(t), ComingMove(t), HubDecides(t),
           Signed(t, tr[t]) => Signed(t, tr'[t]),
           child'[t] = child[t], childCache'[t] = childCache[t]
    PROVE  JobHolds(t)'
<1>1. /\ tr[t].retries \in Nat /\ tr[t].ref \in BOOLEAN
      /\ tr'[t].ref = tr[t].ref /\ tr'[t].retries = tr[t].retries
      /\ tr[t].phase # "Absent" /\ trc' = trc /\ ~Sure(t)'
  BY JobTypes DEF HubDecides, Exists
<1>2. CacheNear(t) /\ HandFits(t) /\ FirstJob(t) /\ SecondJob(t) /\ JobEarned(t)
  BY DEF JobHolds
<1>3. trCache[t] = tr[t]
  BY DEF HubDecides, TaskRunsHold, CatchesUp, TaskRunCacheCurrent
<1>4. trCache'[t] = tr[t] /\ Expected(t)'
  BY <1>3 DEF HubDecides, ComingMove
<1>5. /\ InHand(t)' <=> InHand(t)
      /\ Creating(t)' <=> Creating(t)
      /\ Deleting(t)' <=> Deleting(t)
  BY <1>1 DEF InHand, Creating, Deleting
<1>6. \A status : Ended(t, status)' <=> Ended(t, status)
  BY DEF Ended
<1>7. CacheNear(t)'
  BY <1>1, <1>4 DEF CacheNear, OneBehind
<1>8. HandFits(t)'
  BY <1>1, <1>2, <1>3, <1>4, <1>5, <1>6 DEF HandFits
<1>9. FirstJob(t)'
  BY <1>1, <1>2, <1>3, <1>4, <1>5, <1>6 DEF FirstJob, Open
<1>10. SecondJob(t)'
  BY <1>2, <1>3, <1>4, <1>5 DEF SecondJob, Open
<1>11. JobEarned(t)'
  <2>1. SUFFICES ASSUME tr'[t].phase = "Succeeded", tr'[t].retries <= 1, ~Signed(t, tr'[t])
                 PROVE  tr[t].ref /\ ~Creating(t) /\ Ended(t, "Succeeded")
    BY <1>1, <1>4, <1>5, <1>6 DEF JobEarned
  <2>2. tr[t].phase = "Succeeded" /\ ~Signed(t, tr[t])
    BY <2>1 DEF HubDecides
  <2> QED
    BY <1>1, <1>2, <1>3, <2>1, <2>2 DEF JobEarned
<1> QED
  BY <1>7, <1>8, <1>9, <1>10, <1>11 DEF JobHolds

\* The TaskRun is created: there is no Job, and no reconcile knows of it.
LEMMA NewJob ==
    ASSUME TypeOK, TaskRunsHold, JobsOfThisOne, NEW t \in Tasks, Type[t] = "Job",
           ~Exists(tr, t), births[t] = 0, tr'[t] = NewTaskRun(t), HandStays(t), ComingMove(t),
           child'[t] = child[t], childCache'[t] = childCache[t]
    PROVE  JobHolds(t)'
<1>1. /\ tr'[t].phase = "" /\ tr'[t].retries = 0 /\ tr'[t] # tr[t]
  BY DEF NewTaskRun, NoTaskRun, Exists
<1>2. /\ child[t].status = "Absent" /\ childCache[t].status = "Absent"
      /\ TaskRunCacheCurrent(t)
  BY DEF JobsOfThisOne
<1>3. trCache'[t] = trCache[t] /\ Expected(t)'
  BY <1>1, <1>2 DEF ComingMove
<1>4. trCache[t].phase = "Absent" /\ trCache[t] = NoTaskRun
  <2>1. trCache[t] \in Versions(t)
    BY VersionCases
  <2>2. ~(trCache[t].uid \in 1..births[t])
    OBVIOUS
  <2> QED
    BY <2>1, <2>2 DEF TaskRunsHold, Sound, NoTaskRun
<1>5. ~InHand(t)'
  <2>1. SUFFICES ASSUME InHand(t) PROVE FALSE
    BY DEF HandStays, InHand
  <2>2. trc.next.phase # "Absent" /\ Sound(t, births[t], trc.next)
    BY <2>1 DEF InHand, TaskRunsHold, TaskRunCopyHolds
  <2>3. ~(trc.next.uid \in 1..births[t])
    OBVIOUS
  <2> QED
    BY <2>2, <2>3 DEF Sound
<1>6. ~Creating(t)' /\ ~Deleting(t)' /\ ~Sure(t)'
  BY <1>5 DEF Sure, InHand, Creating, Deleting
<1>7. CacheNear(t)'
  BY <1>1, <1>2, <1>3, <1>4, <1>5, <1>6 DEF CacheNear
<1>8. HandFits(t)'
  BY <1>5, <1>6 DEF HandFits
<1>9. FirstJob(t)'
  BY <1>2 DEF FirstJob, Ended
<1>10. SecondJob(t)'
  BY <1>1, <1>2 DEF SecondJob
<1>11. JobEarned(t)'
  BY <1>1, <1>2 DEF JobEarned
<1> QED
  BY <1>7, <1>8, <1>9, <1>10, <1>11 DEF JobHolds

\* The Jobs stay those of the one TaskRun that was created.
LEMMA JobsOfThisOneStep ==
    ASSUME TypeOK, TypeOK', TaskRunsHold, TaskRunsHold', StartedOnce', JobsOfThisOne,
           \A t \in Tasks : /\ TaskRunMove(t)
                            /\ Type[t] = "Job" => JobTaskMove(t) /\ ComingMove(t)
    PROVE  JobsOfThisOne'
<1>1. SUFFICES ASSUME NEW t \in Tasks, Type[t] = "Job"
               PROVE  /\ childCache'[t].status # "Absent" => births'[t] = 1
                      /\ child'[t].status # "Absent" => births'[t] = 1 /\ child'[t].owner = 1
                      /\ births'[t] = 0 => TaskRunCacheCurrent(t)'
  BY DEF JobsOfThisOne
<1>2. /\ births[t] \in Nat /\ births'[t] \in Nat /\ births'[t] <= 1
      /\ births'[t] = births[t] \/ births'[t] = births[t] + 1
      /\ child[t] \in Children
      /\ trc \in [step : TrSteps, task : Tasks, next : TaskRuns]
  BY JobTypes DEF TypeOK, ClusterTypeOK, StartedOnce, TaskRunMove
<1>3. TaskRunMove(t) /\ ComingMove(t) /\ JobTaskMove(t)
  BY <1>1
<1>4. InHand(t) => trc.next.uid \in 1..births[t]
  BY DEF InHand, TaskRunsHold, TaskRunCopyHolds, Sound
<1>5. CASE births[t] = 0
  <2>1. /\ child[t].status = "Absent" /\ childCache[t].status = "Absent"
        /\ TaskRunCacheCurrent(t)
    BY <1>1, <1>5 DEF JobsOfThisOne
  <2>2. ~InHand(t)
    BY <1>4, <1>5
  <2>3. ~Calls(t) /\ ~(child[t].status = "Active") /\ ~Doomed(t)
    BY <2>1, <2>2 DEF Calls, InHand, Doomed
  <2>4. child'[t] = child[t] /\ childCache'[t].status = "Absent"
    BY <1>3, <2>1, <2>3 DEF JobTaskMove, JobMoves, Begins
  <2>5. ASSUME births'[t] = 0 PROVE TaskRunCacheCurrent(t)'
    <3>1. tr[t] = NoTaskRun /\ tr'[t] = NoTaskRun
      <4>1. tr[t] \in Versions(t) /\ tr'[t] \in Versions(t)'
        BY DEF Versions
      <4>2. Sound(t, births[t], tr[t]) /\ Sound(t, births'[t], tr'[t])
        BY <4>1 DEF TaskRunsHold
      <4>3. ~(tr[t].uid \in 1..births[t]) /\ ~(tr'[t].uid \in 1..births'[t])
        BY <1>5, <2>5
      <4> QED
        BY <4>2, <4>3 DEF Sound
    <3> QED
      BY <1>3, <2>1, <3>1 DEF ComingMove
  <2> QED
    BY <2>1, <2>4, <2>5
<1>6. CASE births[t] = 1
  <2>1. births'[t] = 1
    BY <1>2, <1>6
  <2>2. child[t].status # "Absent" => child[t].owner = 1
    BY <1>1 DEF JobsOfThisOne
  <2>3. InHand(t) => trc.next.uid = 1
    BY <1>4, <1>6
  <2>4. CASE child'[t] = child[t]
    BY <2>1, <2>2, <2>4
  <2>5. CASE JobMoves(t)
    BY <1>2, <2>1, <2>2, <2>5 DEF JobMoves, Children, NoChild
  <2>6. CASE Calls(t)
    BY <1>2, <2>1, <2>2, <2>3, <2>6 DEF Calls, Children, InHand
  <2> QED
    BY <1>3, <2>4, <2>5, <2>6 DEF JobTaskMove, Begins
<1> QED
  BY <1>2, <1>5, <1>6

\* What a step does to the Job of a task whose TaskRun is there afterwards.
LEMMA StepJob ==
    ASSUME TypeOK, TaskRunsHold, JobsOfThisOne, NEW t \in Tasks, Type[t] = "Job",
           Exists(tr, t) => JobHolds(t), Exists(tr', t), rerun.step = "idle",
           JobTaskMove(t), ComingMove(t), TaskRunMove(t)
    PROVE  JobHolds(t)'
<1>1. Exists(tr, t) /\ child[t].status # "Absent" => child[t].owner = tr[t].uid
  BY DEF JobsOfThisOne, TaskRunsHold
<1>2. CASE ~Exists(tr, t)
  <2>1. JobTaskWrite(t) /\ child'[t] = child[t] /\ childCache'[t] = childCache[t]
    BY <1>2 DEF JobTaskMove, Exists
  <2>2. ~Sure(t)
    BY <1>2 DEF Sure, InHand, TaskRunsHold, TaskRunCopyHolds
  <2>3. births[t] = 0 /\ tr'[t] = NewTaskRun(t) /\ HandStays(t)
    BY <1>2, <2>1, <2>2 DEF JobTaskWrite, HubDecides, Exists, NoTaskRun
  <2> QED
    BY <1>2, <2>1, <2>3, NewJob
<1>3. CASE Exists(tr, t) /\ tr'[t] = tr[t] /\ child'[t] = child[t]
           /\ childCache'[t] \in {childCache[t], child[t]} /\ HandStays(t)
  BY <1>3, DeliverJob
<1>4. CASE Exists(tr, t) /\ tr'[t] = tr[t] /\ trCache'[t] = trCache[t]
           /\ childCache'[t] = childCache[t] /\ (JobMoves(t) \/ Calls(t) \/ Begins(t))
  BY <1>1, <1>4, EndJob, CallJob, BeginJob
<1>5. CASE Exists(tr, t) /\ child'[t] = child[t] /\ childCache'[t] = childCache[t]
           /\ JobTaskWrite(t)
  <2>1. CASE Sure(t) /\ tr'[t] = trc.next /\ ~InHand(t)'
    <3>1. HandStays(t)
      BY <2>1 DEF HandStays
    <3> QED
      BY <1>3, <1>5, <2>1, <3>1, WriteJob
  <2>2. CASE HubDecides(t)
    <3>1. Signed(t, tr[t]) => Signed(t, tr'[t])
      <4>1. tr'[t] # tr[t] /\ Exists(tr, t) /\ tr'[t] # NoTaskRun
        BY <2>2 DEF HubDecides, Exists, NoTaskRun
      <4>2. Follows(t, tr[t], tr'[t])
        BY <4>1 DEF TaskRunMove, Resets
      <4> QED
        BY <4>2 DEF Follows
    <3> QED
      BY <1>5, <2>2, <3>1, DecideJob
  <2> QED
    BY <1>5, <2>1, <2>2 DEF JobTaskWrite, Exists, NoTaskRun
<1> QED
  BY <1>2, <1>3, <1>4, <1>5 DEF JobTaskMove
-----------------------------------------------------------------------------
(* The theorem. *)

LEMMA InitJobsHold == Init => JobsHold
<1> SUFFICES ASSUME Init PROVE JobsHold
  OBVIOUS
<1>1. /\ pr = NoPipelineRun /\ prCache = NoPipelineRun /\ prWatch = << >> /\ trWatch = << >>
      /\ tr = [t \in Tasks |-> NoTaskRun] /\ births = [t \in Tasks |-> 0]
      /\ child = [t \in Tasks |-> NoChild] /\ childCache = [t \in Tasks |-> NoChild]
      /\ prc.step = "idle"
  BY DEF Init, ClusterInit, PrcInit, PrIdle
<1>2. Len(prWatch) = 0 /\ Len(trWatch) = 0
  <2>1. Len(<< >>) = 0
    OBVIOUS
  <2> QED
    BY <1>1, <2>1, Zenon
<1>3. ~Ending
  BY <1>1 DEF Ending, NoPipelineRun
<1>4. \A t \in Tasks : /\ ~Exists(tr, t) /\ births[t] = 0
                       /\ child[t].status = "Absent" /\ childCache[t].status = "Absent"
  BY <1>1 DEF Exists, NoTaskRun, NoChild
<1>5. \A t \in Tasks : TaskRunCacheCurrent(t)
  BY <1>2 DEF TaskRunCacheCurrent
<1>6. StartedOnce
  BY <1>1, <1>3, <1>4 DEF StartedOnce
<1>7. JobsOfThisOne
  BY <1>4, <1>5 DEF JobsOfThisOne
<1> QED
  BY <1>4, <1>6, <1>7 DEF JobsHold

LEMMA StepJobsHold ==
    ASSUME TypeOK, TypeOK', CopiesHold, TaskRunsHold, RunHolds, RunHolds', JobsHold, [Next]_vars
    PROVE  JobsHold'
<1> SUFFICES ASSUME reruns' = 0
             PROVE  /\ StartedOnce'
                    /\ JobsOfThisOne'
                    /\ \A t \in Tasks : Type[t] = "Job" /\ Exists(tr', t) => JobHolds(t)'
  BY DEF JobsHold, Exists
<1>1. reruns = 0
  BY NoRerunBegins DEF RunHolds, RunFactsHold
<1>2. /\ RunFactsHold /\ RunFactsHold' /\ rerun.step = "idle"
      /\ StartedOnce /\ JobsOfThisOne
      /\ \A t \in Tasks : Type[t] = "Job" /\ Exists(tr, t) => JobHolds(t)
  BY <1>1 DEF RunHolds, JobsHold, RunFactsHold
<1>3. StartedOnce'
  BY <1>2, StepStartedOnce
<1>4. TaskRunsHold' /\ \A t \in Tasks : TaskRunMove(t)
  BY StepTaskRuns
<1>5. \A t \in Tasks : Type[t] = "Job" => JobTaskMove(t) /\ ComingMove(t)
  BY <1>1, <1>2, StepComing, StepJobTask
<1>6. JobsOfThisOne'
  BY <1>2, <1>3, <1>4, <1>5, JobsOfThisOneStep
<1>7. ASSUME NEW t \in Tasks, Type[t] = "Job", Exists(tr', t) PROVE JobHolds(t)'
  BY <1>2, <1>4, <1>5, <1>7, StepJob
<1> QED
  BY <1>3, <1>6, <1>7

\* Until something is rerun, a Job task that succeeded, up to its first retry, did so by the
\* Job that bears its name, however old the Job and the TaskRun were that reconcileJob read,
\* and whatever the Hub decided on the task, unless its approvals made it succeed.
THEOREM JobSuccessIsEarned == Spec => []SuccessIsEarned
<1>1. TypeOK /\ CopiesHold /\ TaskRunsHold /\ RunHolds /\ JobsHold /\ [Next]_vars
         /\ TypeOK' /\ RunHolds' => JobsHold'
  BY StepJobsHold
<1>2. JobsHold => SuccessIsEarned
  <2>1. SUFFICES ASSUME JobsHold, reruns = 0, NEW t \in Tasks, Type[t] = "Job",
                        tr[t].phase = "Succeeded", tr[t].retries <= 1, ~Signed(t, tr[t]),
                        child[t].status # "Absent"
                 PROVE  child[t].status = "Succeeded"
    BY DEF SuccessIsEarned, SignedOff, Signed
  <2>2. JobEarned(t)
    BY <2>1 DEF JobsHold, JobHolds, Exists
  <2> QED
    BY <2>1, <2>2 DEF JobEarned, Ended
<1> QED
  BY <1>1, <1>2, InitJobsHold, TypeCorrect, CopiesAreCurrent, TaskRunsAreSound, RunsHold, PTL
     DEF Spec
=============================================================================
