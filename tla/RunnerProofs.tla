---------------------------- MODULE RunnerProofs ----------------------------
(***************************************************************************)
(* Proofs about Runner, for every pipeline, every number of approvers and  *)
(* every bound: type correctness, that the runner implements RunLifecycle, *)
(* and that a Cancelled run schedules nothing more.                        *)
(***************************************************************************)
EXTENDS Runner, SequenceTheorems, TLAPS

\* A write of the PipelineRun by any client leaves it well typed.
LEMMA PutPipelineRunType ==
    ASSUME pr \in PipelineRuns, prWatch \in Seq(PipelineRuns), prCurrent \in SUBSET Clients,
           NEW obj \in PipelineRuns, NEW client, PutPipelineRun(obj, client)
    PROVE  /\ pr' \in PipelineRuns
           /\ prWatch' \in Seq(PipelineRuns)
           /\ prCurrent' \in SUBSET Clients
<1>1. CASE obj = pr
  BY <1>1 DEF PutPipelineRun
<1>2. CASE obj # pr
  BY <1>2 DEF PutPipelineRun
<1> QED
  BY <1>1, <1>2

\* The same for the TaskRuns.
LEMMA PutTaskRunType ==
    ASSUME tr \in [Tasks -> TaskRuns], trWatch \in Seq([task : Tasks, obj : TaskRuns]),
           trCurrent \in [Tasks -> SUBSET Clients],
           NEW t \in Tasks, NEW obj \in TaskRuns, NEW client, PutTaskRun(t, obj, client)
    PROVE  /\ tr' \in [Tasks -> TaskRuns]
           /\ trWatch' \in Seq([task : Tasks, obj : TaskRuns])
           /\ trCurrent' \in [Tasks -> SUBSET Clients]
<1>1. CASE obj = tr[t]
  BY <1>1 DEF PutTaskRun
<1>2. CASE obj # tr[t]
  <2>1. tr' \in [Tasks -> TaskRuns] /\ trCurrent' \in [Tasks -> SUBSET Clients]
    BY <1>2 DEF PutTaskRun
  <2>2. [task |-> t, obj |-> obj] \in [task : Tasks, obj : TaskRuns]
    OBVIOUS
  <2>3. trWatch' = Append(trWatch, [task |-> t, obj |-> obj])
    BY <1>2 DEF PutTaskRun
  <2> QED
    BY <2>1, <2>2, <2>3, AppendProperties
<1> QED
  BY <1>1, <1>2

\* A new version that differs in nothing that is kept.
LEMMA RestampTaskRunType ==
    ASSUME tr \in [Tasks -> TaskRuns], trWatch \in Seq([task : Tasks, obj : TaskRuns]),
           trCurrent \in [Tasks -> SUBSET Clients], NEW t \in Tasks, RestampTaskRun(t)
    PROVE  /\ tr' \in [Tasks -> TaskRuns]
           /\ trWatch' \in Seq([task : Tasks, obj : TaskRuns])
           /\ trCurrent' \in [Tasks -> SUBSET Clients]
<1>1. [task |-> t, obj |-> tr[t]] \in [task : Tasks, obj : TaskRuns]
  OBVIOUS
<1> QED
  BY <1>1, AppendProperties DEF RestampTaskRun

\* The records the clients write.
LEMMA RecordTypes ==
    /\ NoPipelineRun \in PipelineRuns
    /\ NoTaskRun \in TaskRuns
    /\ NoChild \in Children
BY DEF NoPipelineRun, NoTaskRun, NoChild, PipelineRuns, TaskRuns, Children, NoTasks,
       PipelineRunPhases, TaskRunPhases, SummaryPhases

\* What is read from the cache of a well-typed cluster.
LEMMA ReadTypes ==
    ASSUME ClusterTypeOK, NEW client \in Clients
    PROVE  /\ ReadPipelineRun(client) \in SUBSET Clients
           /\ \A t \in Tasks : ReadTaskRun(client, t) \in [Tasks -> SUBSET Clients]
BY DEF ClusterTypeOK, ReadPipelineRun, ReadTaskRun

LEMMA InitType == Init => TypeOK
<1> USE DagAssumption, BoundsAssumption, DispatchAssumption, RecordTypes
<1> SUFFICES ASSUME Init PROVE TypeOK
  OBVIOUS
<1>1. ClusterTypeOK
  <2>1. << >> \in Seq(PipelineRuns) /\ << >> \in Seq([task : Tasks, obj : TaskRuns])
    BY EmptySeq
  <2> QED
    BY <2>1 DEF Init, ClusterInit, ClusterTypeOK
<1>2. PrcTypeOK
  BY DEF Init, PrcInit, PrcTypeOK, PrIdle, PrSteps
<1>3. TrcTypeOK
  BY DEF Init, TrcInit, TrcTypeOK, TrIdle, TrSteps
<1>4. DispatchTypeOK
  BY DEF Init, DispatchInit, DispatchTypeOK, RerunIdle, RerunSteps
<1> QED
  BY <1>1, <1>2, <1>3, <1>4 DEF TypeOK, Init

LEMMA ClusterType == TypeOK /\ ClusterStep => TypeOK'
<1> SUFFICES ASSUME TypeOK, ClusterStep PROVE TypeOK'
  OBVIOUS
<1> USE DEF TypeOK
<1>1. PrcTypeOK' /\ TrcTypeOK' /\ DispatchTypeOK' /\ (faults \in 0..MaxFaults)'
  BY DEF ClusterStep, local, dispatchVars, PrcTypeOK, TrcTypeOK, DispatchTypeOK
<1> SUFFICES ClusterTypeOK'
  BY <1>1
<1>2. CASE SyncPipelineRun
  <2>1. Head(prWatch) \in PipelineRuns /\ Tail(prWatch) \in Seq(PipelineRuns)
    BY <1>2, HeadTailProperties DEF SyncPipelineRun, ClusterTypeOK
  <2>2. prCache' \in PipelineRuns /\ prWatch' \in Seq(PipelineRuns) /\ prQueued' \in BOOLEAN
    BY <1>2, <2>1 DEF SyncPipelineRun
  <2>3. UNCHANGED <<pr, tr, child, births, trCache, childCache, trWatch, trQueued,
                    prCurrent, trCurrent>>
    BY <1>2 DEF SyncPipelineRun, objects, versions
  <2> QED
    BY <2>2, <2>3 DEF ClusterTypeOK
<1>3. CASE SyncTaskRun
  <2> DEFINE Events == [task : Tasks, obj : TaskRuns]
  <2>1. trWatch \in Seq(Events) /\ trWatch # << >>
    BY <1>3 DEF SyncTaskRun, ClusterTypeOK
  <2>2. Head(trWatch) \in Events /\ Tail(trWatch) \in Seq(Events)
    <3> HIDE DEF Events
    <3> QED
      BY <2>1, HeadTailProperties
  <2>3. Head(trWatch).task \in Tasks /\ Head(trWatch).obj \in TaskRuns
    BY <2>2
  <2>4. trCache' \in [Tasks -> TaskRuns] /\ trQueued' \in SUBSET Tasks
    BY <1>3, <2>3 DEF SyncTaskRun, ClusterTypeOK
  <2>5. prQueued' \in BOOLEAN /\ trWatch' \in Seq(Events)
    BY <1>3, <2>2 DEF SyncTaskRun
  <2>6. UNCHANGED <<pr, tr, child, births, prCache, childCache, prWatch, prCurrent, trCurrent>>
    BY <1>3 DEF SyncTaskRun, objects, versions
  <2> QED
    BY <2>4, <2>5, <2>6 DEF ClusterTypeOK
<1>4. ASSUME NEW t \in Tasks, SyncChild(t) PROVE ClusterTypeOK'
  BY <1>4 DEF SyncChild, ClusterTypeOK, objects, watches, versions
<1>5. ASSUME NEW t \in Tasks, ChildProgress(t) PROVE ClusterTypeOK'
  <2>1. PICK status \in {"Active", "Succeeded", "Failed"} :
            child' = [child EXCEPT ![t].status = status]
    BY <1>5 DEF ChildProgress
  <2>2. child \in [Tasks -> Children]
    BY DEF ClusterTypeOK
  <2>3. [child[t] EXCEPT !.status = status] \in Children
    BY <2>2 DEF Children
  <2>4. child' = [child EXCEPT ![t] = [child[t] EXCEPT !.status = status]]
    BY <2>1
  <2>5. child' \in [Tasks -> Children]
    BY <2>2, <2>3, <2>4
  <2> QED
    BY <1>5, <2>5 DEF ChildProgress, ClusterTypeOK, caches, watches, queues, versions
<1>6. ASSUME NEW t \in Tasks, CollectGarbage(t) PROVE ClusterTypeOK'
  BY <1>6, RecordTypes DEF CollectGarbage, ClusterTypeOK, caches, watches, queues, versions
<1> QED
  BY <1>1, <1>2, <1>3, <1>4, <1>5, <1>6 DEF ClusterStep, ClusterNext

\* What the status reports of the tasks is a summary.
LEMMA SummaryTypes ==
    ASSUME NEW existing \in [Tasks -> TaskRuns]
    PROVE  /\ SummarizeTasks(existing) \in [Tasks -> SummaryPhases]
           /\ CancelledTaskSummary(existing) \in [Tasks -> SummaryPhases]
           /\ FindPendingApproval(existing) \in SUBSET Tasks
           /\ FindRunnableTasks(existing) \in SUBSET Tasks
<1>1. \A t \in Tasks : Exists(existing, t) => existing[t].phase \in TaskRunPhases
  BY DEF TaskRuns, Exists
<1>2. SummarizeTasks(existing) \in [Tasks -> SummaryPhases]
  BY <1>1 DEF SummarizeTasks, SummaryPhases
<1>3. CancelledTaskSummary(existing) \in [Tasks -> SummaryPhases]
  <2>1. TerminalTaskPhases \cup {"Skipped", "Failed"} \subseteq SummaryPhases
    BY DEF TerminalTaskPhases, SummaryPhases, TaskRunPhases
  <2>2. ASSUME NEW t \in Tasks
        PROVE  (CASE ~Exists(existing, t) -> "Skipped"
                  [] existing[t].phase \in TerminalTaskPhases -> existing[t].phase
                  [] OTHER -> "Failed") \in SummaryPhases
    BY <2>1
  <2> QED
    BY <2>2 DEF CancelledTaskSummary
<1> QED
  BY <1>2, <1>3 DEF FindPendingApproval, FindRunnableTasks

\* A reconcile that begins to carry out a well-typed decision.
LEMMA PrStartType ==
    ASSUME ClusterTypeOK, NEW step \in PrSteps, NEW todo \in SUBSET Tasks,
           NEW next \in PipelineRuns, PrStart(step, todo, next)
    PROVE  ClusterTypeOK' /\ PrcTypeOK'
<1>1. prCurrent' \in SUBSET Clients
  BY ReadTypes DEF PrStart, Clients
<1>2. PrcTypeOK' /\ prQueued' \in BOOLEAN
  BY DEF PrStart, PrcTypeOK
<1>3. UNCHANGED <<pr, tr, child, births, prWatch, trWatch, prCache, trCache, childCache,
                  trQueued, trCurrent>>
  BY DEF PrStart, objects, caches, watches
<1> QED
  BY <1>1, <1>2, <1>3 DEF ClusterTypeOK

\* The decisions of a reconcile are well typed.
LEMMA ReconcileType ==
    ASSUME ClusterTypeOK, PrcTypeOK, Reconcile
    PROVE  ClusterTypeOK' /\ PrcTypeOK'
<1>1. prCache \in PipelineRuns /\ trCache \in [Tasks -> TaskRuns]
  BY DEF ClusterTypeOK
<1>2. /\ SummarizeTasks(trCache) \in [Tasks -> SummaryPhases]
      /\ CancelledTaskSummary(trCache) \in [Tasks -> SummaryPhases]
      /\ FindPendingApproval(trCache) \in SUBSET Tasks
      /\ FindRunnableTasks(trCache) \in SUBSET Tasks
  BY <1>1, SummaryTypes
<1>3. Refreshed \in PipelineRuns
  BY <1>1, <1>2 DEF Refreshed, PipelineRuns, PipelineRunPhases
<1>4. ASSUME NEW phase \in PipelineRunPhases, NEW approval \in SUBSET Tasks
      PROVE  [Refreshed EXCEPT !.phase = phase, !.approval = approval] \in PipelineRuns
  BY <1>3 DEF PipelineRuns
<1>5. CASE IgnoreRun
  BY <1>5 DEF IgnoreRun, ClusterTypeOK, PrcTypeOK, objects, caches, watches, versions
<1>6. CASE AwaitApproval
  <2>1. [Refreshed EXCEPT !.phase = "WaitingApproval",
                          !.approval = FindPendingApproval(trCache)] \in PipelineRuns
    BY <1>2, <1>4 DEF PipelineRunPhases
  <2> QED
    BY <1>6, <2>1, PrStartType DEF AwaitApproval, PrSteps
<1>7. CASE StopOnFailure
  <2>1. [Refreshed EXCEPT !.phase = "Failed"] \in PipelineRuns
    BY <1>3 DEF PipelineRuns, PipelineRunPhases
  <2> QED
    BY <1>7, <2>1, PrStartType DEF StopOnFailure, PrSteps
<1>8. CASE Advance
  <2> DEFINE runnable == FindRunnableTasks(trCache)
             phase == IF runnable # {} THEN "Running"
                      ELSE IF AllTasksSucceeded(trCache) THEN "Succeeded"
                      ELSE Refreshed.phase
  <2>1. PrStart(PrStep("create", runnable), runnable, [Refreshed EXCEPT !.phase = phase])
    BY <1>8 DEF Advance
  <2>2. [Refreshed EXCEPT !.phase = phase] \in PipelineRuns
    BY <1>3 DEF PipelineRuns, PipelineRunPhases
  <2>3. PrStep("create", runnable) \in PrSteps
    BY DEF PrStep, PrSteps
  <2> HIDE DEF runnable, phase
  <2>4. runnable \in SUBSET Tasks
    BY <1>2 DEF runnable
  <2> QED
    BY <2>1, <2>2, <2>3, <2>4, PrStartType
<1>9. CASE RefuseCancel
  BY <1>1, <1>9, PrStartType DEF RefuseCancel, PrSteps
<1>10. CASE BeginCancel
  <2> DEFINE existing == {t \in Tasks : Exists(trCache, t)}
             next == [prCache EXCEPT !.phase = "Cancelled", !.approval = {},
                                     !.tasks = CancelledTaskSummary(trCache)]
  <2>1. PrStart(PrStep("delete", existing), existing, next)
    BY <1>10 DEF BeginCancel
  <2>2. next \in PipelineRuns
    BY <1>1, <1>2 DEF PipelineRuns, PipelineRunPhases
  <2>3. PrStep("delete", existing) \in PrSteps /\ existing \in SUBSET Tasks
    BY DEF PrStep, PrSteps
  <2> QED
    BY <2>1, <2>2, <2>3, PrStartType
<1> QED
  BY <1>5, <1>6, <1>7, <1>8, <1>9, <1>10 DEF Reconcile

\* A new TaskRun, and its creation.
LEMMA CreateTaskRunType ==
    ASSUME ClusterTypeOK, NEW t \in Tasks, CreateTaskRun(t)
    PROVE  /\ tr' \in [Tasks -> TaskRuns]
           /\ trWatch' \in Seq([task : Tasks, obj : TaskRuns])
           /\ trCurrent' \in [Tasks -> SUBSET Clients]
           /\ births' \in [Tasks -> Nat]
<1>1. births[t] + 1 \in Nat
  <2>1. births[t] \in Nat
    BY DEF ClusterTypeOK
  <2> QED
    BY <2>1
<1>2. NewTaskRun(t) \in TaskRuns
  BY <1>1 DEF NewTaskRun, NoTaskRun, TaskRuns, TaskRunPhases
<1>3. CASE Exists(tr, t)
  BY <1>3 DEF CreateTaskRun, ClusterTypeOK, trVars
<1>4. CASE ~Exists(tr, t)
  <2>1. PutTaskRun(t, NewTaskRun(t), "") /\ births' = [births EXCEPT ![t] = @ + 1]
    BY <1>4 DEF CreateTaskRun
  <2>2. births' \in [Tasks -> Nat]
    BY <1>1, <2>1 DEF ClusterTypeOK
  <2> QED
    BY <1>2, <2>1, <2>2, PutTaskRunType DEF ClusterTypeOK
<1> QED
  BY <1>3, <1>4

\* A finished or failed reconcile is idle again.
LEMMA PrIdleType == PrIdle \in [step : PrSteps, todo : SUBSET Tasks, next : PipelineRuns]
BY RecordTypes DEF PrIdle, PrSteps

LEMMA PrAbortType ==
    ASSUME ClusterTypeOK, PrcTypeOK, PrAbort
    PROVE  ClusterTypeOK' /\ PrcTypeOK'
BY PrIdleType DEF PrAbort, ClusterTypeOK, PrcTypeOK, objects, caches, watches

LEMMA PipelineRunType == TypeOK /\ PipelineRunStep => TypeOK'
<1> SUFFICES ASSUME ClusterTypeOK, PrcTypeOK, PrcNext
             PROVE  ClusterTypeOK' /\ PrcTypeOK'
  BY DEF TypeOK, PipelineRunStep, TrcTypeOK, DispatchTypeOK, dispatchVars
<1>1. CASE Reconcile
  BY <1>1, ReconcileType
<1>2. ASSUME NEW t \in prc.todo, Done(t) PROVE PrcTypeOK'
  BY <1>2 DEF Done, PrStep, PrcTypeOK, PrSteps
<1>3. CASE CreateNext
  <2>1. PICK t \in prc.todo : CreateTaskRun(t) /\ Done(t)
    BY <1>3 DEF CreateNext
  <2>2. t \in Tasks
    BY DEF PrcTypeOK
  <2>3. UNCHANGED <<pr, child, prCache, trCache, childCache, prWatch, prQueued, trQueued,
                    prCurrent>>
    BY <1>3 DEF CreateNext, caches, queues
  <2> QED
    BY <1>2, <2>1, <2>2, <2>3, CreateTaskRunType DEF ClusterTypeOK
<1>4. CASE DeleteNext
  <2>1. PICK t \in prc.todo : PutTaskRun(t, NoTaskRun, "") /\ Done(t)
    BY <1>4 DEF DeleteNext, DeleteTaskRun
  <2>2. t \in Tasks
    BY DEF PrcTypeOK
  <2>3. UNCHANGED <<pr, child, births, prCache, trCache, childCache, prWatch, prQueued,
                    trQueued, prCurrent>>
    BY <1>4 DEF DeleteNext, caches, queues
  <2> QED
    BY <1>2, <2>1, <2>2, <2>3, RecordTypes, PutTaskRunType DEF ClusterTypeOK
<1>5. ASSUME NEW obj \in PipelineRuns, NEW client, PutPipelineRun(obj, client),
             prc' = PrIdle \/ prc' = [prc EXCEPT !.step = "clear"],
             UNCHANGED <<tr, child, births, caches, trWatch, queues, trCurrent>>
      PROVE  ClusterTypeOK' /\ PrcTypeOK'
  <2>1. PrcTypeOK'
    BY <1>5, PrIdleType DEF PrcTypeOK, PrSteps
  <2> QED
    BY <1>5, <2>1, PutPipelineRunType DEF ClusterTypeOK, caches, queues
<1>6. CASE UpdateStatus
  <2>1. prc.next \in PipelineRuns
    BY DEF PrcTypeOK
  <2>2. prc' = PrIdle \/ prc' = [prc EXCEPT !.step = "clear"]
    BY <1>6 DEF UpdateStatus
  <2> QED
    BY <1>5, <1>6, <2>1, <2>2 DEF UpdateStatus
<1>7. CASE StatusConflict
  BY <1>7, PrAbortType DEF StatusConflict
<1>8. CASE ClearCancel
  <2>1. [pr EXCEPT !.cancel = FALSE] \in PipelineRuns
    BY DEF ClusterTypeOK, PipelineRuns
  <2> QED
    BY <1>5, <1>8, <2>1 DEF ClearCancel
<1> QED
  BY <1>1, <1>3, <1>4, <1>6, <1>7, <1>8 DEF PrcNext

LEMMA TrIdleType == TrIdle \in [step : TrSteps, task : Tasks, next : TaskRuns]
BY RecordTypes, DagAssumption DEF TrIdle, TrSteps

LEMMA TrAbortType ==
    ASSUME ClusterTypeOK, TrcTypeOK, TrAbort
    PROVE  ClusterTypeOK' /\ TrcTypeOK'
<1>1. TrcTypeOK'
  BY TrIdleType DEF TrAbort, TrcTypeOK
<1>2. trc.task \in Tasks
  BY DEF TrcTypeOK
<1>3. trQueued' \in SUBSET Tasks /\ trCurrent' \in [Tasks -> SUBSET Clients]
  BY <1>2 DEF TrAbort, ClusterTypeOK
<1> QED
  BY <1>1, <1>3 DEF TrAbort, ClusterTypeOK, objects, caches, watches

\* A reconcile of a TaskRun that begins to carry out a well-typed decision.
LEMMA TrStartType ==
    ASSUME ClusterTypeOK, NEW t \in Tasks, NEW step \in TrSteps, NEW next \in TaskRuns,
           TrStart(t, step, next)
    PROVE  ClusterTypeOK' /\ TrcTypeOK'
<1>1. trCurrent' \in [Tasks -> SUBSET Clients]
  BY ReadTypes DEF TrStart, Clients
<1>2. TrcTypeOK' /\ trQueued' \in SUBSET Tasks
  BY DEF TrStart, TrcTypeOK, ClusterTypeOK
<1>3. UNCHANGED <<pr, tr, child, births, prWatch, trWatch, prCache, trCache, childCache,
                  prQueued, prCurrent>>
  BY DEF TrStart, objects, caches, watches
<1> QED
  BY <1>1, <1>2, <1>3 DEF ClusterTypeOK

\* The decisions of a reconcile are well typed.
LEMMA ReconcileTaskRunType ==
    ASSUME ClusterTypeOK, TrcTypeOK, NEW t \in Tasks, ReconcileTaskRun(t)
    PROVE  ClusterTypeOK' /\ TrcTypeOK'
<1>1. trCache[t] \in TaskRuns /\ childCache[t] \in Children
  BY DEF ClusterTypeOK
<1>2. CASE IgnoreTaskRun(t)
  BY <1>2 DEF IgnoreTaskRun, ClusterTypeOK, TrcTypeOK, objects, caches, watches, versions
<1>3. CASE PrepareApproval(t)
  <2>1. [trCache[t] EXCEPT !.phase = "Pending", !.asked = TRUE] \in TaskRuns
    BY <1>1 DEF TaskRuns, TaskRunPhases
  <2> QED
    BY <1>3, <2>1, TrStartType DEF PrepareApproval, TrSteps
<1>4. CASE StartChild(t)
  <2>1. [trCache[t] EXCEPT !.phase = "Running", !.ref = TRUE] \in TaskRuns
    BY <1>1 DEF TaskRuns, TaskRunPhases
  <2> QED
    BY <1>4, <2>1, TrStartType DEF StartChild, TrSteps
<1>5. CASE RetryJob(t)
  <2>1. trCache[t].retries + 1 \in Nat
    <3>1. trCache[t].retries \in Nat
      BY <1>1 DEF TaskRuns
    <3> QED
      BY <3>1
  <2>2. [trCache[t] EXCEPT !.retries = @ + 1, !.ref = FALSE] \in TaskRuns
    BY <1>1, <2>1 DEF TaskRuns
  <2> QED
    BY <1>5, <2>2, TrStartType DEF RetryJob, TrSteps
<1>6. CASE MirrorChild(t)
  <2> DEFINE outcome == IF Type[t] = "Job" THEN JobOutcome(t) ELSE RolloutOutcome(t)
  <2>1. TrStart(t, "update", [trCache[t] EXCEPT !.phase = outcome])
    BY <1>6 DEF MirrorChild
  <2>2. outcome \in TaskRunPhases \cup {"Absent"}
    BY <1>1 DEF JobOutcome, RolloutOutcome, TaskRuns, TaskRunPhases, Children
  <2> HIDE DEF outcome
  <2>3. [trCache[t] EXCEPT !.phase = outcome] \in TaskRuns
    BY <1>1, <2>2 DEF TaskRuns
  <2> QED
    BY <2>1, <2>3, TrStartType DEF TrSteps
<1> QED
  BY <1>2, <1>3, <1>4, <1>5, <1>6 DEF ReconcileTaskRun

\* Creating or deleting the child of a task.
LEMMA ChildType ==
    ASSUME ClusterTypeOK, NEW t \in Tasks,
           \/ \E owner \in Nat : CreateChild(t, owner)
           \/ DeleteChild(t)
    PROVE  child' \in [Tasks -> Children]
<1>1. child \in [Tasks -> Children]
  BY DEF ClusterTypeOK
<1>2. ASSUME NEW owner \in Nat, CreateChild(t, owner) PROVE child' \in [Tasks -> Children]
  <2>1. [status |-> "Active", owner |-> owner, deleting |-> FALSE] \in Children
    BY DEF Children
  <2> QED
    BY <1>1, <1>2, <2>1 DEF CreateChild
<1>3. ASSUME DeleteChild(t) PROVE child' \in [Tasks -> Children]
  <2>1. [child[t] EXCEPT !.deleting = TRUE] \in Children
    BY <1>1 DEF Children
  <2>2. \/ UNCHANGED child
        \/ child' = [child EXCEPT ![t] = NoChild]
        \/ child' = [child EXCEPT ![t] = [child[t] EXCEPT !.deleting = TRUE]]
    BY <1>3 DEF DeleteChild
  <2> QED
    BY <1>1, <2>1, <2>2, RecordTypes
<1> QED
  BY <1>2, <1>3

LEMMA TaskRunType == TypeOK /\ TaskRunStep => TypeOK'
<1> SUFFICES ASSUME ClusterTypeOK, TrcTypeOK, TrcNext
             PROVE  ClusterTypeOK' /\ TrcTypeOK'
  BY DEF TypeOK, TaskRunStep, PrcTypeOK, DispatchTypeOK, dispatchVars
<1>1. trc.task \in Tasks /\ trc.next \in TaskRuns
  BY DEF TrcTypeOK
<1>2. ASSUME NEW t \in Tasks, ReconcileTaskRun(t) PROVE ClusterTypeOK' /\ TrcTypeOK'
  BY <1>2, ReconcileTaskRunType
<1>3. CASE CreateOwnChild
  <2>1. trc.next.uid \in Nat
    BY <1>1 DEF TaskRuns
  <2>2. child' \in [Tasks -> Children]
    BY <1>1, <1>3, <2>1, ChildType DEF CreateOwnChild
  <2> QED
    BY <1>3, <2>2 DEF CreateOwnChild, ClusterTypeOK, TrcTypeOK, TrSteps, caches, watches,
                      queues, versions
<1>4. CASE DeleteOwnChild
  <2>1. child' \in [Tasks -> Children]
    BY <1>1, <1>4, ChildType DEF DeleteOwnChild
  <2> QED
    BY <1>4, <2>1 DEF DeleteOwnChild, ClusterTypeOK, TrcTypeOK, TrSteps, caches, watches,
                      queues, versions
<1>5. CASE UpdateTaskRun
  <2>1. TrcTypeOK'
    BY <1>5, TrIdleType DEF UpdateTaskRun, TrcTypeOK
  <2>2. /\ tr' \in [Tasks -> TaskRuns]
        /\ trWatch' \in Seq([task : Tasks, obj : TaskRuns])
        /\ trCurrent' \in [Tasks -> SUBSET Clients]
    <3>1. CASE PutTaskRun(trc.task, trc.next, "TaskRun")
      BY <1>1, <3>1, PutTaskRunType DEF ClusterTypeOK
    <3>2. CASE RestampTaskRun(trc.task)
      BY <1>1, <3>2, RestampTaskRunType DEF ClusterTypeOK
    <3> QED
      BY <1>5, <3>1, <3>2 DEF UpdateTaskRun, RestampOutcome
  <2>3. trQueued' \in SUBSET Tasks
    BY <1>1, <1>5 DEF UpdateTaskRun, ClusterTypeOK
  <2>4. UNCHANGED <<pr, child, births, prCache, trCache, childCache, prWatch, prQueued,
                    prCurrent>>
    BY <1>5 DEF UpdateTaskRun, caches
  <2> QED
    BY <2>1, <2>2, <2>3, <2>4 DEF ClusterTypeOK
<1>6. CASE TaskRunConflict
  BY <1>6, TrAbortType DEF TaskRunConflict
<1> QED
  BY <1>2, <1>3, <1>4, <1>5, <1>6 DEF TrcNext

RerunType == [step : RerunSteps, task : Tasks, failed : BOOLEAN, todo : SUBSET Tasks]

LEMMA RerunEndsType ==
    ASSUME DispatchTypeOK, RerunEnds
    PROVE  DispatchTypeOK'
BY DagAssumption DEF RerunEnds, RerunIdle, DispatchTypeOK, RerunSteps

LEMMA RerunAbortType ==
    ASSUME ClusterTypeOK, DispatchTypeOK, RerunAbort
    PROVE  ClusterTypeOK' /\ DispatchTypeOK'
<1>1. DispatchTypeOK'
  BY RerunEndsType DEF RerunAbort
<1>2. prCurrent' \in SUBSET Clients /\ trCurrent' \in [Tasks -> SUBSET Clients]
  BY DEF RerunAbort, ClusterTypeOK
<1> QED
  BY <1>1, <1>2 DEF RerunAbort, ClusterTypeOK, objects, caches, watches, queues

\* A step of a handler that only writes one TaskRun.
LEMMA WriteTaskRunType ==
    ASSUME ClusterTypeOK, NEW t \in Tasks, NEW obj \in TaskRuns, NEW client,
           PutTaskRun(t, obj, client), UNCHANGED <<prVars, child, births, caches, queues>>
    PROVE  ClusterTypeOK'
BY PutTaskRunType DEF ClusterTypeOK, prVars, caches, queues

\* A step of a handler that only writes the PipelineRun.
LEMMA WritePipelineRunType ==
    ASSUME ClusterTypeOK, NEW obj \in PipelineRuns, NEW client,
           PutPipelineRun(obj, client), UNCHANGED <<trVars, child, births, caches, queues>>
    PROVE  ClusterTypeOK'
BY PutPipelineRunType DEF ClusterTypeOK, trVars, caches, queues

LEMMA RerunStepType ==
    ASSUME ClusterTypeOK, DispatchTypeOK,
           \/ \E t \in Tasks : BeginRerun(t)
           \/ RerunDeleteChild
           \/ RerunReset
           \/ RerunDeleteDownstream
           \/ Revive
           \/ NothingToRevive
           \/ RerunConflict
    PROVE  ClusterTypeOK' /\ DispatchTypeOK'
<1>1. rerun \in RerunType /\ reruns \in 0..MaxReruns
  BY DEF DispatchTypeOK, RerunType
<1>2. ASSUME NEW step \in RerunSteps, NEW todo \in SUBSET Tasks, UNCHANGED reruns,
             rerun' = [rerun EXCEPT !.step = step, !.todo = todo]
      PROVE  DispatchTypeOK'
  BY <1>1, <1>2 DEF DispatchTypeOK, RerunType
<1>3. \A todo : AfterReset(todo) \in RerunSteps
  BY DEF AfterReset, RerunSteps
<1>4. ASSUME NEW t \in Tasks, BeginRerun(t) PROVE ClusterTypeOK' /\ DispatchTypeOK'
  <2>1. reruns + 1 \in 0..MaxReruns
    <3>1. reruns < MaxReruns
      BY <1>4 DEF BeginRerun
    <3> QED
      BY <1>1, <3>1, DispatchAssumption
  <2>2. DownstreamTasks(t) \in SUBSET Tasks
    BY DEF DownstreamTasks
  <2>3. rerun' \in RerunType
    BY <1>4, <2>2 DEF BeginRerun, RerunType, RerunSteps
  <2>4. DispatchTypeOK'
    BY <1>4, <2>1, <2>3 DEF BeginRerun, DispatchTypeOK, RerunType
  <2>5. prCurrent' \in SUBSET Clients /\ trCurrent' \in [Tasks -> SUBSET Clients]
    BY <1>4, ReadTypes DEF BeginRerun, Clients
  <2> QED
    BY <1>4, <2>4, <2>5 DEF BeginRerun, ClusterTypeOK, objects, caches, watches, queues
<1>5. CASE RerunDeleteChild
  <2>1. child' \in [Tasks -> Children]
    BY <1>1, <1>5, ChildType DEF RerunDeleteChild, RerunType
  <2>2. DispatchTypeOK'
    BY <1>1, <1>5 DEF RerunDeleteChild, DispatchTypeOK, RerunType, RerunSteps
  <2> QED
    BY <1>5, <2>1, <2>2 DEF RerunDeleteChild, ClusterTypeOK, caches, watches, queues, versions
<1>6. CASE RerunReset
  <2>1. rerun.task \in Tasks
    BY <1>1 DEF RerunType
  <2>2. Reset(tr[rerun.task]) \in TaskRuns
    <3>1. tr[rerun.task] \in TaskRuns
      BY <2>1 DEF ClusterTypeOK
    <3> QED
      BY <3>1 DEF Reset, TaskRuns, TaskRunPhases
  <2>3. DispatchTypeOK'
    BY <1>1, <1>3, <1>6 DEF RerunReset, DispatchTypeOK, RerunType
  <2>4. CASE PutTaskRun(rerun.task, Reset(tr[rerun.task]), "Rerun")
    BY <1>6, <2>1, <2>2, <2>3, <2>4, WriteTaskRunType DEF RerunReset
  <2>5. CASE UNCHANGED trVars
    BY <1>6, <2>3, <2>5 DEF RerunReset, ClusterTypeOK, trVars, prVars, caches, queues
  <2> QED
    BY <1>6, <2>4, <2>5 DEF RerunReset
<1>7. CASE RerunDeleteDownstream
  <2>1. PICK t \in rerun.todo :
            /\ DeleteTaskRun(t)
            /\ rerun' = [rerun EXCEPT !.todo = @ \ {t}, !.step = AfterReset(rerun.todo \ {t})]
    BY <1>7 DEF RerunDeleteDownstream
  <2>2. t \in Tasks
    BY <1>1 DEF RerunType
  <2>3. DispatchTypeOK'
    BY <1>1, <1>3, <1>7, <2>1 DEF RerunDeleteDownstream, DispatchTypeOK, RerunType
  <2> QED
    BY <1>7, <2>1, <2>2, <2>3, WriteTaskRunType, RecordTypes
       DEF RerunDeleteDownstream, DeleteTaskRun
<1>8. CASE Revive
  <2>1. [pr EXCEPT !.phase = "Running"] \in PipelineRuns
    BY DEF ClusterTypeOK, PipelineRuns, PipelineRunPhases
  <2>2. DispatchTypeOK'
    BY <1>8, RerunEndsType DEF Revive
  <2> QED
    BY <1>8, <2>1, <2>2, WritePipelineRunType DEF Revive
<1>9. CASE NothingToRevive
  <2>1. DispatchTypeOK'
    BY <1>9, RerunEndsType DEF NothingToRevive
  <2> QED
    BY <1>9, <2>1 DEF NothingToRevive, ClusterTypeOK, objects, caches, watches, queues
<1>10. CASE RerunConflict
  BY <1>10, RerunAbortType DEF RerunConflict
<1> QED
  BY <1>4, <1>5, <1>6, <1>7, <1>8, <1>9, <1>10

LEMMA DispatchType == TypeOK /\ DispatchStep => TypeOK'
<1> SUFFICES ASSUME ClusterTypeOK, DispatchTypeOK, DispatchNext
             PROVE  ClusterTypeOK' /\ DispatchTypeOK'
  BY DEF TypeOK, DispatchStep, PrcTypeOK, TrcTypeOK
<1>1. pr \in PipelineRuns /\ tr \in [Tasks -> TaskRuns] /\ trCache \in [Tasks -> TaskRuns]
  BY DEF ClusterTypeOK
<1>2. UNCHANGED dispatchVars => DispatchTypeOK'
  BY DEF dispatchVars, DispatchTypeOK
<1>3. CASE ApplyPipelineRun
  <2>1. [NoPipelineRun EXCEPT !.phase = ""] \in PipelineRuns
    BY RecordTypes DEF PipelineRuns, PipelineRunPhases
  <2> QED
    BY <1>2, <1>3, <2>1, WritePipelineRunType DEF ApplyPipelineRun
<1>4. ASSUME NEW t \in Tasks, NEW approver \in Deciders[t], ApproveTask(t, approver)
      PROVE  ClusterTypeOK' /\ DispatchTypeOK'
  <2> DEFINE signed == trCache[t].approvedBy \cup {approver}
             phase == IF Cardinality(signed) >= Required[t] THEN "Succeeded"
                      ELSE trCache[t].phase
  <2>1. PutTaskRun(t, [trCache[t] EXCEPT !.asked = TRUE, !.approvedBy = signed,
                                         !.phase = phase], "Dispatch")
    BY <1>4 DEF ApproveTask
  <2>2. signed \in SUBSET Approvers /\ phase \in TaskRunPhases \cup {"Absent"}
    BY <1>1, DispatchAssumption DEF TaskRuns, TaskRunPhases
  <2> HIDE DEF signed, phase
  <2>3. [trCache[t] EXCEPT !.asked = TRUE, !.approvedBy = signed, !.phase = phase] \in TaskRuns
    BY <1>1, <2>2 DEF TaskRuns
  <2> QED
    BY <1>2, <1>4, <2>1, <2>3, WriteTaskRunType DEF ApproveTask
<1>5. ASSUME NEW t \in Tasks, NEW approver \in Deciders[t], RejectTask(t, approver)
      PROVE  ClusterTypeOK' /\ DispatchTypeOK'
  <2>1. [trCache[t] EXCEPT !.asked = TRUE, !.rejectedBy = {approver}, !.phase = "Failed"]
           \in TaskRuns
    BY <1>1, DispatchAssumption DEF TaskRuns, TaskRunPhases
  <2> QED
    BY <1>2, <1>5, <2>1, WriteTaskRunType DEF RejectTask
<1>6. CASE CancelPipelineRun
  <2>1. [pr EXCEPT !.cancel = TRUE] \in PipelineRuns
    BY <1>1 DEF PipelineRuns
  <2> QED
    BY <1>2, <1>6, <2>1, WritePipelineRunType DEF CancelPipelineRun
<1> QED
  BY <1>3, <1>4, <1>5, <1>6, RerunStepType DEF DispatchNext

\* A failed call or a restart loses what was in hand, and nothing else.
LEMMA FaultType == TypeOK /\ (CallFails \/ Restart) => TypeOK'
<1> SUFFICES ASSUME TypeOK, CallFails \/ Restart PROVE TypeOK'
  OBVIOUS
<1> USE DEF TypeOK
<1>1. (faults \in 0..MaxFaults)'
  <2>1. faults \in 0..MaxFaults /\ faults < MaxFaults /\ faults' = faults + 1
    BY DEF CallFails, Restart, Fault
  <2> QED
    BY <2>1, BoundsAssumption
<1>2. CASE PrAbort /\ UNCHANGED <<trc, dispatchVars>>
  BY <1>1, <1>2, PrAbortType DEF TrcTypeOK, DispatchTypeOK, dispatchVars
<1>3. CASE TrAbort /\ UNCHANGED <<prc, dispatchVars>>
  BY <1>1, <1>3, TrAbortType DEF PrcTypeOK, DispatchTypeOK, dispatchVars
<1>4. CASE RerunAbort /\ UNCHANGED <<prc, trc>>
  BY <1>1, <1>4, RerunAbortType DEF PrcTypeOK, TrcTypeOK
<1>5. CASE Restart
  <2>1. PrcTypeOK' /\ TrcTypeOK'
    BY <1>5, PrIdleType, TrIdleType DEF Restart, PrcTypeOK, TrcTypeOK
  <2>2. DispatchTypeOK'
    BY <1>5, DagAssumption DEF Restart, DispatchTypeOK, RerunIdle, RerunSteps
  <2>3. prWatch' \in Seq(PipelineRuns) /\ trWatch' \in Seq([task : Tasks, obj : TaskRuns])
    BY <1>5, EmptySeq DEF Restart
  <2>4. /\ prCurrent' \in SUBSET Clients /\ trCurrent' \in [Tasks -> SUBSET Clients]
        /\ prQueued' \in BOOLEAN /\ trQueued' \in SUBSET Tasks
    BY <1>5 DEF Restart
  <2>5. /\ UNCHANGED <<pr, tr, child, births>>
        /\ prCache' = pr /\ trCache' = tr /\ childCache' = child
    BY <1>5 DEF Restart, objects
  <2>6. ClusterTypeOK'
    BY <2>3, <2>4, <2>5 DEF ClusterTypeOK
  <2> QED
    BY <1>1, <2>1, <2>2, <2>6
<1> QED
  BY <1>2, <1>3, <1>4, <1>5 DEF CallFails

\* Every variable keeps its type, whatever the pipeline, the approvers and the bounds.
THEOREM TypeCorrect == Spec => []TypeOK
<1>1. TypeOK /\ UNCHANGED vars => TypeOK'
  BY DEF TypeOK, ClusterTypeOK, PrcTypeOK, TrcTypeOK, DispatchTypeOK, vars, clusterVars, local,
         objects, caches, watches, queues, versions, dispatchVars
<1>2. TypeOK /\ [Next]_vars => TypeOK'
  BY <1>1, ClusterType, PipelineRunType, TaskRunType, DispatchType, FaultType DEF Next
<1> QED
  BY <1>2, InitType, PTL DEF Spec
-----------------------------------------------------------------------------
(* The lifecycle.  CopiesHold is inductive relative to TypeOK: a version check that *)
(* passes means the run is still as its writer read it.                             *)

ProceedPhases == {"Pending", "Running", "WaitingApproval", "Succeeded", "Failed"}

LEMMA InitCopiesHold == Init => CopiesHold
BY DEF Init, ClusterInit, PrcInit, DispatchInit, PrIdle, RerunIdle, CopiesHold, CacheCatchesUp,
       NotAppliedYet, DecisionFits, Deciding, ReconcilerCopyHolds, RerunCopyHolds

\* A write of a run keeps the stream in step with it, and tells every copy of it.
LEMMA PutPipelineRunHolds ==
    ASSUME ClusterTypeOK, CacheCatchesUp, NotAppliedYet,
           NEW obj \in PipelineRuns, NEW client, PutPipelineRun(obj, client),
           obj = pr \/ obj.phase # "Absent", UNCHANGED prCache
    PROVE  /\ CacheCatchesUp'
           /\ NotAppliedYet'
           /\ \/ UNCHANGED pr /\ prCurrent' = prCurrent \ {client}
              \/ pr' = obj /\ prCurrent' = {}
<1>1. CASE obj = pr
  BY <1>1 DEF PutPipelineRun, CacheCatchesUp, NotAppliedYet
<1>2. CASE obj # pr
  <2>1. pr' = obj /\ prWatch' = Append(prWatch, obj) /\ prCurrent' = {}
    BY <1>2 DEF PutPipelineRun
  <2>2. prWatch \in Seq(PipelineRuns)
    BY DEF ClusterTypeOK
  <2>3. prWatch' # << >> /\ prWatch'[Len(prWatch')] = obj
    BY <2>1, <2>2, AppendProperties
  <2> QED
    BY <1>2, <2>1, <2>3 DEF CacheCatchesUp, NotAppliedYet
<1> QED
  BY <1>1, <1>2

\* A copy read while nothing is on its way to the cache is the run.
LEMMA ReadIsCurrent ==
    ASSUME CacheCatchesUp, NEW client, client \in ReadPipelineRun(client)
    PROVE  prCache = pr
BY DEF CacheCatchesUp, ReadPipelineRun

\* A reconcile takes up a decision about the copy it has just read.
LEMMA PrStartHolds ==
    ASSUME TypeOK, CopiesHold, NEW step, NEW todo, NEW next, PrStart(step, todo, next),
           UNCHANGED dispatchVars,
           \/ step \notin {"create", "delete", "update"}
           \/ /\ next.phase \in IF next.cancel THEN {"Cancelled"} ELSE ProceedPhases
              /\ prCache.phase \notin TerminalPhases \cup {"Absent"}
              /\ next.cancel = prCache.cancel
    PROVE  CopiesHold' /\ UNCHANGED pr
<1>1. UNCHANGED <<pr, prWatch, prCache>>
  BY DEF PrStart, objects, caches, watches
<1>2. prc'.step = step /\ prc'.next = next
  BY DEF PrStart
<1>3. prCurrent' = ReadPipelineRun("PipelineRun")
  BY DEF PrStart
<1>4. CacheCatchesUp' /\ NotAppliedYet' /\ DecisionFits'
  BY <1>1, <1>2 DEF CopiesHold, CacheCatchesUp, NotAppliedYet, DecisionFits, Deciding,
                    ProceedPhases
<1>5. ReconcilerCopyHolds'
  BY <1>1, <1>2, <1>3, ReadIsCurrent DEF CopiesHold, ReconcilerCopyHolds, Deciding
<1>6. "Rerun" \in prCurrent' => "Rerun" \in prCurrent
  BY <1>3 DEF ReadPipelineRun
<1>7. RerunCopyHolds'
  BY <1>1, <1>6 DEF CopiesHold, RerunCopyHolds, dispatchVars
<1> QED
  BY <1>1, <1>4, <1>5, <1>7 DEF CopiesHold

LEMMA ReconcileHolds ==
    ASSUME TypeOK, CopiesHold, Reconcile, UNCHANGED dispatchVars
    PROVE  CopiesHold' /\ UNCHANGED pr
<1>1. prCache \in PipelineRuns
  BY DEF TypeOK, ClusterTypeOK
<1>2. Refreshed.cancel = prCache.cancel
  BY <1>1 DEF Refreshed, PipelineRuns
<1>3. prCache.phase \notin TerminalPhases \cup {"Absent"} => Refreshed.phase \in ProceedPhases
  BY <1>1 DEF Refreshed, PipelineRuns, PipelineRunPhases, TerminalPhases, ProceedPhases
<1>4. ASSUME NEW phase \in ProceedPhases, NEW approval, NEW step, NEW todo, Schedulable,
             PrStart(step, todo, [Refreshed EXCEPT !.phase = phase, !.approval = approval])
      PROVE  CopiesHold' /\ UNCHANGED pr
  <2> DEFINE next == [Refreshed EXCEPT !.phase = phase, !.approval = approval]
  <2>1. next.phase = phase /\ next.cancel = prCache.cancel
    BY <1>1, <1>2 DEF Refreshed, PipelineRuns
  <2>2. ~prCache.cancel /\ prCache.phase \notin TerminalPhases \cup {"Absent"}
    BY <1>4 DEF Schedulable
  <2> HIDE DEF next
  <2>3. PrStart(step, todo, next)
    BY <1>4 DEF next
  <2> QED
    BY <2>1, <2>2, <2>3, PrStartHolds
<1>5. \A phase : [Refreshed EXCEPT !.phase = phase]
                   = [Refreshed EXCEPT !.phase = phase, !.approval = {}]
  BY <1>1 DEF Refreshed, PipelineRuns
<1>6. CASE IgnoreRun
  BY <1>6 DEF IgnoreRun, objects, caches, watches, versions, dispatchVars, CopiesHold,
              CacheCatchesUp, NotAppliedYet, DecisionFits, Deciding, ReconcilerCopyHolds,
              RerunCopyHolds
<1>7. CASE AwaitApproval
  BY <1>4, <1>7 DEF AwaitApproval, ProceedPhases
<1>8. CASE StopOnFailure
  BY <1>4, <1>5, <1>8 DEF StopOnFailure, ProceedPhases
<1>9. CASE Advance
  <2> DEFINE runnable == FindRunnableTasks(trCache)
             phase == IF runnable # {} THEN "Running"
                      ELSE IF AllTasksSucceeded(trCache) THEN "Succeeded"
                      ELSE Refreshed.phase
  <2>1. /\ PrStart(PrStep("create", runnable), runnable, [Refreshed EXCEPT !.phase = phase])
        /\ Schedulable
    BY <1>9 DEF Advance
  <2>2. phase \in ProceedPhases
    BY <1>3, <2>1 DEF ProceedPhases, Schedulable
  <2> HIDE DEF runnable, phase
  <2> QED
    BY <1>4, <1>5, <2>1, <2>2
<1>10. CASE RefuseCancel
  BY <1>10, PrStartHolds DEF RefuseCancel
<1>11. CASE BeginCancel
  <2> DEFINE existing == {t \in Tasks : Exists(trCache, t)}
             next == [prCache EXCEPT !.phase = "Cancelled", !.approval = {},
                                     !.tasks = CancelledTaskSummary(trCache)]
  <2>1. PrStart(PrStep("delete", existing), existing, next)
    BY <1>11 DEF BeginCancel
  <2>2. next.phase = "Cancelled" /\ next.cancel = prCache.cancel
    BY <1>1 DEF PipelineRuns
  <2>3. prCache.phase \notin TerminalPhases \cup {"Absent"} /\ prCache.cancel
    BY <1>11 DEF BeginCancel
  <2> HIDE DEF existing, next
  <2> QED
    BY <2>1, <2>2, <2>3, PrStartHolds
<1> QED
  BY <1>6, <1>7, <1>8, <1>9, <1>10, <1>11 DEF Reconcile

\* What is in hand stays in hand, or is done with: no step but the reading of a copy
\* takes up a decision.
InHandStays ==
    /\ Deciding' => Deciding /\ prc'.next = prc.next
    /\ rerun'.step # "idle" => rerun.step # "idle" /\ rerun'.failed = rerun.failed

LEMMA OtherStepHolds ==
    ASSUME CopiesHold, UNCHANGED <<pr, prWatch, prCache>>, prCurrent' \subseteq prCurrent,
           InHandStays
    PROVE  CopiesHold'
<1>1. CacheCatchesUp' /\ NotAppliedYet'
  BY DEF CopiesHold, CacheCatchesUp, NotAppliedYet
<1>2. DecisionFits' /\ ReconcilerCopyHolds'
  BY DEF CopiesHold, DecisionFits, ReconcilerCopyHolds, InHandStays
<1>3. RerunCopyHolds'
  BY DEF CopiesHold, RerunCopyHolds, InHandStays
<1> QED
  BY <1>1, <1>2, <1>3 DEF CopiesHold

LEMMA WriteHolds ==
    ASSUME TypeOK, CopiesHold, NEW obj \in PipelineRuns, NEW client,
           PutPipelineRun(obj, client), obj = pr \/ obj.phase # "Absent",
           UNCHANGED prCache, InHandStays
    PROVE  CopiesHold' /\ (UNCHANGED pr \/ pr' = obj)
<1>1. CacheCatchesUp' /\ NotAppliedYet'
      /\ (\/ UNCHANGED pr /\ prCurrent' = prCurrent \ {client}
          \/ pr' = obj /\ prCurrent' = {})
  BY PutPipelineRunHolds DEF TypeOK, CopiesHold
<1>2. DecisionFits'
  BY DEF CopiesHold, DecisionFits, InHandStays
<1>3. ReconcilerCopyHolds'
  BY <1>1 DEF CopiesHold, ReconcilerCopyHolds, InHandStays
<1>4. RerunCopyHolds'
  BY <1>1 DEF CopiesHold, RerunCopyHolds, InHandStays
<1> QED
  BY <1>1, <1>2, <1>3, <1>4 DEF CopiesHold

LEMMA SyncPipelineRunHolds ==
    ASSUME TypeOK, CopiesHold, SyncPipelineRun, UNCHANGED local
    PROVE  CopiesHold' /\ UNCHANGED pr
<1>1. /\ prWatch \in Seq(PipelineRuns)
      /\ prWatch # << >>
      /\ prCache' = Head(prWatch)
      /\ prWatch' = Tail(prWatch)
  BY DEF SyncPipelineRun, TypeOK, ClusterTypeOK
<1>2. UNCHANGED <<pr, prCurrent, prc, rerun>>
  BY DEF SyncPipelineRun, objects, versions, local, dispatchVars
<1>3. prWatch[Len(prWatch)] = pr
  BY <1>1 DEF CopiesHold, CacheCatchesUp
<1>4. CacheCatchesUp'
  <2>1. CASE Tail(prWatch) = << >>
    <3>1. Len(prWatch) = 1
      <4>1. Len(Tail(prWatch)) = Len(prWatch) - 1 /\ Len(prWatch) \in Nat
        BY <1>1, HeadTailProperties
      <4>2. Len(Tail(prWatch)) = 0
        <5>1. Len(<< >>) = 0
          OBVIOUS
        <5> QED
          BY <2>1, <5>1, Zenon
      <4> QED
        BY <4>1, <4>2
    <3>2. Head(prWatch) = prWatch[1]
      BY <1>1
    <3> QED
      BY <1>1, <1>2, <1>3, <2>1, <3>1, <3>2 DEF CacheCatchesUp
  <2>2. CASE Tail(prWatch) # << >>
    <3>1. Tail(prWatch)[Len(Tail(prWatch))] = prWatch[Len(prWatch)]
      BY <1>1, <2>2, HeadTailProperties
    <3> QED
      BY <1>1, <1>2, <1>3, <2>2, <3>1 DEF CacheCatchesUp
  <2> QED
    BY <2>1, <2>2
<1>5. NotAppliedYet'
  BY <1>1, <1>2 DEF CopiesHold, NotAppliedYet
<1>6. DecisionFits' /\ ReconcilerCopyHolds' /\ RerunCopyHolds'
  BY <1>2 DEF CopiesHold, DecisionFits, Deciding, ReconcilerCopyHolds, RerunCopyHolds
<1> QED
  BY <1>2, <1>4, <1>5, <1>6 DEF CopiesHold

\* What a step may do to the run.
Move == [Lifecycle!Next]_<<pr.phase, pr.cancel, Reviving>>

\* A step that leaves the run alone is no step of the lifecycle, or a rerun takes a turn.
LEMMA QuietMove == UNCHANGED pr => Move
<1>1. (Reviving' = Reviving) \/ (Reviving' = ~Reviving)
  BY DEF Reviving
<1>2. UNCHANGED pr /\ Reviving' = ~Reviving => Lifecycle!Turn
  BY DEF Lifecycle!Turn
<1> QED
  BY <1>1, <1>2 DEF Move, Lifecycle!Next

LEMMA ClusterMoves == TypeOK /\ CopiesHold /\ ClusterStep => CopiesHold' /\ Move
<1> SUFFICES ASSUME TypeOK, CopiesHold, ClusterStep PROVE CopiesHold' /\ UNCHANGED pr
  BY QuietMove
<1>1. UNCHANGED local
  BY DEF ClusterStep
<1>2. InHandStays
  BY <1>1 DEF local, dispatchVars, InHandStays, Deciding
<1>3. CASE SyncPipelineRun
  BY <1>1, <1>3, SyncPipelineRunHolds
<1>4. CASE UNCHANGED <<pr, prWatch, prCache, prCurrent>>
  BY <1>2, <1>4, OtherStepHolds
<1> QED
  BY <1>3, <1>4 DEF ClusterStep, ClusterNext, SyncTaskRun, SyncChild, ChildProgress,
     CollectGarbage, objects, caches, watches, versions

LEMMA PipelineRunMoves == TypeOK /\ CopiesHold /\ PipelineRunStep => CopiesHold' /\ Move
<1> SUFFICES ASSUME TypeOK, CopiesHold, PipelineRunStep PROVE CopiesHold' /\ Move
  OBVIOUS
<1>1. PrcNext /\ UNCHANGED dispatchVars
  BY DEF PipelineRunStep
<1>2. /\ pr \in PipelineRuns
      /\ prc \in [step : PrSteps, todo : SUBSET Tasks, next : PipelineRuns]
  BY DEF TypeOK, ClusterTypeOK, PrcTypeOK
<1>3. UNCHANGED rerun /\ UNCHANGED Reviving
  BY <1>1 DEF dispatchVars, Reviving
<1>4. UNCHANGED pr => Move
  BY QuietMove
<1>5. CASE Reconcile
  BY <1>1, <1>4, <1>5, ReconcileHolds
<1>6. ASSUME NEW t, Done(t), prc.step \in {"create", "delete"} PROVE InHandStays
  BY <1>2, <1>3, <1>6 DEF Done, PrStep, InHandStays, Deciding
<1>7. CASE CreateNext
  <2>1. InHandStays /\ UNCHANGED <<pr, prWatch, prCache, prCurrent>>
    BY <1>6, <1>7 DEF CreateNext, caches
  <2> QED
    BY <1>4, <2>1, OtherStepHolds
<1>8. CASE DeleteNext
  <2>1. InHandStays /\ UNCHANGED <<pr, prWatch, prCache, prCurrent>>
    BY <1>6, <1>8 DEF DeleteNext, caches
  <2> QED
    BY <1>4, <2>1, OtherStepHolds
<1>9. prc' = PrIdle \/ prc' = [prc EXCEPT !.step = "clear"] => InHandStays
  BY <1>2, <1>3 DEF PrIdle, InHandStays, Deciding
<1>10. CASE UpdateStatus
  <2>1. /\ PutPipelineRun(prc.next, "PipelineRun")
        /\ "PipelineRun" \in prCurrent
        /\ UNCHANGED prCache
        /\ prc.step = "update"
    BY <1>10 DEF UpdateStatus, caches
  <2>2. prc' = PrIdle \/ prc' = [prc EXCEPT !.step = "clear"]
    BY <1>10 DEF UpdateStatus
  <2>3. /\ prc.next.phase \in IF prc.next.cancel THEN {"Cancelled"} ELSE ProceedPhases
        /\ pr.phase \notin TerminalPhases \cup {"Absent"}
        /\ prc.next.cancel = pr.cancel
    BY <2>1 DEF CopiesHold, DecisionFits, ReconcilerCopyHolds, Deciding, ProceedPhases
  <2>4. prc.next \in PipelineRuns /\ prc.next.phase # "Absent"
    BY <1>2, <2>3 DEF ProceedPhases
  <2>5. CopiesHold' /\ (UNCHANGED pr \/ pr' = prc.next)
    BY <1>9, <2>1, <2>2, <2>4, WriteHolds
  <2>6. CASE pr' = prc.next
    <3>1. Lifecycle!Live
      BY <2>3 DEF Lifecycle!Live, Lifecycle!Over, Lifecycle!Final, TerminalPhases
    <3>2. CASE pr.cancel
      <4>1. Lifecycle!Cancel
        BY <1>3, <2>3, <2>6, <3>1, <3>2 DEF Lifecycle!Cancel
      <4> QED
        BY <2>5, <4>1 DEF Move, Lifecycle!Next
    <3>3. CASE ~pr.cancel
      <4>1. Lifecycle!Proceed
        BY <1>3, <2>3, <2>6, <3>1, <3>3 DEF Lifecycle!Proceed, ProceedPhases
      <4> QED
        BY <2>5, <4>1 DEF Move, Lifecycle!Next
    <3> QED
      BY <3>2, <3>3
  <2> QED
    BY <1>4, <2>5, <2>6
<1>11. CASE StatusConflict
  <2>1. prc' = PrIdle /\ prCurrent' \subseteq prCurrent /\ UNCHANGED <<pr, prWatch, prCache>>
    BY <1>11 DEF StatusConflict, PrAbort, objects, caches, watches
  <2> QED
    BY <1>4, <1>9, <2>1, OtherStepHolds
<1>12. CASE ClearCancel
  <2>1. /\ PutPipelineRun([pr EXCEPT !.cancel = FALSE], "PipelineRun")
        /\ prc' = PrIdle
        /\ UNCHANGED prCache
    BY <1>12 DEF ClearCancel, caches
  <2>2. /\ [pr EXCEPT !.cancel = FALSE] \in PipelineRuns
        /\ [pr EXCEPT !.cancel = FALSE].phase = pr.phase
        /\ [pr EXCEPT !.cancel = FALSE].cancel = FALSE
    BY <1>2 DEF PipelineRuns
  <2>3. [pr EXCEPT !.cancel = FALSE] = pr \/ pr.phase # "Absent"
    BY <1>2 DEF CopiesHold, NotAppliedYet, NoPipelineRun
  <2>4. CopiesHold' /\ (UNCHANGED pr \/ pr' = [pr EXCEPT !.cancel = FALSE])
    BY <1>9, <2>1, <2>2, <2>3, WriteHolds
  <2>5. CASE pr' = [pr EXCEPT !.cancel = FALSE]
    <3>1. pr'.cancel = FALSE /\ pr'.phase = pr.phase
      BY <2>2, <2>5
    <3>2. Lifecycle!Withdraw
      BY <1>3, <3>1 DEF Lifecycle!Withdraw
    <3> QED
      BY <2>4, <3>2 DEF Move, Lifecycle!Next
  <2> QED
    BY <1>4, <2>4, <2>5
<1> QED
  BY <1>1, <1>5, <1>7, <1>8, <1>10, <1>11, <1>12 DEF PrcNext

LEMMA TaskRunMoves == TypeOK /\ CopiesHold /\ TaskRunStep => CopiesHold' /\ Move
<1> SUFFICES ASSUME TypeOK, CopiesHold, TaskRunStep PROVE CopiesHold' /\ UNCHANGED pr
  BY QuietMove
<1>1. InHandStays
  BY DEF TaskRunStep, dispatchVars, InHandStays, Deciding
<1>2. UNCHANGED <<pr, prWatch, prCache, prCurrent>>
  BY DEF TaskRunStep, TrcNext, ReconcileTaskRun, IgnoreTaskRun, PrepareApproval, StartChild,
         RetryJob, MirrorChild, TrStart, CreateOwnChild, DeleteOwnChild, UpdateTaskRun,
         TaskRunConflict, TrAbort, objects, caches, watches, versions
<1> QED
  BY <1>1, <1>2, OtherStepHolds

LEMMA DispatchMoves == TypeOK /\ CopiesHold /\ DispatchStep => CopiesHold' /\ Move
<1> SUFFICES ASSUME TypeOK, CopiesHold, DispatchStep PROVE CopiesHold' /\ Move
  OBVIOUS
<1>1. DispatchNext /\ UNCHANGED prc
  BY DEF DispatchStep
<1>2. /\ pr \in PipelineRuns
      /\ rerun \in [step : RerunSteps, task : Tasks, failed : BOOLEAN, todo : SUBSET Tasks]
  BY DEF TypeOK, ClusterTypeOK, DispatchTypeOK
<1>3. UNCHANGED pr => Move
  BY QuietMove
<1>4. UNCHANGED dispatchVars => InHandStays /\ UNCHANGED Reviving
  BY <1>1 DEF dispatchVars, InHandStays, Deciding, Reviving
<1>5. RerunEnds => InHandStays
  BY <1>1 DEF RerunEnds, RerunIdle, InHandStays, Deciding
<1>6. CASE InHandStays /\ UNCHANGED <<pr, prWatch, prCache>> /\ prCurrent' \subseteq prCurrent
  BY <1>3, <1>6, OtherStepHolds
<1>7. CASE ApplyPipelineRun
  <2> DEFINE obj == [NoPipelineRun EXCEPT !.phase = ""]
  <2>1. pr.phase = "Absent" /\ pr = NoPipelineRun
    BY <1>7 DEF ApplyPipelineRun, CopiesHold, NotAppliedYet
  <2>2. obj \in PipelineRuns /\ obj.phase = "" /\ obj.cancel = NoPipelineRun.cancel
    BY RecordTypes DEF PipelineRuns, PipelineRunPhases, NoPipelineRun
  <2>3. InHandStays /\ PutPipelineRun(obj, "Dispatch") /\ UNCHANGED <<prCache, Reviving>>
    BY <1>4, <1>7 DEF ApplyPipelineRun, caches
  <2> HIDE DEF obj
  <2>4. CopiesHold' /\ (UNCHANGED pr \/ pr' = obj)
    BY <2>2, <2>3, WriteHolds
  <2>5. CASE pr' = obj
    <3>1. Lifecycle!Apply
      BY <2>1, <2>2, <2>3, <2>5 DEF Lifecycle!Apply
    <3> QED
      BY <2>4, <3>1 DEF Move, Lifecycle!Next
  <2> QED
    BY <1>3, <2>4, <2>5
<1>8. CASE CancelPipelineRun
  <2> DEFINE obj == [pr EXCEPT !.cancel = TRUE]
  <2>1. pr.phase # "Absent"
    <3>1. prCache.phase # "Absent"
      BY <1>8 DEF CancelPipelineRun
    <3> QED
      BY <3>1 DEF CopiesHold, CacheCatchesUp, NotAppliedYet
  <2>2. obj \in PipelineRuns /\ obj.phase = pr.phase /\ obj.cancel = TRUE
    BY <1>2 DEF PipelineRuns
  <2>3. InHandStays /\ PutPipelineRun(obj, "Dispatch") /\ UNCHANGED <<prCache, Reviving>>
    BY <1>4, <1>8 DEF CancelPipelineRun, caches
  <2> HIDE DEF obj
  <2>4. CopiesHold' /\ (UNCHANGED pr \/ pr' = obj)
    BY <2>1, <2>2, <2>3, WriteHolds
  <2>5. CASE pr' = obj
    <3>1. Lifecycle!Request
      BY <2>1, <2>2, <2>3, <2>5 DEF Lifecycle!Request
    <3> QED
      BY <2>4, <3>1 DEF Move, Lifecycle!Next
  <2> QED
    BY <1>3, <2>4, <2>5
<1>9. CASE Revive
  <2> DEFINE obj == [pr EXCEPT !.phase = "Running"]
  <2>1. /\ pr.phase = "Failed"
        /\ Reviving
        /\ ~Reviving'
    BY <1>9 DEF Revive, RerunEnds, RerunIdle, Reviving, CopiesHold, RerunCopyHolds
  <2>2. obj \in PipelineRuns /\ obj.phase = "Running" /\ obj.cancel = pr.cancel
    BY <1>2 DEF PipelineRuns, PipelineRunPhases
  <2>3. InHandStays /\ PutPipelineRun(obj, "Rerun") /\ UNCHANGED prCache
    BY <1>5, <1>9 DEF Revive, caches
  <2> HIDE DEF obj
  <2>4. CopiesHold' /\ (UNCHANGED pr \/ pr' = obj)
    BY <2>2, <2>3, WriteHolds
  <2>5. CASE pr' = obj
    <3>1. Lifecycle!Revive
      BY <2>1, <2>2, <2>5 DEF Lifecycle!Revive
    <3> QED
      BY <2>4, <3>1 DEF Move, Lifecycle!Next
  <2> QED
    BY <1>3, <2>4, <2>5
<1>10. ASSUME NEW t \in Tasks, BeginRerun(t) PROVE CopiesHold' /\ Move
  <2>1. /\ UNCHANGED <<pr, prWatch, prCache, prc>>
        /\ prCurrent' = ReadPipelineRun("Rerun")
        /\ rerun'.failed = (prCache.phase = "Failed")
    BY <1>1, <1>10 DEF BeginRerun, objects, watches, caches
  <2>2. CacheCatchesUp' /\ NotAppliedYet' /\ DecisionFits'
    BY <2>1 DEF CopiesHold, CacheCatchesUp, NotAppliedYet, DecisionFits, Deciding
  <2>3. "PipelineRun" \in prCurrent' => "PipelineRun" \in prCurrent
    BY <2>1 DEF ReadPipelineRun
  <2>4. ReconcilerCopyHolds'
    BY <2>1, <2>3 DEF CopiesHold, ReconcilerCopyHolds, Deciding
  <2>5. "Rerun" \in prCurrent' => prCache = pr
    BY <2>1, ReadIsCurrent DEF CopiesHold
  <2>6. RerunCopyHolds'
    BY <2>1, <2>5 DEF RerunCopyHolds
  <2> QED
    BY <1>3, <2>1, <2>2, <2>4, <2>6 DEF CopiesHold
<1>11. ASSUME NEW t \in Tasks, NEW approver \in Deciders[t],
              ApproveTask(t, approver) \/ RejectTask(t, approver)
       PROVE  CopiesHold' /\ Move
  BY <1>4, <1>6, <1>11 DEF RejectTask, ApproveTask, prVars, caches
<1>12. ASSUME RerunDeleteChild \/ RerunReset \/ RerunDeleteDownstream
       PROVE  CopiesHold' /\ Move
  <2>1. rerun.step # "idle" /\ rerun'.failed = rerun.failed /\ UNCHANGED prc
    BY <1>1, <1>2, <1>12 DEF RerunDeleteChild, RerunReset, RerunDeleteDownstream
  <2>2. InHandStays
    BY <2>1 DEF InHandStays, Deciding
  <2> QED
    BY <1>6, <1>12, <2>2
       DEF RerunDeleteChild, RerunReset, RerunDeleteDownstream, prVars, caches, watches, versions
<1>13. ASSUME NothingToRevive \/ RerunConflict
       PROVE  CopiesHold' /\ Move
  <2>1. RerunEnds /\ prCurrent' \subseteq prCurrent /\ UNCHANGED <<pr, prWatch, prCache>>
    BY <1>13 DEF NothingToRevive, RerunConflict, RerunAbort, objects, caches, watches
  <2> QED
    BY <1>5, <1>6, <2>1
<1> QED
  BY <1>1, <1>7, <1>8, <1>9, <1>10, <1>11, <1>12, <1>13 DEF DispatchNext

LEMMA FaultMoves == TypeOK /\ CopiesHold /\ (CallFails \/ Restart) => CopiesHold' /\ Move
<1> SUFFICES ASSUME TypeOK, CopiesHold, CallFails \/ Restart PROVE CopiesHold' /\ UNCHANGED pr
  BY QuietMove
<1>1. CASE CallFails
  <2>1. prCurrent' \subseteq prCurrent /\ UNCHANGED <<pr, prWatch, prCache>>
    BY <1>1 DEF CallFails, PrAbort, TrAbort, RerunAbort, objects, caches, watches
  <2>2. (UNCHANGED prc \/ prc' = PrIdle) /\ (UNCHANGED rerun \/ rerun' = RerunIdle)
    BY <1>1 DEF CallFails, PrAbort, TrAbort, RerunAbort, RerunEnds, dispatchVars
  <2>3. InHandStays
    BY <2>2 DEF InHandStays, Deciding, PrIdle, RerunIdle
  <2> QED
    BY <2>1, <2>3, OtherStepHolds
<1>2. CASE Restart
  BY <1>2 DEF Restart, objects, PrIdle, RerunIdle, CopiesHold, CacheCatchesUp, NotAppliedYet,
              DecisionFits, Deciding, ReconcilerCopyHolds, RerunCopyHolds
<1> QED
  BY <1>1, <1>2

\* One step of the runner is one step of the lifecycle, or none.
LEMMA StepMoves == TypeOK /\ CopiesHold /\ [Next]_vars => CopiesHold' /\ Move
<1> SUFFICES ASSUME TypeOK, CopiesHold, [Next]_vars PROVE CopiesHold' /\ Move
  OBVIOUS
<1>1. CASE UNCHANGED vars
  <2>1. UNCHANGED <<pr, prWatch, prCache, prCurrent, prc, rerun>>
    BY <1>1 DEF vars, clusterVars, local, objects, caches, watches, versions, dispatchVars
  <2>2. InHandStays
    BY <2>1 DEF InHandStays, Deciding
  <2> QED
    BY <2>1, <2>2, OtherStepHolds, QuietMove
<1> QED
  BY <1>1, ClusterMoves, PipelineRunMoves, TaskRunMoves, DispatchMoves, FaultMoves DEF Next

\* Nobody acts on a copy of the run that its version check would let through though the
\* run has changed.
THEOREM CopiesAreCurrent == Spec => []CopiesHold
<1>1. Init => TypeOK /\ CopiesHold
  BY InitType, InitCopiesHold
<1>2. CopiesHold /\ TypeOK /\ [Next]_vars => CopiesHold'
  BY StepMoves
<1> QED
  BY <1>1, <1>2, TypeCorrect, PTL DEF Spec

\* The runner implements the lifecycle: whatever the pipeline, the lag of the caches, the
\* commands and the faults, a run's phase and its cancel request move as RunLifecycle says.
THEOREM LifecycleImplemented == Spec => ImplementsLifecycle
<1>1. Init => Lifecycle!Init
  BY DEF Init, ClusterInit, DispatchInit, NoPipelineRun, RerunIdle, Reviving, Lifecycle!Init
<1>2. TypeOK /\ CopiesHold /\ [Next]_vars => [Lifecycle!Next]_<<pr.phase, pr.cancel, Reviving>>
  BY StepMoves DEF Move
<1> QED
  BY <1>1, <1>2, TypeCorrect, CopiesAreCurrent, PTL
     DEF Spec, ImplementsLifecycle, Lifecycle!Spec
-----------------------------------------------------------------------------
(* A Cancelled run schedules nothing more, however old the copies it is scheduled from. *)

\* Nothing is cancelled that was not, and nobody begins to schedule.
Harmless == /\ pr'.phase = "Cancelled" => pr.phase = "Cancelled"
            /\ prc'.step = "create" => prc.step = "create"

\* A step that neither writes nor delivers the run.
LEMMA QuietSeen ==
    ASSUME CancelSeen, UNCHANGED <<pr, prWatch, prCache>>,
           "PipelineRun" \in prCurrent' => "PipelineRun" \in prCurrent,
           prc'.step = "create" => prc.step = "create"
    PROVE  CancelSeen'
BY DEF CancelSeen, Marked

\* A write of the run; if it cancels the run, every copy bore the request.
LEMMA WriteSeen ==
    ASSUME prWatch \in Seq(PipelineRuns), CancelSeen, NEW obj \in PipelineRuns, NEW client,
           PutPipelineRun(obj, client), UNCHANGED prCache,
           prc'.step = "create" => prc.step = "create",
           obj.phase = "Cancelled" =>
              \/ pr.phase = "Cancelled"
              \/ prc'.step # "create" /\ prWatch = << >> /\ Marked(prCache)
    PROVE  CancelSeen'
<1>1. CASE obj = pr
  <2>1. UNCHANGED <<pr, prWatch>> /\ prCurrent' \subseteq prCurrent
    BY <1>1 DEF PutPipelineRun
  <2> QED
    BY <2>1, QuietSeen
<1>2. CASE obj # pr
  <2>1. pr' = obj /\ prWatch' = Append(prWatch, obj) /\ prCurrent' = {}
    BY <1>2 DEF PutPipelineRun
  <2>2. /\ Len(prWatch) \in Nat
        /\ Len(prWatch') = Len(prWatch) + 1
        /\ \A i \in 1..Len(prWatch) : prWatch'[i] = prWatch[i]
        /\ prWatch'[Len(prWatch) + 1] = obj
    BY <2>1, AppendProperties, LenProperties
  <2>3. ASSUME obj.phase = "Cancelled"
        PROVE  /\ prc'.step # "create"
               /\ Marked(prCache)
               /\ \A i \in 1..Len(prWatch) : Marked(prWatch[i])
    <3>1. CASE pr.phase = "Cancelled"
      BY <3>1 DEF CancelSeen
    <3>2. CASE prc'.step # "create" /\ prWatch = << >> /\ Marked(prCache)
      <4>1. Len(<< >>) = 0
        OBVIOUS
      <4>2. Len(prWatch) = 0
        BY <3>2, <4>1, Zenon
      <4> QED
        BY <3>2, <4>2
    <3> QED
      BY <2>3, <3>1, <3>2
  <2>4. ASSUME obj.phase = "Cancelled", NEW i \in 1..Len(prWatch')
        PROVE  Marked(prWatch'[i])
    <3>1. CASE i \in 1..Len(prWatch)
      BY <2>2, <2>3, <2>4, <3>1
    <3>2. CASE i = Len(prWatch) + 1
      BY <2>2, <2>4, <3>2 DEF Marked
    <3> QED
      BY <2>2, <3>1, <3>2
  <2> QED
    BY <2>1, <2>3, <2>4 DEF CancelSeen, Marked
<1> QED
  BY <1>1, <1>2

LEMMA SyncSeen ==
    ASSUME TypeOK, CancelSeen, SyncPipelineRun, UNCHANGED prc
    PROVE  CancelSeen'
<1>1. /\ prWatch \in Seq(PipelineRuns) /\ prWatch # << >>
      /\ prCache' = Head(prWatch) /\ prWatch' = Tail(prWatch)
      /\ UNCHANGED <<pr, prCurrent>>
  BY DEF SyncPipelineRun, TypeOK, ClusterTypeOK, objects, versions
<1>2. /\ Head(prWatch) = prWatch[1]
      /\ Len(prWatch) \in Nat /\ Len(prWatch) >= 1
      /\ Len(Tail(prWatch)) = Len(prWatch) - 1
      /\ \A i \in 1..(Len(prWatch) - 1) : Tail(prWatch)[i] = prWatch[i + 1]
  BY <1>1, HeadTailProperties, LenProperties, EmptySeq
<1>3. ASSUME pr.phase = "Cancelled"
      PROVE  /\ Marked(prCache')
             /\ \A i \in 1..Len(prWatch') : Marked(prWatch'[i])
  <2>1. \A i \in 1..Len(prWatch) : Marked(prWatch[i])
    BY <1>3 DEF CancelSeen
  <2>2. Marked(prWatch[1])
    BY <1>2, <2>1
  <2>3. \A i \in 1..(Len(prWatch) - 1) : Marked(prWatch[i + 1])
    BY <1>2, <2>1
  <2> QED
    BY <1>1, <1>2, <2>2, <2>3
<1> QED
  BY <1>1, <1>3 DEF CancelSeen, Marked

\* A reconcile that begins: it schedules only what its copy does not keep it from.
LEMMA ReconcileSeen ==
    ASSUME TypeOK, CancelSeen, Reconcile
    PROVE  CancelSeen'
<1>1. ASSUME NEW step, NEW todo, NEW next, PrStart(step, todo, next),
             step = "create" => ~Marked(prCache)
      PROVE  CancelSeen'
  <2>1. UNCHANGED <<pr, prWatch, prCache>> /\ prc'.step = step
    BY <1>1 DEF PrStart, objects, caches, watches
  <2>2. "PipelineRun" \in prCurrent' => prWatch = << >>
    BY <1>1 DEF PrStart, ReadPipelineRun
  <2> QED
    BY <1>1, <2>1, <2>2 DEF CancelSeen, Marked
<1>2. CASE IgnoreRun
  <2>1. UNCHANGED <<pr, prWatch, prCache, prCurrent, prc>>
    BY <1>2 DEF IgnoreRun, objects, caches, watches, versions
  <2> QED
    BY <2>1, QuietSeen
<1>3. CASE Advance
  <2>1. ~Marked(prCache)
    BY <1>3 DEF Advance, Schedulable, Marked, TerminalPhases
  <2>2. \E step, todo, next : PrStart(step, todo, next)
    BY <1>3 DEF Advance
  <2> QED
    BY <1>1, <2>1, <2>2
<1>4. CASE AwaitApproval \/ StopOnFailure \/ RefuseCancel
  <2>1. \E step \in {"update", "clear"} : \E todo, next : PrStart(step, todo, next)
    BY <1>4 DEF AwaitApproval, StopOnFailure, RefuseCancel
  <2> QED
    BY <1>1, <2>1
<1>5. CASE BeginCancel
  <2>1. \E step \in {"update", "delete"} : \E todo, next : PrStart(step, todo, next)
    BY <1>5 DEF BeginCancel, PrStep
  <2> QED
    BY <1>1, <2>1
<1> QED
  BY <1>2, <1>3, <1>4, <1>5 DEF Reconcile

LEMMA PipelineRunSeen ==
    ASSUME TypeOK, CopiesHold, CancelSeen, PipelineRunStep
    PROVE  CancelSeen'
<1>1. /\ pr \in PipelineRuns /\ prWatch \in Seq(PipelineRuns)
      /\ prc \in [step : PrSteps, todo : SUBSET Tasks, next : PipelineRuns]
  BY DEF TypeOK, ClusterTypeOK, PrcTypeOK
<1>2. CASE CreateNext \/ DeleteNext
  <2>1. UNCHANGED <<pr, prWatch, prCache, prCurrent>>
    BY <1>2 DEF CreateNext, DeleteNext, caches
  <2>2. prc'.step = "create" => prc.step = "create"
    BY <1>1, <1>2 DEF CreateNext, DeleteNext, Done, PrStep
  <2> QED
    BY <2>1, <2>2, QuietSeen
<1>3. CASE UpdateStatus
  <2>1. /\ prc.step = "update"
        /\ "PipelineRun" \in prCurrent
        /\ PutPipelineRun(prc.next, "PipelineRun")
        /\ UNCHANGED prCache
    BY <1>3 DEF UpdateStatus, caches
  <2>2. prc'.step # "create"
    BY <1>1, <1>3 DEF UpdateStatus, PrIdle
  <2>3. prWatch = << >> /\ prCache = pr
    BY <2>1 DEF CancelSeen, CopiesHold, CacheCatchesUp
  <2>4. prc.next.phase = "Cancelled" => Marked(prCache)
    BY <2>1, <2>3
       DEF CopiesHold, DecisionFits, ReconcilerCopyHolds, Deciding, Marked
  <2> QED
    BY <1>1, <2>1, <2>2, <2>3, <2>4, WriteSeen
<1>4. CASE StatusConflict
  <2>1. /\ UNCHANGED <<pr, prWatch, prCache>> /\ prCurrent' \subseteq prCurrent
        /\ prc'.step # "create"
    BY <1>4 DEF StatusConflict, PrAbort, PrIdle, objects, caches, watches
  <2> QED
    BY <2>1, QuietSeen
<1>5. CASE ClearCancel
  <2> DEFINE obj == [pr EXCEPT !.cancel = FALSE]
  <2>1. obj \in PipelineRuns /\ obj.phase = pr.phase
    BY <1>1 DEF PipelineRuns
  <2>2. PutPipelineRun(obj, "PipelineRun") /\ UNCHANGED prCache /\ prc'.step # "create"
    BY <1>5 DEF ClearCancel, PrIdle, caches
  <2> HIDE DEF obj
  <2> QED
    BY <1>1, <2>1, <2>2, WriteSeen
<1> QED
  BY <1>2, <1>3, <1>4, <1>5, ReconcileSeen DEF PipelineRunStep, PrcNext

LEMMA DispatchSeen ==
    ASSUME TypeOK, CopiesHold, CancelSeen, DispatchStep
    PROVE  CancelSeen'
<1>1. /\ pr \in PipelineRuns /\ prWatch \in Seq(PipelineRuns)
      /\ DispatchNext /\ UNCHANGED prc
  BY DEF TypeOK, ClusterTypeOK, DispatchStep
<1>2. ASSUME NEW obj \in PipelineRuns, NEW client, PutPipelineRun(obj, client),
             UNCHANGED prCache, obj.phase = "Cancelled" => pr.phase = "Cancelled"
      PROVE  CancelSeen'
  BY <1>1, <1>2, WriteSeen
<1>3. CASE ApplyPipelineRun
  <2>1. [NoPipelineRun EXCEPT !.phase = ""] \in PipelineRuns
    BY RecordTypes DEF PipelineRuns, PipelineRunPhases
  <2>2. [NoPipelineRun EXCEPT !.phase = ""].phase = ""
    BY RecordTypes DEF PipelineRuns
  <2> QED
    BY <1>2, <1>3, <2>1, <2>2 DEF ApplyPipelineRun, caches
<1>4. CASE CancelPipelineRun
  <2> DEFINE obj == [pr EXCEPT !.cancel = TRUE]
  <2>1. obj \in PipelineRuns /\ obj.phase = pr.phase
    BY <1>1 DEF PipelineRuns
  <2>2. PutPipelineRun(obj, "Dispatch") /\ UNCHANGED prCache
    BY <1>4 DEF CancelPipelineRun, caches
  <2> HIDE DEF obj
  <2> QED
    BY <1>2, <2>1, <2>2
<1>5. CASE Revive
  <2> DEFINE obj == [pr EXCEPT !.phase = "Running"]
  <2>1. obj \in PipelineRuns /\ obj.phase = "Running"
    BY <1>1 DEF PipelineRuns, PipelineRunPhases
  <2>2. PutPipelineRun(obj, "Rerun") /\ UNCHANGED prCache
    BY <1>5 DEF Revive, caches
  <2> HIDE DEF obj
  <2> QED
    BY <1>2, <2>1, <2>2
<1>6. ASSUME NEW t \in Tasks, BeginRerun(t) PROVE CancelSeen'
  <2>1. /\ UNCHANGED <<pr, prWatch, prCache>>
        /\ "PipelineRun" \in prCurrent' => "PipelineRun" \in prCurrent
    BY <1>6 DEF BeginRerun, ReadPipelineRun, objects, caches, watches
  <2> QED
    BY <1>1, <2>1, QuietSeen
<1>7. CASE UNCHANGED <<pr, prWatch, prCache>> /\ prCurrent' \subseteq prCurrent
  BY <1>1, <1>7, QuietSeen
<1> QED
  BY <1>1, <1>3, <1>4, <1>5, <1>6, <1>7
     DEF DispatchNext, ApproveTask, RejectTask, RerunDeleteChild, RerunReset,
         RerunDeleteDownstream, NothingToRevive, RerunConflict, RerunAbort,
         prVars, objects, caches, watches, versions

LEMMA StepKeepsSeen ==
    ASSUME TypeOK, CopiesHold, CancelSeen, [Next]_vars
    PROVE  CancelSeen'
<1>1. CASE UNCHANGED vars
  <2>1. UNCHANGED <<pr, prWatch, prCache, prCurrent, prc>>
    BY <1>1 DEF vars, clusterVars, local, objects, caches, watches, versions
  <2> QED
    BY <2>1, QuietSeen
<1>2. CASE ClusterStep
  <2>1. UNCHANGED prc
    BY <1>2 DEF ClusterStep, local
  <2>2. CASE SyncPipelineRun
    BY <2>1, <2>2, SyncSeen
  <2>3. CASE UNCHANGED <<pr, prWatch, prCache, prCurrent>>
    BY <2>1, <2>3, QuietSeen
  <2> QED
    BY <1>2, <2>2, <2>3 DEF ClusterStep, ClusterNext, SyncTaskRun, SyncChild, ChildProgress,
       CollectGarbage, objects, caches, watches, versions
<1>3. CASE TaskRunStep
  <2>1. UNCHANGED <<pr, prWatch, prCache, prCurrent, prc>>
    BY <1>3 DEF TaskRunStep, TrcNext, ReconcileTaskRun, IgnoreTaskRun, PrepareApproval,
       StartChild, RetryJob, MirrorChild, TrStart, CreateOwnChild, DeleteOwnChild,
       UpdateTaskRun, RestampOutcome, RestampTaskRun, TaskRunConflict, TrAbort, objects, caches,
       watches, versions
  <2> QED
    BY <2>1, QuietSeen
<1>4. CASE CallFails
  <2>1. /\ UNCHANGED <<pr, prWatch, prCache>> /\ prCurrent' \subseteq prCurrent
        /\ prc'.step = "create" => prc.step = "create"
    BY <1>4 DEF CallFails, PrAbort, TrAbort, RerunAbort, PrIdle, objects, caches, watches
  <2> QED
    BY <2>1, QuietSeen
<1>5. CASE Restart
  <2>1. /\ pr' = pr /\ prCache' = pr /\ prWatch' = << >> /\ prCurrent' = {}
        /\ prc'.step = "idle"
    BY <1>5 DEF Restart, PrIdle, objects
  <2>2. Len(<< >>) = 0
    OBVIOUS
  <2>3. Len(prWatch') = 0
    BY <2>1, <2>2, Zenon
  <2> QED
    BY <2>1, <2>3 DEF CancelSeen, Marked
<1> QED
  BY <1>1, <1>2, <1>3, <1>4, <1>5, PipelineRunSeen, DispatchSeen DEF Next

\* While a run is Cancelled, every copy of it that may still be read keeps the reconciler
\* from scheduling.
THEOREM RequestIsSeen == Spec => []CancelSeen
<1>1. Init => CancelSeen
  BY DEF Init, ClusterInit, NoPipelineRun, CancelSeen
<1>2. TypeOK /\ CopiesHold /\ CancelSeen /\ [Next]_vars => CancelSeen'
  BY StepKeepsSeen
<1> QED
  BY <1>1, <1>2, TypeCorrect, CopiesAreCurrent, PTL DEF Spec

\* TaskRuns are created by the reconcile in hand only.
LEMMA OnlyReconcileCreates ==
    ASSUME [Next]_vars, prc.step # "create"
    PROVE  UNCHANGED births
BY DEF Next, vars, clusterVars, objects,
       ClusterStep, ClusterNext, SyncPipelineRun, SyncTaskRun, SyncChild, ChildProgress,
       CollectGarbage, PipelineRunStep, PrcNext, Reconcile, IgnoreRun, AwaitApproval,
       StopOnFailure, Advance, RefuseCancel, BeginCancel, PrStart, CreateNext, DeleteNext,
       UpdateStatus, StatusConflict, PrAbort, ClearCancel, TaskRunStep, TrcNext,
       ReconcileTaskRun, IgnoreTaskRun, PrepareApproval, StartChild, RetryJob, MirrorChild,
       TrStart, CreateOwnChild, DeleteOwnChild, UpdateTaskRun, RestampOutcome, RestampTaskRun,
       TaskRunConflict, TrAbort, DispatchStep, DispatchNext, ApplyPipelineRun, ApproveTask,
       RejectTask, BeginRerun, CancelPipelineRun, RerunDeleteChild, RerunReset,
       RerunDeleteDownstream, Revive, NothingToRevive, RerunConflict, RerunAbort, CallFails, Restart

\* A Cancelled run creates no TaskRun, though a reconcile may still see it as it was
\* before (applyCancelIfRequested): whatever the lag, the commands and the faults.
THEOREM CancelledIsOver == Spec => NothingAfterCancel
<1>1. CancelSeen /\ [Next]_vars => [pr.phase = "Cancelled" => births' = births]_vars
  BY OnlyReconcileCreates DEF CancelSeen
<1> QED
  BY <1>1, RequestIsSeen, PTL DEF Spec, NothingAfterCancel
=============================================================================
