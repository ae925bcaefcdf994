------------------------------ MODULE Cluster ------------------------------
(***************************************************************************)
(* What the runner's controllers and handlers share: the API server's      *)
(* objects of one PipelineRun, and the informer caches the manager's       *)
(* client reads them from.  It is the Kubernetes API as the code under     *)
(* src/ uses it:                                                           *)
(*  - every read (Get, List) is answered from a cache that lags behind;    *)
(*    one watch stream a kind carries the writes to it, in order, and the  *)
(*    event queues the objects' reconcilers (For, Owns);                   *)
(*  - Status().Update is refused with a Conflict when the object was       *)
(*    written since the version the caller read; Patch(MergeFrom) and      *)
(*    Delete never are; Create is refused when the name is taken;          *)
(*  - a write that changes nothing makes no new version and no event;      *)
(*  - a Job or Rollout belongs to one TaskRun object: it is collected some *)
(*    time after that object is deleted, and a deleted Job stays, holding  *)
(*    its name, until it is collected.                                     *)
(***************************************************************************)
EXTENDS DagScheduling, Sequences

CONSTANT Approvers    \* who may decide a task: sign an approval, or reject

\* The holders of copies a version is checked for.
Clients == {"PipelineRun", "TaskRun", "Rerun"}

VARIABLES
    pr,           \* the PipelineRun
    tr,           \* tr[t]: the TaskRun of task t
    child,        \* child[t]: the Job or Rollout of task t's TaskRun
    births,       \* births[t]: how many TaskRuns of t were ever created
    prWatch,      \* versions of the PipelineRun its cache has not received
    trWatch,      \* the same for the TaskRuns
    prCache,
    trCache,
    childCache,
    prQueued,     \* the PipelineRun is in its controller's work queue
    trQueued,     \* the TaskRuns in their controller's work queue
    prCurrent,    \* the clients whose copy of pr is its current version
    trCurrent     \* trCurrent[t]: the same for tr[t]

objects == <<pr, tr, child, births>>
caches == <<prCache, trCache, childCache>>
watches == <<prWatch, trWatch>>
queues == <<prQueued, trQueued>>
versions == <<prCurrent, trCurrent>>
prVars == <<pr, prWatch, prCurrent>>
trVars == <<tr, trWatch, trCurrent>>
clusterVars == <<objects, caches, watches, queues, versions>>

PipelineRunPhases ==
    {"", "Pending", "Running", "WaitingApproval", "Succeeded", "Failed", "Cancelled"}
TerminalPhases == {"Succeeded", "Failed", "Cancelled"}

\* cancel: the AnnCancelRequested annotation; approval: CurrentApproval's task;
\* tasks: the phase Status.Tasks reports for each task.
PipelineRuns ==
    [phase : PipelineRunPhases \cup {"Absent"}, approval : SUBSET Tasks,
     tasks : [Tasks -> SummaryPhases], cancel : BOOLEAN]

\* ref: JobRef or RolloutRef is set; asked: Status.Approval is, with those who approved
\* and the one who rejected last; uid: which of the TaskRuns of that name this is.
TaskRuns ==
    [phase : TaskRunPhases \cup {"Absent"}, ref : BOOLEAN, retries : Nat, asked : BOOLEAN,
     approvedBy : SUBSET Approvers, rejectedBy : SUBSET Approvers, uid : Nat]

\* A Job is Active until a pod of it Succeeded or Failed.  A Rollout is Succeeded
\* when Healthy, Failed in each phase reconcileDeploy takes for a failure, and
\* Active in the others.  owner: the TaskRun in its owner reference.
Children ==
    [status : {"Absent", "Active", "Succeeded", "Failed"}, owner : Nat, deleting : BOOLEAN]

NoTasks == [t \in Tasks |-> "Unscheduled"]
NoPipelineRun ==
    [phase |-> "Absent", approval |-> {}, tasks |-> NoTasks, cancel |-> FALSE]
NoTaskRun == [phase |-> "Absent", ref |-> FALSE, retries |-> 0, asked |-> FALSE,
              approvedBy |-> {}, rejectedBy |-> {}, uid |-> 0]
NoChild == [status |-> "Absent", owner |-> 0, deleting |-> FALSE]

ClusterTypeOK ==
    /\ pr \in PipelineRuns
    /\ tr \in [Tasks -> TaskRuns]
    /\ child \in [Tasks -> Children]
    /\ births \in [Tasks -> Nat]
    /\ prWatch \in Seq(PipelineRuns)
    /\ trWatch \in Seq([task : Tasks, obj : TaskRuns])
    /\ prCache \in PipelineRuns
    /\ trCache \in [Tasks -> TaskRuns]
    /\ childCache \in [Tasks -> Children]
    /\ prQueued \in BOOLEAN
    /\ trQueued \in SUBSET Tasks
    /\ prCurrent \in SUBSET Clients
    /\ trCurrent \in [Tasks -> SUBSET Clients]

ClusterInit ==
    /\ pr = NoPipelineRun
    /\ prCache = NoPipelineRun
    /\ tr = [t \in Tasks |-> NoTaskRun]
    /\ trCache = [t \in Tasks |-> NoTaskRun]
    /\ child = [t \in Tasks |-> NoChild]
    /\ childCache = [t \in Tasks |-> NoChild]
    /\ births = [t \in Tasks |-> 0]
    /\ prWatch = << >>
    /\ trWatch = << >>
    /\ prQueued = FALSE
    /\ trQueued = {}
    /\ prCurrent = {}
    /\ trCurrent = [t \in Tasks |-> {}]
-----------------------------------------------------------------------------
(* Writes.  After its write, `client' is done with its copy of the object; a write *)
(* that makes a new version leaves no current copy.                                *)

PutPipelineRun(obj, client) ==
    IF obj = pr
    THEN /\ prCurrent' = prCurrent \ {client}
         /\ UNCHANGED <<pr, prWatch>>
    ELSE /\ pr' = obj
         /\ prWatch' = Append(prWatch, obj)
         /\ prCurrent' = {}

PutTaskRun(t, obj, client) ==
    IF obj = tr[t]
    THEN /\ trCurrent' = [trCurrent EXCEPT ![t] = @ \ {client}]
         /\ UNCHANGED <<tr, trWatch>>
    ELSE /\ tr' = [tr EXCEPT ![t] = obj]
         /\ trWatch' = Append(trWatch, [task |-> t, obj |-> obj])
         /\ trCurrent' = [trCurrent EXCEPT ![t] = {}]

\* A new version that differs in nothing the model keeps of a TaskRun.
RestampTaskRun(t) ==
    /\ trWatch' = Append(trWatch, [task |-> t, obj |-> tr[t]])
    /\ trCurrent' = [trCurrent EXCEPT ![t] = {}]
    /\ UNCHANGED tr

NewTaskRun(t) == [NoTaskRun EXCEPT !.phase = "", !.uid = births[t] + 1]

\* The TaskRun's name is generated: one more is created whatever there is.
MutCreateTaskRun(t) ==
    /\ PutTaskRun(t, NewTaskRun(t), "")
    /\ births' = [births EXCEPT ![t] = @ + 1]

CreateTaskRun(t) ==
    IF Exists(tr, t)
    THEN UNCHANGED <<trVars, births>>      \* AlreadyExists
    ELSE /\ PutTaskRun(t, NewTaskRun(t), "")
         /\ births' = [births EXCEPT ![t] = @ + 1]

DeleteTaskRun(t) == PutTaskRun(t, NoTaskRun, "")

CreateChild(t, owner) ==
    IF child[t].status = "Absent"
    THEN child' = [child EXCEPT ![t] =
                     [status |-> "Active", owner |-> owner, deleting |-> FALSE]]
    ELSE UNCHANGED child                   \* AlreadyExists

\* batch/v1 deletes a Job by orphaning its pods first; a Rollout is gone at once.
DeleteChild(t) ==
    CASE child[t].status = "Absent" -> UNCHANGED child      \* NotFound
      [] child[t].status # "Absent" /\ Type[t] = "Canary" ->
            child' = [child EXCEPT ![t] = NoChild]
      [] OTHER -> child' = [child EXCEPT ![t].deleting = TRUE]

\* Who holds the current version after `client' read the cache.
ReadPipelineRun(client) ==
    IF prWatch = << >> THEN prCurrent \cup {client} ELSE prCurrent \ {client}

TaskRunCacheCurrent(t) == \A i \in 1..Len(trWatch) : trWatch[i].task # t

ReadTaskRun(client, t) ==
    [trCurrent EXCEPT ![t] = IF TaskRunCacheCurrent(t) THEN @ \cup {client} ELSE @ \ {client}]
-----------------------------------------------------------------------------
(* What the cluster does by itself. *)

\* The watch stream delivers the next version of the PipelineRun.
SyncPipelineRun ==
    /\ prWatch # << >>
    /\ prCache' = Head(prWatch)
    /\ prWatch' = Tail(prWatch)
    /\ prQueued' = TRUE
    /\ UNCHANGED <<objects, trCache, childCache, trWatch, trQueued, versions>>

\* The next TaskRun event.  The PipelineRun's controller Owns the TaskRuns.
SyncTaskRun ==
    /\ trWatch # << >>
    /\ LET event == Head(trWatch) IN
          /\ trCache' = [trCache EXCEPT ![event.task] = event.obj]
          /\ trQueued' = trQueued \cup {event.task}
    /\ trWatch' = Tail(trWatch)
    /\ prQueued' = TRUE
    /\ UNCHANGED <<objects, prCache, childCache, prWatch, versions>>

\* A Job's or Rollout's state reaches the cache.  The TaskRun's controller Owns both.
SyncChild(t) ==
    /\ childCache[t] # child[t]
    /\ childCache' = [childCache EXCEPT ![t] = child[t]]
    /\ trQueued' = trQueued \cup {t}
    /\ UNCHANGED <<objects, prCache, trCache, watches, prQueued, versions>>

\* A Job runs to its end; a Rollout moves between the three classes of phases.
ChildProgress(t) ==
    /\ child[t].status = "Active" \/ (Type[t] = "Canary" /\ child[t].status # "Absent")
    /\ \E status \in {"Succeeded", "Failed"} \cup (IF Type[t] = "Canary" THEN {"Active"} ELSE {}) :
          /\ child[t].status # status
          /\ child' = [child EXCEPT ![t].status = status]
    /\ UNCHANGED <<pr, tr, births, caches, watches, queues, versions>>

\* Deleted, or owned by a TaskRun that is no more.
Doomed(t) == /\ child[t].status # "Absent"
             /\ child[t].deleting \/ child[t].owner # tr[t].uid

CollectGarbage(t) ==
    /\ Doomed(t)
    /\ child' = [child EXCEPT ![t] = NoChild]
    /\ UNCHANGED <<pr, tr, births, caches, watches, queues, versions>>

ClusterNext ==
    \/ SyncPipelineRun
    \/ SyncTaskRun
    \/ \E t \in Tasks : SyncChild(t) \/ ChildProgress(t) \/ CollectGarbage(t)
=============================================================================
