# Formal model of the runner

The runner is the agent of a software-distribution platform inside a Kubernetes
cluster. It holds a websocket to a central Hub, turns the Hub's commands into
custom resources, and drives these to their end with three controllers:

- a **PipelineRun** is a DAG of tasks; its controller creates a **TaskRun** for
  every task whose dependencies are met,
- a TaskRun is a Job, a manual approval or a canary deployment; its controller
  creates the Job or the **Rollout** and mirrors its outcome,
- a Rollout moves traffic from a stable to a canary Deployment step by step.

The same websocket carries status reports, the operations the Hub asks of the agent itself
(a command to execute, an upgrade of the runner) and the logs of the Jobs. This directory
models those parts in TLA+, model-checks them with TLC and proves
the central results with TLAPS. Line numbers are those of the sources under `src/`.

## 1. Inventory

### Components, their state and their operations

| Part | State | Operations |
|---|---|---|
| DAG scheduling: functions of `pipelinerun_controller.go`, `pipelinerun_cancel.go` and `rerun_handler.go` | none | findRunnableTasks, hasFailedTask, allTasksSucceeded, findPendingApproval, summarizeTasks, cancelledTaskSummary, downstream tasks |
| PipelineRun controller `pipelinerun_controller.go`, `pipelinerun_cancel.go` | the PipelineRun's status, its TaskRuns | Reconcile: wait for approval, fail, schedule, succeed; cancel: delete TaskRuns, write Cancelled, clear the annotation |
| TaskRun controller `taskrun_controller.go` | the TaskRun's status, its Job or Rollout | reconcile approval, Job (create, mirror, retry) and deploy (create, mirror) |
| Hub command handlers `internal/dispatch/*` | PipelineRun annotations and status, TaskRun status, Rollout annotations | apply, approve, reject, cancel, rerun, rollout pause / promote / rollback |
| Rollout controller `rollout_controller.go` | the Rollout's status and annotations, two Deployments, Service, Ingress | Reconcile: commands, aborted / paused / terminal hold, pause stamp, probe, evaluate, scale, status |
| Canary engine `pkg/canary/engine.go` | none | Evaluate, RollbackDecision |
| Connector `pkg/connector/client.go` | outbox channel (256), connection, backoff, stored credential | Run, connectAndServe (dial, enroll, identity, hook, heartbeat, write), Send, read loop |
| Resync, reports `ResyncAll`, `reportStatus` in `pipelinerun_controller.go` | the goroutines that report | reportStatus, ResyncAll |
| Agent operations `internal/agentops/handler.go` | a goroutine per command, its Job | execute, createExecJob, watchJob, drainLogs, executeUpgrade |
| Log streaming `maybeStreamLogs`, `pkg/logstream` | the map of streams, a goroutine per stream | maybeStreamLogs, SplitChunks, StreamLogs |
| Job builder, probes, snapshots, RBAC bootstrap, metrics, API types | none that a decision reads | rendering, reading |

`PROJECT.json` lists all of them with what is modelled of each and why the rest is not.

### How they interact

The controllers and the handlers share no memory: between them everything goes through the
API server. A controller reads **informer caches** that lag behind it; a watch stream
per kind carries each new version to the cache in order and queues the
reconcilers of the object and of its owner (`For`, `Owns`). What a reconcile reads may
therefore be older than what the same controller wrote last. Writes come in two sorts:

- `Status().Update` is refused with a Conflict if the object was written since
  the copy's version;
- `Patch(MergeFrom)` and `Delete` carry no version and always land.

Each controller has one worker, so two reconciles of a kind never overlap, but between two
API calls of a reconcile any other client may act: the other controllers, the
connector's read loop with its handlers, the garbage collector, the Job
controller. A reconcile that fails is queued again; a handler that fails is only
logged, so its command is lost.

To the Hub everything goes through one **outbox**, a bounded channel. Any goroutine may put
a frame in, and waits if there is no room; one goroutine (`Connector.Run`) dials,
announces the runner, calls the resync hook and then takes frames out and writes them. The
outbox outlives connections, not the process. A frame that was taken out and could not be
written is gone, and nothing is acknowledged.

### What is hard, and the properties it calls for

- *Two writers of one status.* The rerun handler writes PipelineRun status beside the
  reconciler; the cancel lands as an unversioned patch in the middle of a reconcile. What
  the phase may do from outside is the abstract module `RunLifecycle`.
- *Commands that nothing guards.* The approve handler decides on the TaskRun of any task,
  whatever its type and phase, beside the controller that mirrors its Job: `DagOrder`,
  `OutcomeIsTrue`, `SuccessIsEarned`, `OnlyRerunReopens` hold with such decisions.
- *Stale reads.* Tasks are scheduled from a list that may lack the TaskRuns just
  created or show deleted ones: `DagOrder`, `GateHolds`, `OutcomeIsTrue`,
  `StartedOncePerRerun`.
- *Partial failure of multi-call operations.* Cancel and rerun make several calls;
  each may fail, or the process may restart in between: `CancelLeavesNothing`,
  `CancelKeepsOutcomes`, `CancelledSummaryIsFinal`, `NothingAfterCancel`,
  `OnlyRerunReopens`.
- *Names that outlive their object.* A Job's name is fixed and AlreadyExists is
  taken for success: `SuccessIsEarned`.
- *Wake-ups.* No reconcile of a PipelineRun asks to be called again; progress hangs
  on events: `RunSettles`, `CancelHonoured`, `RolloutEnds`, `AbortHonoured`.
- *Unversioned scaling from old copies.* A reconcile that evaluated before an
  operator's command still scales after it: `AbortSticks`, `PauseHolds`,
  `DecisionsHeed`, `ExposureBounded`.
- *Time.* Probes, their pacing and timed pauses: `PacedFailures`.
- *A queue with one reader.* The goroutine that drains the outbox puts frames into it too:
  `KeepsServing`, `Reconnects`.
- *Connections that break, processes that end.* What the Hub must learn all the same:
  `ReportsAccounted`, `EndLearnt`, `OpsAnswered`, `UpgradeHeard`.
- *Two things read one after the other.* The status of an exec Job is read before its
  output: `OutcomeEarned`, `OutputComplete`, `LedgerInOrder`.
- *Two streams of one log, and lines that do not fit:* `LogsInOrder`, `ChunksFit`.

The full list, each at its line, is `hazards` in `PROJECT.json`.

## 2. The modules

```
DagScheduling          pure scheduling functions
  Cluster              API server, caches, watch streams, work queues
    PipelineRunReconciler   variable prc, the reconcile in hand
    TaskRunReconciler       variable trc
    Dispatch                the Hub's handlers, variable rerun
      Runner           the three composed, faults, fairness, properties
        MCRunner       instances for TLC
        RunnerProofs   theorems: types, copies, the lifecycle, Cancelled runs
          TaskRunProofs    theorems: old copies of TaskRuns, retries, signatures
            OutcomeProofs  theorems: the DAG's order, the gate, outcomes, cancel, reruns,
                           success is that of the Job
RunLifecycle           what the runner promises of a run, in terms of phase and request
CanaryEngine           Evaluate
  Rollout              the Rollout controller with its operator commands
    MCRollout          instances for TLC
    RolloutProofs      theorems: types, copies, the hold flags
      WalkProofs       theorems: exposure, the share of replicas, the pace of failures, the walk
RolloutWalk            what the runner promises of a Rollout, in terms of its steps and flags
Sums                   the total of a sequence of numbers
Connector              outbox, connection, backoff, credential
  StatusReports        a run's status, its reports, the resync
  AgentOps             the goroutines of exec and upgrade commands, their Jobs
  LogStream            the streams of a Job's log
    HubLink            the four composed, restarts, fairness, properties
      MCHubLink        instances for TLC
      HubLinkProofs    theorems: reports, outcomes, the order of output
        OutputProofs   theorem: the output is complete
        LogProofs      theorems: the chunks of a log, types, the order of logs
```

**DagScheduling** translates the pure functions that `pipelinerun_controller.go`,
`pipelinerun_cancel.go` and `rerun_handler.go` decide by. A pipeline is given by the
constants `Tasks`, `DependsOn`, `Stage`, `Order` and `Type`; `Earlier` is the order a
Serial stage imposes. They are ordinary (not RECURSIVE) operators and functions, so that
the modules above can be reasoned about in proofs.

**Cluster** is the environment (external code, modelled as the controllers use
it). `pr`, `tr[t]`, `child[t]` are the objects; `child` is the Job or
Rollout of a task in the three classes of states the TaskRun controller tells apart.
`births[t]` counts the TaskRuns of a name, which is what owner references (UIDs) need.
`prWatch` and `trWatch` are the streams of versions not yet received; `prCache` and
`trCache` are what has been. The child's cache jumps to the current state, since the
controller reads nothing of the states in between. Optimistic concurrency is kept by
`prCurrent` and `trCurrent[t]`: the set of clients whose copy is the current
version. Reading puts a client in if its cache has caught up, any write that
makes a new version empties the set; so resource versions need no counter. A
no-op write makes no version and no event; a write of a timestamp the model does not keep
makes one all the same (`RestampTaskRun`). A deleted Job lingers, holding its
name, until the garbage collector takes it; a Rollout is gone at once.

**PipelineRunReconciler** has one action per API call. The decision is one step
(`AwaitApproval`, `StopOnFailure`, `Advance`, `RefuseCancel`, `BeginCancel`, `IgnoreRun`),
since it reads the cache and changes nothing outside; `prc` then holds what is left to do:
the TaskRuns to create or delete, and the status to write. The two kinds it reads are read
in one step; a state of the caches in between is one that another order of
deliveries gives as well. **TaskRunReconciler** is built alike.
A Job's outcome is mirrored once; a Rollout's on every reconcile, with a new completion
time, so that an unchanged phase still makes a version (`RestampOutcome`).

**Dispatch** has the handlers. One that reads an object and writes it once is a
single step, which lands only if the cached copy was current (a Conflict loses the command
and changes nothing). `ApproveTask` and `RejectTask` ask for no type and no phase, as the
handler finds the TaskRun by its labels alone: an approval makes a running Job task Succeeded,
a rejection turns one that has succeeded into Failed, though the protocol speaks of "a paused
Approval-type task" (gateway_payloads.go:73-77). `Deciders` is the Hub's side of it: in whose
name it decides on each task. `Rerun` is done call by call: delete the child, reset the
TaskRun, delete the dependents, revive the run.

**Runner** composes them by interleaving. `CallFails` ends a reconcile or a rerun before
its next call; `Restart` forgets what is in hand and lists the caches anew.

**RunLifecycle** is the abstract specification: a Succeeded or Cancelled run stays
so; a live run with a cancel request is moved only to Cancelled, and never to Cancelled
without one; and only a rerun brings a Failed run back. For the last its state has
`reviving`, which is up while a rerun that found the run Failed is at its last call: that
call moves the run and takes the flag down in one step, so a reconcile that wrote Running
over Failed would be no step of it, not even during a rerun. `Runner` implements it under
`phase <- pr.phase`, `request <- pr.cancel`, `reviving <- Reviving`.

**CanaryEngine** is `Evaluate` as a function of spec, status, readiness and health. A
probe's result and the end of a pause are Booleans.

**Rollout** has the Rollout with its annotations (`ro`), its cache and stream, two
Deployments, and the reconcile in hand (`roc`), which passes from evaluating to scaling
to the status update; operator commands go through the annotation and have their own
steps. `current` is the version check. Time is three Booleans: `timer`
(RequeueAfter), `due` (the 30 s pacing of probes), `elapsed` (the stamped
pause is over); each may change at any moment once it can. Weights are real percentages,
and `WeightReplicas` rounds as the code does.

**RolloutWalk** is the abstract specification of a Rollout. While neither flag is up it
leaves its steps one by one, takes on no weight but that of the step it is at or goes to, is
Healthy only after the last one, and, once it is Failed or RolledBack, moves again only as a
promote does; a pause keeps step and weight; an abort is never undone, and takes the weight
away for good. It knows of no cache, no version, no pods and no time. `Rollout` implements
it under `plan <- Weights` (the weights of the spec's steps), `phase`, `index`, `weight <-
ro.status` and the two flags of `ro`.

**Connector** is the goroutine of `Run` as a state machine (`link`): asleep or dialling, about
to send the identity frame, about to call the hook, in the hook's resync, in the select
loop, or in its heartbeat case. `Send` needs room in the outbox, whoever calls it. `alive`
says whether the connection is up: it may break at any moment, and the loop notices later.
A frame written while it is up reaches the Hub at once, one written afterwards is
lost, so a frame that was on its way when the connection broke is one written
after the break. `enrollment` is the bearer of the next dial: an enroll token is *burned* when
the Hub consumed it and what it gave in return was not stored; from then on every
dial is turned down (`LockedOut`). The backoff is in seconds and doubles below its cap, so
the real one, capped at 30, gets to 32.

**StatusReports** has a status as a number and whether the run is live, failed (a rerun may
bring it back) or over. Each update starts a goroutine (`reporting`) that queues one
report; they reach the outbox in any order. `ResyncAll` reports what the cache has, and
only what is not over. The hook is registered before the cache has started (`wired`).
`lost` collects the reports that were dropped: it has no counterpart in the code.

**AgentOps** has a goroutine per delivery of a command; the Hub may deliver a command again. The
goroutine of an exec goes step by step: announce, create the Job, then per tick get its
status, read its log beyond the offset, send what is new, and decide by the status it
got *before* the log. Output is counted: a frame carries the lines from an offset up to
another. An upgrade probes for its Job, creates it under a name made from
the operation, and is then left to it: `UpgradeRollsOut` ends the process and starts one of
the new version. `ledger` is what the Hub has of every operation, `agent` the version it last
heard of. The Hub's row keeps the first outcome it hears.

**LogStream** has the map that keeps the stream of a Job single, a goroutine per stream that
waits for the pod, reads its log to the end it has then, and sends it in chunks.
`SplitChunks` is the code's loop as a recursive function of the lines scanned so far, with
`AddLine` as its body; of a line only the size counts. Running lengths are totals of module
**Sums**.

**HubLink** composes them: the four share `outbox`. `Restart` and `Upgrade` empty the
outbox, the map and all goroutines; objects in the cluster, the stored credential and what
the Hub has stay.

### Abstractions

Messages, timestamps, names and pod templates are left out. Status reports to the Hub write
no object, so they are no part of the Runner's state; module StatusReports has them, and
there the reconcilers in turn are reduced to the updates they make. RBAC and CA objects made
before the Job are covered by `CallFails`. A task without a TaskRun is reported Pending
without a reference; the model calls that phase "Unscheduled". To the Runner a Rollout is a
child that moves freely between its classes of states; that admits every behaviour of module
Rollout. One PipelineRun is modelled: runs share no object and no name.

## 3. What is checked

Runs that pass:

| Run | Instance | Shows |
|---|---|---|
| `gated` | build Job → approval with two signatures → deploy Job; approve and reject (the approval), cancel | types; DAG order and the gate under stale lists; signatures survive concurrent writers; a cancel request is not lost; the final summary leaves no task open |
| `settles` | two Jobs in a Serial stage; reject (the first Job), cancel; fairness | DAG order and true outcomes, though a Job that has let the next one start, or has ended the run, is rejected; every applied run ends; every cancel request is honoured |
| `rerun` | one Job; reject, cancel and rerun; one fault | the inductive invariants `CopiesHold` and `CancelSeen`; the lifecycle with two writers of status; nothing is scheduled after Cancelled; only reruns reopen a Job task, and only the Hub overrules its outcome |
| `redo` | approval → Job; approve, and a rerun of the approval | a rerun starts each dependent at most once more |
| `retry` | a TaskRun with two retries, of a Job or of a Rollout, by itself; approve, reject; two faults | up to the first retry a success that nobody approved is that of the Job in place; a failure that nobody rejected comes after all retries |
| `rollout` | 50 % → timed pause → 100 % of two pods with auto rollback, and one probed step to half of three pods without; one command, one fault; fairness | the inductive invariant `DecisionsHeed`; the two Deployments are scaled to shares of the replicas, none lost to rounding (`ScalesSplit`); the walk of module RolloutWalk is implemented; an abort stands; a pause holds step and weight; exposure bounded by the plan; failures paced; over means over; rollbacks are carried out; rollouts end |
| `hublink` | two status updates, heartbeats, an exec, an upgrade and a refused command; one fault (a break, a burned token, a restart); fairness | types and bounds; no report is forgotten; from anywhere the connection gets to be served; the end of a run is learnt; every command is answered; an upgrade is heard of |
| `operations` | two deliveries, to an exec and an upgrade or twice to one of them, two lines of output; two starts of a Job with one of four logs; one fault | outcomes are earned; output is in order, and complete when nothing failed; chunks fit and cannot be fuller; a log is whole lines in their order |

Runs that are expected to be violated, each a disagreement between code and what
its own comment or protocol says:

| Run | The code | It says |
|---|---|---|
| `cancel_leaves_work` | a TaskRun the cache did not show yet survives the cancel | a cancel "tears down every in-flight TaskRun" (protocol.go:18) |
| `cancel_forgets_outcome` | a cancel retried after a conflict reports a succeeded task as Skipped | "a mid-way failure is safe to retry" (pipelinerun_cancel.go:21) |
| `rollout_resurrects` | a rollback at the failure threshold leaves phase RollingBack, and the walk goes on | a later reconcile "must not resume the step walk" (rollout_controller.go:136) |
| `reconnect_stalls` | with the outbox full, the identity frame or the resync waits for room that only the same goroutine could make | Run keeps "maintaining the connection and reconnecting ... on any failure" (client.go:193) |

Other behaviours the models show; no property speaks of them, or one leaves them out:

- The Hub may decide on any task, at any time. An approval may be decided again after its
  end; reject after approve turns it Failed. A Job task that is approved is Succeeded
  while its Job still runs, or after it has failed; one that is rejected is Failed although
  its Job succeeded, the tasks behind it have started, or the run has ended Succeeded. A
  decision on a Canary task lasts until its Rollout is mirrored again. `DagOrder`
  therefore speaks of tasks that have *got past* (`Passed`: a rejected Job may have);
  `OutcomeIsTrue`, `RetriesExhausted` and `SuccessIsEarned` leave out a Job that was decided
  on the other way, and `OnlyRerunReopens` allows a decision to overrule an outcome, but not to
  open the task. `GateHolds` and `SignatureKept` need no exception.
- A TaskRun that was reset may adopt the old Job, which is being deleted, though
  rerun_handler.go:73 has it rebuilt "from scratch". When that Job is collected the
  TaskRun finds none and is never queued again: with reruns `RunSettles` does not hold, and
  `settles` has none. And while the cache still shows the old Job, its success may be taken
  for that of the new one: `SuccessIsEarned` is stated until something is rerun.
- After a retry the cache may still show the Job that was deleted. A second retry decided on
  it deletes the new Job as a failed one, even one that has succeeded, and the success of that
  Job may then be taken for its successor's; `SuccessIsEarned` therefore speaks of a task up to
  its first retry.
- A cancel request that is on its way when the run fails may meet the run that a rerun brought
  back. The cancel is then taken for one of the revived run, or is removed from it; the
  theorems about requests and about starts, and `CancelKept`, leave it out.
- A run that fails while a rerun is under way stays Failed, though the comment at
  rerun_handler.go:99 wants it revived.
- Within the interval after a failed probe ready pods count as health, so a step may be left
  that rollout_controller.go:170 says the canary has not passed.
- A rollout promoted into a pause at weight 0 never ends (no pods, never ready), and a
  failing probe inside a timed pause holds it there; `RolloutEnds` leaves these out.
- A rollout that was rolled back at the failure threshold keeps its count. When it is promoted
  it is rolled back again, and counts one more failure, before it has a pod and without a
  check; `PacedFailures` speaks of counts up to the threshold.
- A scale that fails is logged only; in the aborted hold nothing queues another
  reconcile. `AbortHonoured` leaves those behaviours out (`lost`).
- The last report the Hub takes need not be the latest: each has a goroutine of its own, and a
  frame carries no version. A final report that is dropped is not sent again, for the
  resync leaves out runs that are over. `EndLearnt` says what remains.
- Frames left in the outbox by the last connection are written before the identity of the
  new one.
- A command delivered twice makes two Jobs (`GenerateName`); a second upgrade is reported
  failed if it loses the race for the Job's name, although the first is in flight. `LedgerInOrder`
  and `OutputComplete` speak of operations delivered once.
- The deadline of an exec ends the watch and not the Job. A log that cannot be read is to be
  "retried next tick", and after the last tick there is none.
- A restart forgets the operations it was watching; nobody answers them (`OpsAnswered` excepts
  it). Their Jobs go on.
- A log is read once, without following, so what the pod writes later is not sent; and a
  stream that starts after another has ended sends the log again (`LogsInOrder` allows a
  new beginning).

### Bounds

`MaxLag` is the number of undelivered versions a stream may hold when another write is made;
1 already lets every copy be stale, and two versions be on their way at once. `MaxFaults`,
`MaxReruns`, `MaxCommands` count failed calls and restarts, reruns and operator commands.
`HubCommands` and `RerunTasks` select what the Hub sends. `MaxRetries` is 0 for tasks of a
run, because `buildTaskRun` copies no RetryPolicy; `retry` starts from a TaskRun that has
one and allows two, the least that shows a retry decided on the cache that the last one left
behind. Three tasks are the least with a gate that has work before and behind it; two
signatures the least that can be lost. `Deciders` says in whose name the Hub decides which
task. In `gated` that is the approval alone, in the name of either approver, who are
interchangeable there (`SYMMETRY`; the run has no liveness property). Decisions on Jobs are
in `settles`, `rerun` and `retry`, where they meet the order of two tasks, a rerun and a
retry; all of them at once, on three tasks, is left to the proofs. Two replicas make 50 %
one pod and 100 % two; of three, 50 % is rounded.

For HubLink: `OutboxCap` is the outbox's capacity, 8 in the runs that pass, which is more than
all that can be in it at once, and 2 in `reconnect_stalls`. That is the condition under
which the liveness properties hold, and the finding is what happens without it; the real capacity
of 256 is reached by a runner that is disconnected while work goes on. `BackoffCap` is 1,
as nothing depends on the length of a sleep. `MaxBeats`, `MaxUpdates`, `MaxDeliveries`,
`MaxOutput`, `MaxStarts` and `MaxFaults` count heartbeats in the outbox, status updates,
commands, lines of all exec Jobs, starts of the streamed Job, and faults. Two updates can
overtake each other, two lines be sent in two pieces, two deliveries be of one operation, and
two starts race. The four logs have lines that fill a chunk, do not fit, are longer than
a chunk, and longer than the scanner takes. `OneTopic` gives the connection to reports
with heartbeats, to commands, or to a log, but not to two of them at once: their
product is too large, and they share nothing but the outbox. No action with fairness
begins one of the three, so the liveness properties are not touched.
 
Deadlock is not checked, since a finished run really stops.
The proofs in section 4 need no bound at all: they hold for all values.

### Fairness

Weak fairness for deliveries, the Job controller, the garbage collector and the step a
controller has in hand. Strong fairness for taking a given TaskRun out of the work queue:
the queue is FIFO, so an item in it is served, although others are served in between.
Nothing is assumed of the Hub or of the operator, nor of a Canary's progress. For
the Rollout, weak fairness for deliveries, the passing of time, pods and the
reconciler. Faults are bounded, so they end.

In HubLink, weak fairness for a successful dial (the Hub answers sometime), for the steps of
the connector's goroutine, for the goroutines that queue reports and for those of commands,
all of which the Go scheduler runs. Strong fairness for noticing a broken connection,
because a select chooses at random among the cases that are ready, and for an operation's
deadline, which is on a clock and makes every call of its goroutine fail. Nothing is assumed
of status updates, of the ticker, of the streams, nor of the start of the manager.

## 4. What is proved

All theorems hold for every pipeline, set of approvers, set of Rollout specs, selection of
commands, and for all bounds on lag, faults, reruns and commands, from the assumptions
the modules name on their constants (`DagAssumption`, `RetriesAssumption`,
`DispatchAssumption`, `BoundsAssumption`, `RolloutAssumption`: the constants are of
their types). The library's facts about sequences, finite
sets and the well-founded order of the naturals are used as they stand.

**RunnerProofs**

- `TypeCorrect`: `Spec => []TypeOK`.
- `CopiesAreCurrent`: `Spec => []CopiesHold`.
- `LifecycleImplemented`: `Spec => ImplementsLifecycle`.
- `RequestIsSeen`: `Spec => []CancelSeen`.
- `CancelledIsOver`: `Spec => NothingAfterCancel`.

The lifecycle itself is not inductive: a reconcile in hand will write a phase
it chose some time ago. What makes the write harmless is that the version check passes
only if the copy is the current version, and then what the reconcile saw is what is there.
That is `CopiesHold`: the stream ends with the object (`CacheCatchesUp`), a run not
applied was never written (`NotAppliedYet`), the phase to be written fits the request seen
(`DecisionFits`), and while the reconciler's (`ReconcilerCopyHolds`) or the rerun
handler's (`RerunCopyHolds`) copy is current, the run is live with the request as seen,
respectively Failed. The last two are established by a read, from `CacheCatchesUp`. With
this invariant each step of `Runner` is a step of `RunLifecycle` or a stutter. A rerun that
gets to its last call, or fails or ends there without writing, is the step Turn, which moves
nothing; the one that writes is Revive, and `RerunCopyHolds` says that it finds the run Failed.

The last two theorems are about the cancel. Creating TaskRuns passes no version check, so
`CopiesHold` is not enough. The argument is the order of the cancel's writes: the status is
Cancelled before the request is removed, and at the moment it is written nothing is on its
way to the cache. So every copy of a Cancelled run still to be read bears the request or the
phase (`Marked`), and either keeps the reconciler from scheduling. A reconcile that is
creating TaskRuns already is the only worker of its controller, so nobody cancels meanwhile.

**RolloutProofs**

- `TypeCorrect`: `Spec => []TypeOK`; with it lemmas about the engine (`EvaluateType` and
  what it rests on): whatever it sees, it decides on a percentage and integer scales.
- `CopiesAreCurrent`: `Spec => []DecisionsHeed`.
- `AbortIsFinal`, `PauseIsKept`, `EndIsKept`: the action properties `AbortSticks`,
  `PauseHolds` and `OnlyCommandsReopen`.

A decision reaches the status two calls after it was taken. `DecisionHeedsFlags` and
`DecisionHeedsEnd` say of one that will pass the version check that it leaves alone
what the flags and the end of the rollout protect *now*: raising a flag makes a new
version, so the check fails; and only the reconciler itself lowers one.

**HubLinkProofs**, from `ConnectorAssumption`, `ReportsAssumption` and `OpsAssumption`

- `NoReportForgotten`: `Spec => []ReportsAccounted`.
- `SuccessesAreEarned`: `Spec => []OutcomeEarned`.
- `OutputInOrder`: `Spec => []LedgerInOrder`.

For the first, a report must be where the previous state had it or one place on, and a
report may be dropped only after a fault: `ReportsKept` adds that a connection which is not
up while the goroutine believes it is has broken. All steps but an update, a loss and the
end of the process are *careful* (`Careful`), and one lemma serves these.
For the second, `EarnedKept` says of every success on its way, in a goroutine
(`DeliveryOK`) or in the outbox (`FrameOK`), that it was earned: the Job of a delivery
is absent until its goroutine creates it, and what has succeeded stays so.
For the third, `OrderKept` says that of an operation commanded once the ledger, then the
frames in the outbox, then the offset of the goroutine are in order, and that before the
Job is created there is nothing. Lemmas about queues (`AppendContent`, `TailHeard`) show that
a frame put in or taken out keeps them so; what a goroutine does is one of `Works`, `Tells` and
`Ships`.

**TaskRunProofs**

- `TaskRunsAreSound`: `Spec => []TaskRunsHold`, on which the others rest.
- `FailureIsEarned`: `Spec => []RetriesExhausted`.
- `FinishedStaysFinished`: `Spec => OnlyRerunReopens`.
- `SignaturesStay`: `Spec => SignatureKept`.

What a reconcile writes was decided on a cached copy, so the invariant speaks of every version
of a TaskRun that may still be read (`Versions`: the object, the cache, the stream). Each is
`Sound`: it is none at all or one of those created; a Job that failed has its retries used up
or was rejected; an approval that succeeded has its signatures. A status in hand is sound
too, and *follows* the TaskRun if its version check would pass (`Follows`: same TaskRun, no
fewer signatures, a rejection is not forgotten, and a finished Job is still finished, with the
other outcome only if the Hub's decision shows in it). What a reconcile writes moreover has the
`SameOutcome`; what the Hub decides need not. `CatchesUp` makes that so when the cache is read.
Soundness alone gives the first property, `Follows` and `SameOutcome` the two others. One
lemma (`StepTaskRuns`) reduces the actions to what they may do to a TaskRun (`TaskRunMove`:
created, deleted, reset, or followed by a newer version, with the same outcome unless the Hub
decides).

**OutcomeProofs**

- `RunsHold`: `Spec => []RunHolds`, the invariant of a run until something is rerun.
- `TasksStartInOrder`: `Spec => []DagOrder`; `NothingPassesTheGate`: `Spec => []GateHolds`.
- `OutcomesAreTrue`: `Spec => []OutcomeIsTrue`; `RequestStays`: `Spec => CancelKept`.
- `CancelLeavesNoTaskOpen`: `Spec => []CancelledSummaryIsFinal`.
- `RerunsStartOnceMore`: if the Hub sends no cancel, `Spec => []StartedOncePerRerun`.

The list that `findRunnableTasks` gets may mix versions that never were there together. What
saves the order is that a task that has got past stays so: `VersionsFollowed` says that an
older version of a TaskRun is behind it only as `Follows` has it, and `CreatedOnce` that it
is the same TaskRun, since none is created twice: a second creation meets the name of the
first. So what a list shows to have got past has got past (`OrderHolds`), and an outcome
decided from one is true when it is written (`OutcomeHolds`). Of a Job that the Hub has decided on
since, what stays is the trace of the decision, which no reconcile removes: the TaskRun vouches
for the run's success as long as it succeeded or was rejected (`Vouches`), and bears its
failure as long as it failed or has its approvals (`Blames`). A cancel, which deletes
TaskRuns, ends all this: `Ending` says the run is Cancelled or bound to be, and
`RunFactsHold` that a copy which says so, or a reconcile that deletes, is right. The gate
follows from the order: the chain of dependencies behind an approval has no first task with
a TaskRun (`GateKeepsDownstream`). A rerun undoes what got past, so these properties, like
`CancelKept`, are stated until the first rerun; the four that hold with reruns
(`CancelledSummaryIsFinal` and those of TaskRunProofs) say so. `BirthsHold`, for the last
theorem, is about reruns: what was created, and what the handler still has to delete, is
paid for by reruns. Its hypothesis is needed, see section 3.

The last theorem of the module is about the Job:

- `JobSuccessIsEarned`: `Spec => []SuccessIsEarned`.

The Job's name is fixed, so a copy of it does not tell which of the TaskRun's Jobs it shows.
Until something is rerun a task has one TaskRun (`StartedOnce`, also when the run is
cancelled: then no copy is left from which the TaskRun could be created again), and its
controller writes it only from a current copy. The Hub writes it too, and may do so while a
reconcile has the Job in hand; but it leaves the Job, its reference and the retries alone
(`DecidesHolds`), its own copy is current, and the write in hand then conflicts (`DecideJob`).
So in what counts here the cached TaskRun is at most one write behind (`CacheNear`). Up to the
first retry this tells the Jobs apart. Before the retry there is one Job (`FirstJob`): if the
cache shows it Failed, it is that or gone. While the retry is in hand or on its way to the
cache, both the Job and its copy are the failed one or gone (`HandFits`), so what the cache
shows as Succeeded afterwards is the second Job (`SecondJob`). A success in hand or written
that no approval made is therefore that of the Job which is there (`JobEarned`). With a second
retry this breaks, see section 3. A step does to a Job task one of few things (`JobTaskMove`):
deliver, begin, call, write, decide, or move the Job.

**WalkProofs**

- `ExposureIsBounded`: `Spec => []ExposureBounded`.
- `FailuresArePaced`: `Spec => PacedFailures`.
- `ReplicasAreSplit`: `Spec => []ScalesSplit`, where the rollout's spec sets Replicas.
- `WalkImplemented`: `Spec => ImplementsWalk`.

A reconcile scales the canary before it writes the step it goes to, and may never write it.
So `WalkHolds` allows the canary one step more than the status says: every copy is behind
the Rollout and has the weight of a step it came to (`VersionsReached`), a reconcile in hand
is at most one step further (`PlanReached`), and what it scales to is what a step up to that
one gives (`ScalesAllowed`). `PacingHolds` says of a status that counts a failure more and
will be accepted that a check was due when it was decided and is still. `ScalesSplit` is
about the rounding of `weightReplicas`: the canary gets a share of the total
(`WeightIsShare`) and the stable Deployment exactly the rest, so what a reconcile has in
hand for both is the Rollout's replicas, neither more nor less. What the Deployments
themselves have may differ meanwhile, since they are scaled by two calls, each of which may
fail.

For the refinement, what `Evaluate` and `Promoted` return is a step of the walk from the
status they were given (`EvaluateMoves`, `AwaitHealthMoves`, `PromotedMoves`), and so is
what the holds decide (`DecisionMoves`). That status is a cached one and the decision is
written two calls later, so the step is one of the Rollout as it then is only if the version
check passes. `DecisionGoes` is the invariant that says so: a decision in hand which would
pass leads from what the Rollout *is* to where RolloutWalk lets it go. It follows from
`CommandCopyHolds` and `CacheCatchesUp` when the decision is taken, and whatever happens to
the Rollout in between makes a new version. Given this each step of `Rollout` is one of
`RolloutWalk` or a stutter; the unversioned patches of the flags are its steps Pause, Resume
and Abort.

**OutputProofs**

- `NoOutputMissing`: `Spec => []OutputComplete`.

`OrderKept` bounds the pieces of the output on their way but admits gaps. As long as nothing
has failed, `OutputKept` says that there are none (`Whole`): the queue can be marked with how
much of the output precedes each place, every frame of output leads from its mark to the next,
the first mark is what the Hub has and the last the offset of the goroutine. A frame that
tells of success has only complete marks behind it, which is so because the goroutine
decides by the status it got before the log (`AllThere`). Marks rather than sums keep
the lemmas about Append and Tail free of induction.

**LogProofs**, from the same assumptions as HubLinkProofs and `LogsAssumption`

- `ChunksAreTheLog`: of the first n lines of any log, `SplitChunks` leaves none out, repeats none
  and keeps their order, cuts between lines only, and cuts where it must and no earlier.
- `TypesKept`: `Spec => []TypeOK`.
- `ChunksAlwaysFit`: `Spec => []ChunksFit`.
- `LinesAlwaysInOrder`: `Spec => []LogsInOrder`.

What `SplitChunks`, `Total` and FlattenSeq compute is defined by recursion over a sequence,
and a fact about all sequences needs induction. The library's induction theorems take the
predicate as an operator parameter, which the provers cannot instantiate, but that the order
of the naturals is well-founded (`NatLessThanWellFounded`, `WFMin`) is stated of sets: the
numbers for which a fact does not hold have a least one. `NatInduct` draws induction over a
*set* from this, `Recursion` that a function defined step by step exists, and `TotalUpTo`
and `FlattenUpTo` the equations of the recursive functions. From these follow that a total
grows by what is appended, that flattening distributes over a chunk more, and that
`Scanning`, which says of chunks and buffer that together they are the lines scanned so far,
that the chunks fit, and that the buffer may become one (`Flushable`), is kept by `AddLine`.

`TypesKept` needs this for the bounds on output: of the lines of all Jobs at most
`MaxOutput` are written, which is a statement about a sum of which one summand grows.
`Typed` adds to the types what they rest on, above all that a stream which ships has chunks
left and that they fit (`StreamOK`). For the order of lines, `LinesKept` says that at most
one stream is active, that the map of streams knows it (`OneStream`), and that what the Hub
has, then what is in the outbox, then the lines the stream has yet to send ascend
(`Ascending`): each is followed by the next, or by the first of a new beginning. A chunk
sent moves from the stream to the outbox, a frame taken moves on to the Hub; a stream that
begins to ship starts with the first line. All other frames carry no line (`Says`,
`OtherSteps`).

### What is only model-checked

Every invariant and every action property of the passing runs, and both refinements, have a
theorem. What is left to TLC is what the prover cannot express, liveness and ENABLED:
`RunSettles`, `CancelHonoured`, `RolloutEnds`, `AbortHonoured`, `KeepsServing`, `EndLearnt`,
`OpsAnswered` and `UpgradeHeard`; and the four runs that find a violation.

## 5. Not modelled

- The Job builder: it renders a TaskRun into a manifest and keeps no state. What matters
  of it, the fixed name of the Job and that a task's timeout is the Job's deadline (one way to
  fail), is in module Cluster.
- The Service, Ingress and traffic weights of a Rollout, which no decision reads.
- RBAC and CA objects, beyond a call that may fail; snapshots, metrics, manifests,
  generated code.
- The Hub, beyond what it sends and keeps: it is external.
- Timing: sleeps, tick lengths and the length of the backoff.

## 6. Plan

1. *Rollout*, further instances: no `Spec.Replicas` (the total is then taken from the
   stable Deployment the controller shrinks itself), two timed pauses (the second is never
   stamped), a promote obeyed twice or erased by `ClearCommand`.
2. *Hub's view*: an abstract specification of what the Hub may see of a run and of an
   operation, implemented by HubLink, with its proof.
3. *Proofs*: that Deployments no call failed for have the shares of `ScalesSplit`.
