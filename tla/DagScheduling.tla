---------------------------- MODULE DagScheduling ----------------------------
(***************************************************************************)
(* The pure functions the pipeline is scheduled with: which TaskRuns may   *)
(* be created next, what the run's status says of each task, and which     *)
(* tasks a rerun throws away.  They read `existing', the TaskRuns the      *)
(* reconciler listed, as a function from every task of the pipeline to its *)
(* TaskRun; a task that has none maps to a record whose phase is "Absent". *)
(***************************************************************************)
EXTENDS Integers, FiniteSets

CONSTANTS
    Tasks,       \* the names in PipelineRun.Spec.Tasks
    DependsOn,   \* DependsOn[t]: the tasks t waits for
    Order,       \* Order[t]: the index of t in Spec.Tasks
    Stage,       \* Stage[t]: the Serial stage t is in, or Parallel
    Parallel,    \* what Stage says of a task in no stage, or in a Parallel one
    Type         \* Type[t]: what the task is, see TaskTypes

\* A Job task is a Build, or a Release without a RolloutSpec; a Canary task is
\* a Release with one.
TaskTypes == {"Job", "Approval", "Canary"}

\* A run of no tasks creates no TaskRun: there is nothing of it to model.
ASSUME DagAssumption ==
    /\ Tasks # {}
    /\ IsFiniteSet(Tasks)
    /\ DependsOn \in [Tasks -> SUBSET Tasks]
    /\ Order \in [Tasks -> Nat]
    /\ \A t, u \in Tasks : Order[t] = Order[u] => t = u
    /\ Type \in [Tasks -> TaskTypes]

TaskRunPhases == {"", "Pending", "Running", "Succeeded", "Failed"}
SummaryPhases == TaskRunPhases \cup {"Unscheduled", "Skipped"}
TerminalTaskPhases == {"Succeeded", "Failed", "Skipped"}

Exists(existing, t) == existing[t].phase # "Absent"
Succeeded(existing, t) == existing[t].phase = "Succeeded"

DependenciesSatisfied(t, existing) ==
    \A dep \in DependsOn[t] : Succeeded(existing, dep)

Earlier(u, t) == /\ Stage[t] # Parallel
                 /\ Stage[u] = Stage[t]
                 /\ Order[u] < Order[t]

SerialBlocked(t, existing) ==
    \E other \in Tasks : Earlier(other, t) /\ ~Succeeded(existing, other)

\* Every absent task, whatever it waits for.
MutAnyAbsentTask(existing) == {t \in Tasks : ~Exists(existing, t)}

FindRunnableTasks(existing) ==
    {t \in Tasks : /\ ~Exists(existing, t)
                   /\ DependenciesSatisfied(t, existing)
                   /\ ~SerialBlocked(t, existing)}

\* A run with nothing left to start is taken to have succeeded.
MutNothingLeft(existing) == TRUE

AllTasksSucceeded(existing) == \A t \in Tasks : Succeeded(existing, t)

\* A failed task does not stop the run.
MutIgnoreFailure(existing) == FALSE

HasFailedTask(existing) == \E t \in Tasks : existing[t].phase = "Failed"

AwaitsDecision(existing, t) == /\ Type[t] = "Approval"
                               /\ existing[t].phase = "Pending"
                               /\ existing[t].asked

\* The first approval in the order of Spec.Tasks that waits for a decision, as a
\* set of at most one task.
FindPendingApproval(existing) ==
    {t \in Tasks : /\ AwaitsDecision(existing, t)
                   /\ \A u \in Tasks : AwaitsDecision(existing, u) => Order[t] <= Order[u]}

\* The phase of a TaskRun is copied before it is known whether there is one.
MutSummarizeTasks(existing) == [t \in Tasks |-> existing[t].phase]

\* What the status reports of each task: the phase of its TaskRun, or Pending and
\* no TaskRunRef, here "Unscheduled".
SummarizeTasks(existing) ==
    [t \in Tasks |-> IF Exists(existing, t) THEN existing[t].phase ELSE "Unscheduled"]

\* A task without TaskRun is left as the normal summary reports it.
MutCancelledTaskSummary(existing) ==
    [t \in Tasks |-> IF Exists(existing, t) /\ ~Succeeded(existing, t)
                     THEN "Failed" ELSE SummarizeTasks(existing)[t]]

\* What it reports once the run is cancelled: nothing is left unfinished.
CancelledTaskSummary(existing) ==
    [t \in Tasks |-> CASE ~Exists(existing, t) -> "Skipped"
                       [] existing[t].phase \in TerminalTaskPhases -> existing[t].phase
                       [] OTHER -> "Failed"]

\* Every task that depends on t, directly or not: the members of every set that
\* holds the direct dependents and is closed under taking dependents.
DownstreamTasks(t) ==
    LET Dependents(S) == {u \in Tasks : DependsOn[u] \cap S # {}}
        Closed(S) == Dependents(S \cup {t}) \subseteq S
    IN  {u \in Tasks : \A S \in SUBSET Tasks : Closed(S) => u \in S}
=============================================================================
