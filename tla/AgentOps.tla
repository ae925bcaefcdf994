------------------------------ MODULE AgentOps ------------------------------
(***************************************************************************)
(* Agent operations (internal/agentops/handler.go).  Every delivery of a   *)
(* command starts a goroutine of its own: an exec runs as a Job that is    *)
(* polled until it ends, its output sent as it grows; an upgrade is left   *)
(* to a Job that replaces the runner's own pod.  The Hub may deliver a     *)
(* command more than once.                                                 *)
(***************************************************************************)
EXTENDS Connector, Sums

CONSTANTS
    Ops,            \* agent operations, by OpID
    OpType,         \* exec, upgrade, or refused: another type, an upgrade that is
                    \* disabled or names no version
    MaxDeliveries,  \* bound: commands delivered
    MaxOutput       \* bound: what the Jobs write

ASSUME OpsAssumption ==
    /\ Ops # {} /\ OpType \in [Ops -> {"exec", "upgrade", "refused"}]
    /\ MaxDeliveries \in Nat /\ MaxOutput \in Nat

VARIABLES
    exec,       \* the goroutine of every delivery
    execJob,    \* the Job it created; its name is generated, so each has its own
    upgradeJob, \* the Job of an upgrade, by the name made of the OpID
    version,    \* the version of the running binary
    ledger,     \* what the Hub knows of every operation
    agent       \* the version it last heard of

ops == <<exec, execJob, upgradeJob, version, ledger, agent>>

Deliveries == 1..MaxDeliveries
Versions == {"old", "new"}
Outcomes == {"succeeded", "failed"}
ExecSteps ==
    {"none", "started", "create", "watch", "drain", "ship", "probe", "tell", "createUpgrade",
     "report", "done"}

\* seen: the Job's status at the last Get; sent: the output sent (offsets); upto: the
\* output read; outcome: what will be reported.  What is not needed any more is reset.
Executions ==
    [op : Ops, step : ExecSteps, seen : {"Absent", "Active"} \cup Outcomes, sent : 0..MaxOutput,
     upto : 0..MaxOutput, outcome : Outcomes]
Jobs == [status : {"Absent", "Active"} \cup Outcomes, output : 0..MaxOutput]
Ledgers == [status : {"queued", "running"} \cup Outcomes, output : Seq(1..MaxOutput)]

AgentInfo(v) == [type |-> "agent_info", version |-> v]
OpStatus(op, status) == [type |-> "agent_op_status", op |-> op, status |-> status]
OpLog(op, from, to) == [type |-> "agent_op_log", op |-> op, from |-> from, to |-> to]
OpFrames ==
    {Heartbeat} \cup {AgentInfo(v) : v \in Versions}
        \cup {OpStatus(op, status) : op \in Ops, status \in {"running"} \cup Outcomes}
        \cup {OpLog(op, from, to) : op \in Ops, from \in 0..MaxOutput, to \in 0..MaxOutput}

OpsTypeOK ==
    /\ exec \in [Deliveries -> Executions]
    /\ execJob \in [Deliveries -> Jobs]
    /\ upgradeJob \in [Ops -> {"absent", "active", "done"}]
    /\ version \in Versions
    /\ ledger \in [Ops -> Ledgers]
    /\ agent \in Versions

Execution(op, step, outcome) ==
    [op |-> op, step |-> step, seen |-> "Absent", sent |-> 0, upto |-> 0, outcome |-> outcome]

OpsInit ==
    /\ exec = [d \in Deliveries |->
                  Execution(CHOOSE op \in Ops : TRUE, "none", "failed")]
    /\ execJob = [d \in Deliveries |-> [status |-> "Absent", output |-> 0]]
    /\ upgradeJob = [op \in Ops |-> "absent"]
    /\ version = "old"
    /\ ledger = [op \in Ops |-> [status |-> "queued", output |-> << >>]]
    /\ agent = "old"

Step(d, from, to) ==
    /\ exec[d].step = from
    /\ exec' = [exec EXCEPT ![d].step = to]

\* The goroutine ends without a report.
MutFail(d, from) ==
    /\ exec[d].step = from
    /\ exec' = [exec EXCEPT ![d] = Execution(@.op, "done", "failed")]
    /\ UNCHANGED <<upgradeJob, version, ledger, agent>>

\* The goroutine goes on to report that its operation failed.
Fail(d, from) ==
    /\ exec[d].step = from
    /\ exec' = [exec EXCEPT ![d] = Execution(@.op, "report", "failed")]
    /\ UNCHANGED <<upgradeJob, version, ledger, agent>>

-----------------------------------------------------------------------------
\* Handle, on the read loop of a connection that is up.
Deliver(d, op) ==
    /\ link \in {"serve", "beat"}
    /\ alive
    /\ \A e \in Deliveries : e < d <=> exec[e].step # "none"
    /\ exec' = [exec EXCEPT ![d].op = op, ![d].step = "started"]
    /\ UNCHANGED <<execJob, upgradeJob, version, ledger, agent>>

Announce(d) ==
    /\ Send(OpStatus(exec[d].op, "running"))
    /\ Step(d, "started", CASE OpType[exec[d].op] = "exec" -> "create"
                            [] OpType[exec[d].op] = "upgrade" -> "probe"
                            [] OTHER -> "report")
    /\ UNCHANGED <<execJob, upgradeJob, version, ledger, agent>>

CreateExecJob(d) ==
    /\ Step(d, "create", "watch")
    /\ execJob' = [execJob EXCEPT ![d].status = "Active"]
    /\ UNCHANGED <<upgradeJob, version, ledger, agent>>

\* The kubeconfig or the Create fails, or the answer to it.
CreateExecJobFails(d) ==
    /\ Fail(d, "create")
    /\ \/ UNCHANGED execJob
       \/ execJob' = [execJob EXCEPT ![d].status = "Active"]

\* A Job that is not active any more is taken for one that succeeded.
MutAfter(execution) ==
    IF execution.seen \in Outcomes
    THEN Execution(execution.op, "report", "succeeded")
    ELSE [execution EXCEPT !.step = "watch", !.seen = "Absent", !.upto = 0]

\* The end of the goroutine's tick: what it does next hangs on the status it got before
\* it drained the logs.
After(execution) ==
    IF execution.seen \in Outcomes
    THEN Execution(execution.op, "report", execution.seen)
    ELSE [execution EXCEPT !.step = "watch", !.seen = "Absent", !.upto = 0]

\* The Job's status is taken after the logs, when it is decided.
MutLogsDrained(d, sent) ==
    exec' = [exec EXCEPT ![d] = After([@ EXCEPT !.sent = sent, !.seen = execJob[d].status])]

LogsDrained(d, sent) == exec' = [exec EXCEPT ![d] = After([@ EXCEPT !.sent = sent])]

GetJob(d) ==
    /\ exec[d].step = "watch"
    /\ exec' = [exec EXCEPT ![d].step = "drain", ![d].seen = execJob[d].status]
    /\ UNCHANGED <<execJob, upgradeJob, version, ledger, agent>>

\* The deadline of the operation, which the Job does not have; or a Get that fails.
GiveUp(d) == Fail(d, "watch") /\ UNCHANGED execJob

ReadLogs(d) ==
    /\ exec[d].step = "drain"
    /\ IF execJob[d].output > exec[d].sent
       THEN exec' = [exec EXCEPT ![d].step = "ship", ![d].upto = execJob[d].output]
       ELSE LogsDrained(d, exec[d].sent)
    /\ UNCHANGED <<execJob, upgradeJob, version, ledger, agent>>

\* Listing the pods fails, or their logs cannot be read.
ReadLogsFails(d) ==
    /\ Fault
    /\ exec[d].step = "drain"
    /\ LogsDrained(d, exec[d].sent)
    /\ UNCHANGED <<execJob, upgradeJob, version, ledger, agent>>

\* The offset is not moved on: the whole log is sent every time.
MutShipLogs(d) ==
    /\ exec[d].step = "ship"
    /\ Send(OpLog(exec[d].op, exec[d].sent, exec[d].upto))
    /\ LogsDrained(d, exec[d].sent)
    /\ UNCHANGED <<execJob, upgradeJob, version, ledger, agent>>

ShipLogs(d) ==
    /\ exec[d].step = "ship"
    /\ Send(OpLog(exec[d].op, exec[d].sent, exec[d].upto))
    /\ LogsDrained(d, exec[d].upto)
    /\ UNCHANGED <<execJob, upgradeJob, version, ledger, agent>>

ReportOutcome(d) ==
    /\ exec[d].step = "report"
    /\ Send(OpStatus(exec[d].op, exec[d].outcome))
    /\ exec' = [exec EXCEPT ![d] = Execution(@.op, "done", "failed")]
    /\ UNCHANGED <<execJob, upgradeJob, version, ledger, agent>>
-----------------------------------------------------------------------------
\* The probe for an upgrade Job with the operation's label.
ProbeUpgrade(d) ==
    /\ Step(d, "probe", IF upgradeJob[exec[d].op] # "absent" THEN "tell" ELSE "createUpgrade")
    /\ UNCHANGED <<execJob, upgradeJob, version, ledger, agent>>

\* The probe fails and counts as one that found nothing.
ProbeUpgradeFails(d) ==
    /\ Fault
    /\ Step(d, "probe", "createUpgrade")
    /\ UNCHANGED <<execJob, upgradeJob, version, ledger, agent>>

\* "already in flight": the goroutine says so in the log and leaves it at that.
TellInFlight(d) ==
    /\ Send(OpLog(exec[d].op, 0, 0))
    /\ Step(d, "tell", "done")
    /\ UNCHANGED <<execJob, upgradeJob, version, ledger, agent>>

CreateUpgradeJob(d) ==
    /\ upgradeJob[exec[d].op] = "absent"
    /\ Step(d, "createUpgrade", "done")
    /\ upgradeJob' = [upgradeJob EXCEPT ![exec[d].op] = "active"]
    /\ UNCHANGED <<execJob, version, ledger, agent>>

\* The name is taken, or the Create fails otherwise.
CreateUpgradeJobFails(d) ==
    /\ (upgradeJob[exec[d].op] # "absent" /\ NoFault) \/ Fault
    /\ Fail(d, "createUpgrade")
    /\ UNCHANGED execJob
-----------------------------------------------------------------------------
TotalOutput == Total([d \in Deliveries |-> execJob[d].output])

\* The Job of an exec writes, and ends (bound: while it is watched).
ExecJobRuns(d) ==
    /\ exec[d].step \in {"watch", "drain", "ship"}
    /\ execJob[d].status = "Active"
    /\ \/ /\ TotalOutput < MaxOutput
          /\ execJob' = [execJob EXCEPT ![d].output = @ + 1]
       \/ \E outcome \in Outcomes : execJob' = [execJob EXCEPT ![d].status = outcome]
    /\ UNCHANGED <<exec, upgradeJob, version, ledger, agent>>

\* The upgrade Job fails: the Deployment cannot be patched, or the new pod never comes up.
UpgradeJobFails(op) ==
    /\ upgradeJob[op] = "active"
    /\ upgradeJob' = [upgradeJob EXCEPT ![op] = "done"]
    /\ UNCHANGED <<exec, execJob, version, ledger, agent>>

\* A finished upgrade Job goes after an hour, and with it the name and the label.
ReapUpgradeJob(op) ==
    /\ upgradeJob[op] = "done"
    /\ upgradeJob' = [upgradeJob EXCEPT ![op] = "absent"]
    /\ UNCHANGED <<exec, execJob, version, ledger, agent>>

\* The goroutines die with the process; what it was told and the Jobs remain.
Killed == [d \in Deliveries |->
              IF exec[d].step = "none" THEN exec[d] ELSE Execution(exec[d].op, "done", "failed")]

OpsRestart == exec' = Killed /\ UNCHANGED <<execJob, upgradeJob, version, ledger, agent>>

\* The upgrade Job has replaced the pod by one of the new version.
UpgradeRollsOut(op) ==
    /\ upgradeJob[op] = "active"
    /\ upgradeJob' = [upgradeJob EXCEPT ![op] = "done"]
    /\ exec' = Killed
    /\ version' = "new"
    /\ UNCHANGED <<execJob, ledger, agent>>

\* The Hub's ledger: an outcome is final, output is kept as it comes.
HearOp(frame) ==
    /\ agent' = IF frame.type = "agent_info" THEN frame.version ELSE agent
    /\ ledger' =
         CASE frame.type = "agent_op_status" ->
                [ledger EXCEPT ![frame.op].status = IF @ \in Outcomes THEN @ ELSE frame.status]
           [] frame.type = "agent_op_log" ->
                [ledger EXCEPT ![frame.op].output =
                    @ \o [i \in 1..(frame.to - frame.from) |-> frame.from + i]]
           [] OTHER -> ledger
    /\ UNCHANGED <<exec, execJob, upgradeJob, version>>
=============================================================================
