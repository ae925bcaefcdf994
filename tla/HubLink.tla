------------------------------ MODULE HubLink ------------------------------
(***************************************************************************)
(* Everything that goes between the runner and the Hub: status reports,    *)
(* agent operations and logs share the one connection and its outbox.      *)
(***************************************************************************)
EXTENDS StatusReports, AgentOps, LogStream

vars == <<connector, reports, ops, logs>>

LogChunks == [type : {"log_chunk"}, lines : Seq(1..Len(podLog))]
Frames == OpFrames \cup Reports \cup LogChunks

TypeOK ==
    /\ ConnectorTypeOK(Frames)
    /\ ReportsTypeOK
    /\ OpsTypeOK
    /\ LogsTypeOK

Init == ConnectorInit /\ ReportsInit /\ OpsInit /\ LogsInit
-----------------------------------------------------------------------------
(* The goroutine of Run. *)

Refused == DialFails /\ UNCHANGED <<reports, ops, logs>>

Connecting == DialSucceeds /\ UNCHANGED <<reports, ops, logs>>

BurnToken == DialBurnsToken /\ UNCHANGED <<reports, ops, logs>>

Announcing == Identify(AgentInfo(version)) /\ UNCHANGED <<reports, ops, logs>>

Resyncing ==
    /\ \/ BeginResync /\ UNCHANGED outbox
       \/ SkipResync /\ UNCHANGED outbox
       \/ SendResync
    /\ NoFault
    /\ UNCHANGED <<alive, backoff, enrollment, ops, logs>>

Ticking == HeartbeatDue /\ UNCHANGED <<reports, ops, logs>>

Beating == SendHeartbeat /\ UNCHANGED <<reports, ops, logs>>

Noticing == ReadFails /\ UNCHANGED <<reports, ops, logs>>

Breaking == ConnectionBreaks /\ UNCHANGED <<reports, ops, logs>>

\* A frame reaches the Hub.
Delivering ==
    /\ WriteArrives
    /\ HearReport(Head(outbox))
    /\ HearOp(Head(outbox))
    /\ HearLog(Head(outbox))
    /\ UNCHANGED <<manager, run, runCache, reporting, resyncing, lost>>

\* A frame is lost.
Losing ==
    /\ WriteIsLost
    /\ LoseReports({Head(outbox)})
    /\ UNCHANGED <<manager, run, runCache, reporting, resyncing, heard, last, ops, logs>>
-----------------------------------------------------------------------------
(* The goroutines that send, and the world they look at. *)

connection == <<link, alive, backoff, enrollment>>

Reconciling ==
    /\ \/ StartManager
       \/ \E phase \in RunPhases : UpdateStatus(phase)
       \/ Revive
       \/ SyncRun
    /\ NoFault
    /\ UNCHANGED <<outbox, connection, ops, logs>>

Queueing(report) ==
    /\ QueueReport(report)
    /\ NoFault
    /\ UNCHANGED <<connection, ops, logs>>

OpSends(d) ==
    \/ Announce(d)
    \/ ShipLogs(d)
    \/ ReportOutcome(d)
    \/ TellInFlight(d)

OpWorks(d) ==
    \/ CreateExecJob(d)
    \/ CreateExecJobFails(d)
    \/ GetJob(d)
    \/ ReadLogs(d)
    \/ ProbeUpgrade(d)
    \/ CreateUpgradeJob(d)

\* What the goroutine of a delivery does next, if nothing goes wrong.
Operating(d) ==
    /\ OpSends(d) \/ (OpWorks(d) /\ UNCHANGED outbox)
    /\ NoFault
    /\ UNCHANGED <<connection, reports, logs>>

Timeout(d) ==
    /\ GiveUp(d)
    /\ NoFault
    /\ UNCHANGED <<outbox, connection, reports, logs>>

OperationFails(d) ==
    /\ ReadLogsFails(d) \/ ProbeUpgradeFails(d) \/ CreateUpgradeJobFails(d)
    /\ UNCHANGED <<outbox, connection, reports, logs>>

\* The Hub sends commands; Jobs run.
Commanding ==
    /\ \/ \E d \in Deliveries, op \in Ops : Deliver(d, op)
       \/ \E d \in Deliveries : ExecJobRuns(d)
       \/ \E op \in Ops : UpgradeJobFails(op) \/ ReapUpgradeJob(op)
    /\ NoFault
    /\ UNCHANGED <<outbox, connection, reports, logs>>

Streaming(s) ==
    /\ \/ (PodNotThere(s) \/ ReadLog(s)) /\ UNCHANGED outbox
       \/ SendLogChunk(s)
    /\ NoFault
    /\ UNCHANGED <<connection, reports, ops>>

JobStarts ==
    /\ (\E s \in Streams : StartStream(s)) \/ PodWrites
    /\ NoFault
    /\ UNCHANGED <<outbox, connection, reports, ops>>
-----------------------------------------------------------------------------
\* The process ends with all it had not sent, and another takes its place.
NewProcess ==
    /\ ConnectorRestart
    /\ LoseReports(Range(outbox) \cup reporting)
    /\ ReportsRestart
    /\ LogsRestart

Restart == NewProcess /\ OpsRestart /\ Fault

Upgrade == NewProcess /\ (\E op \in Ops : UpgradeRollsOut(op)) /\ NoFault

Next ==
    \/ Refused
    \/ Connecting
    \/ BurnToken
    \/ Announcing
    \/ Resyncing
    \/ Ticking
    \/ Beating
    \/ Noticing
    \/ Breaking
    \/ Delivering
    \/ Losing
    \/ Reconciling
    \/ \E report \in reporting : Queueing(report)
    \/ \E d \in Deliveries : Operating(d) \/ Timeout(d) \/ OperationFails(d)
    \/ Commanding
    \/ \E s \in Streams : Streaming(s)
    \/ JobStarts
    \/ Restart
    \/ Upgrade

Spec == Init /\ [][Next]_vars

(* Every goroutine of the runner goes on while it can, and one that waits for room in the
   outbox gets it.  A select takes one of the cases that are ready at random, so the error of
   the read loop is not passed over for ever.  The Hub answers a dial sometime.  An operation
   has a deadline: when it is over, whatever its goroutine asks of the API server fails. *)
Fairness ==
    /\ WF_vars(Connecting) /\ WF_vars(Announcing) /\ WF_vars(Resyncing) /\ WF_vars(Beating)
    /\ SF_vars(Noticing) /\ WF_vars(Delivering \/ Losing)
    /\ WF_vars(\E report \in reporting : Queueing(report))
    /\ \A d \in Deliveries : WF_vars(Operating(d)) /\ SF_vars(Timeout(d))

FairSpec == Spec /\ Fairness
-----------------------------------------------------------------------------
(* Reports. *)

(* Every status update the reconciler made is on its way to the Hub, or has got there, or
   was lost with a connection that broke or with the process: reportStatus's goroutines,
   the outbox and the reconnect (client.go, connectAndServe) forget none of them. *)
ReportsAccounted ==
    /\ \A update \in 1..run.update :
          \E report \in reporting \cup Range(outbox) \cup heard \cup lost :
             report \in Reports /\ report.update = update
    /\ lost # {} => faults > 0 \/ version = "new"

(* The connection is maintained: from wherever the goroutine of Run is, it gets to the loop
   that serves the connection, unless its enroll token was used up for nothing (Run,
   connectAndServe). *)
KeepsServing == link # "serve" ~> link = "serve" \/ LockedOut

(* client.go, Run: "maintaining the connection and reconnecting ... on any failure".  A
   connection that was lost is served again. *)
Reconnects == link = "dial" ~> link = "serve" \/ LockedOut

(* When a run is over for good the Hub learns that it is, unless the report of it was lost
   (a terminal run is not reported again by ResyncAll) or the runner is locked out. *)
EndLearnt ==
    run.phase = "over" ~>
        \/ run \in heard
        \/ run \in lost
        \/ LockedOut
-----------------------------------------------------------------------------
(* Agent operations. *)

DeliveredOnce(op) ==
    \A d, e \in Deliveries :
       exec[d].op = op /\ exec[e].op = op /\ exec[d].step # "none" /\ exec[e].step # "none" => d = e

(* An operation the Hub takes for succeeded did succeed in some Job that was created for it,
   however its frames, its deliveries, timeouts and restarts fall (watchJob, execute). *)
OutcomeEarned ==
    \A op \in Ops :
       ledger[op].status = "succeeded" =>
          \E d \in Deliveries : exec[d].op = op /\ execJob[d].status = "succeeded"

(* The output the Hub has of an operation it commanded once is in order and has nothing
   twice, whatever was lost of it (drainLogs's offsets, the outbox). *)
LedgerInOrder ==
    \A op \in Ops : DeliveredOnce(op) =>
       LET output == ledger[op].output IN
       \A i, j \in 1..Len(output) : i < j => output[i] < output[j]

(* When the Hub learns that an operation it commanded once has succeeded, it has all of its
   output, if nothing failed: the logs are drained after the Job was seen to be over, and
   the outcome follows them through the outbox (watchJob). *)
OutputComplete ==
    \A d \in Deliveries :
       LET op == exec[d].op IN
       exec[d].step # "none" /\ DeliveredOnce(op) /\ ledger[op].status = "succeeded" /\ faults = 0 =>
          ledger[op].output = [i \in 1..execJob[d].output |-> i]

(* The Hub gets the outcome of every command but an upgrade, which its own reconciliation
   closes: if no connection breaks and no process ends, every delivery is answered, be it
   by the deadline (execute, watchJob). *)
OpsAnswered ==
    \A d \in Deliveries :
       (exec[d].step = "started" /\ OpType[exec[d].op] # "upgrade") ~>
           \/ ledger[exec[d].op].status \in Outcomes
           \/ faults > 0
           \/ version = "new"

(* An upgrade has no other answer than the version of the process that takes over: the Hub
   hears of it, though connections break and processes restart, unless it turns the runner
   down (connectAndServe's identity frame; executeUpgrade). *)
UpgradeHeard == version = "new" ~> agent = "new" \/ LockedOut
-----------------------------------------------------------------------------
(* Logs. *)

(* The chunks of a log are as large as they may be and no larger: a chunk is at most
   ChunkSize long or a single line, and could not have held the first line of the next
   (SplitChunks). *)
ChunksFit ==
    \A s \in Streams :
       LET chunks == streamers[s].chunks IN
       \A i \in 1..Len(chunks) :
          /\ Size(chunks[i]) <= ChunkSize \/ Len(chunks[i]) = 1
          /\ i < Len(chunks) => Size(chunks[i]) + podLog[Head(chunks[i + 1])] > ChunkSize

QueuedLines ==
    FlattenSeq([i \in 1..Len(outbox) |->
                   IF outbox[i].type = "log_chunk" THEN outbox[i].lines ELSE << >>])

(* The log as the Hub gets it is whole lines in their order, a stream at a time: a line is
   followed by the next, or by the first when the Job was streamed again, if nothing was
   lost (maybeStreamLogs's map, StreamLogs, the outbox). *)
LogsInOrder ==
    LET lines == logHeard \o QueuedLines IN
    faults = 0 /\ version = "old" =>
       \A i \in 1..Len(lines) :
          lines[i] = 1 \/ (i > 1 /\ lines[i] = lines[i - 1] + 1)
=============================================================================
