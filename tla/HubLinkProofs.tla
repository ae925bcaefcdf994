--------------------------- MODULE HubLinkProofs ---------------------------
(***************************************************************************)
(* Proofs about HubLink: no report is forgotten, what the Hub takes for a  *)
(* success is one, and the output it has of an operation is in order.      *)
(***************************************************************************)
EXTENDS HubLink, SequenceTheorems, TLAPS

-----------------------------------------------------------------------------
(* Queues, whatever is in them. *)

IsQueue(q) == \E S : q \in Seq(S)

\* A frame put into a queue is its last, and the others stay where they are.
LEMMA AppendFacts ==
    ASSUME NEW q, IsQueue(q), NEW e
    PROVE  /\ IsQueue(Append(q, e))
           /\ Len(q) \in Nat
           /\ Len(Append(q, e)) = Len(q) + 1
           /\ \A i \in 1..Len(q) : Append(q, e)[i] = q[i]
           /\ Append(q, e)[Len(q) + 1] = e
           /\ Range(Append(q, e)) = Range(q) \cup {e}
<1>1. PICK S : q \in Seq(S)
  BY DEF IsQueue
<1>2. q \in Seq(S \cup {e})
  BY <1>1
<1>3. Append(q, e) \in Seq(S \cup {e})
  BY <1>2
<1>4. /\ Len(q) \in Nat
      /\ Len(Append(q, e)) = Len(q) + 1
      /\ \A i \in 1..Len(q) : Append(q, e)[i] = q[i]
      /\ Append(q, e)[Len(q) + 1] = e
  BY <1>2
<1>5. Range(Append(q, e)) = Range(q) \cup {e}
  <2>1. DOMAIN q = 1..Len(q) /\ DOMAIN Append(q, e) = 1..(Len(q) + 1)
    BY <1>2, <1>3, <1>4
  <2> QED
    BY <2>1, <1>4 DEF Range
<1> QED
  BY <1>3, <1>4, <1>5 DEF IsQueue

\* What is left of a queue when its first frame was taken moves up.
LEMMA TailFacts ==
    ASSUME NEW q, IsQueue(q), q # << >>
    PROVE  /\ IsQueue(Tail(q))
           /\ Len(q) \in Nat \ {0}
           /\ Len(Tail(q)) = Len(q) - 1
           /\ \A i \in 1..(Len(q) - 1) : Tail(q)[i] = q[i + 1]
           /\ Head(q) = q[1]
           /\ Range(q) = Range(Tail(q)) \cup {Head(q)}
<1>1. PICK S : q \in Seq(S)
  BY DEF IsQueue
<1>2. /\ Tail(q) \in Seq(S)
      /\ Len(q) \in Nat \ {0}
      /\ Len(Tail(q)) = Len(q) - 1
      /\ \A i \in 1..(Len(q) - 1) : Tail(q)[i] = q[i + 1]
      /\ Head(q) = q[1]
  BY <1>1
<1>3. DOMAIN q = 1..Len(q) /\ DOMAIN Tail(q) = 1..(Len(q) - 1)
  BY <1>1, <1>2
<1>4. Range(Tail(q)) \cup {Head(q)} \subseteq Range(q)
  BY <1>2, <1>3 DEF Range
<1>5. ASSUME NEW i \in 1..Len(q)
      PROVE  q[i] \in Range(Tail(q)) \cup {Head(q)}
  <2>1. CASE i = 1
    BY <2>1, <1>2
  <2>2. CASE i # 1
    <3>1. i - 1 \in 1..(Len(q) - 1) /\ (i - 1) + 1 = i
      BY <2>2, <1>2
    <3>2. Tail(q)[i - 1] = q[i]
      BY <3>1, <1>2
    <3> QED
      BY <3>1, <3>2, <1>3 DEF Range
  <2> QED
    BY <2>1, <2>2
<1>6. Range(q) \subseteq Range(Tail(q)) \cup {Head(q)}
  BY <1>3, <1>5 DEF Range
<1> QED
  BY <1>2, <1>4, <1>6 DEF IsQueue

LEMMA EmptyFacts == IsQueue(<< >>) /\ Len(<< >>) = 0 /\ Range(<< >>) = {}
<1>1. << >> \in Seq({}) /\ Len(<< >>) = 0 /\ DOMAIN << >> = {}
  OBVIOUS
<1> QED
  BY <1>1 DEF IsQueue, Range

\* What Send and taking a frame do to the outbox, and what it is made of.
LEMMA SendFacts ==
    ASSUME IsQueue(outbox), NEW frame, Send(frame)
    PROVE  IsQueue(outbox') /\ Range(outbox') = Range(outbox) \cup {frame}
BY AppendFacts DEF Send

LEMMA TakeFacts ==
    ASSUME IsQueue(outbox), TakeFrame
    PROVE  IsQueue(outbox') /\ Range(outbox) = Range(outbox') \cup {Head(outbox)}
BY TailFacts DEF TakeFrame

-----------------------------------------------------------------------------
(* Reports. *)

\* Where a report of a status update may be.
Whereabouts == reporting \cup Range(outbox) \cup heard \cup lost

\* What keeps ReportsAccounted: the loop that drains the outbox loses a report only when
\* its connection has broken.
ReportsKept ==
    /\ IsQueue(outbox)
    /\ run \in Reports
    /\ faults \in Nat
    /\ link # "dial" /\ ~alive => faults > 0
    /\ ReportsAccounted

\* What every step but a status update, a loss and the end of the process does.
Careful ==
    /\ IsQueue(outbox')
    /\ run' \in Reports /\ run'.update = run.update
    /\ Whereabouts \cap Reports \subseteq Whereabouts'
    /\ lost' = lost
    /\ version = "new" => version' = "new"
    /\ faults' \in Nat /\ faults' >= faults
    /\ link' # "dial" /\ ~alive' => faults' > 0

LEMMA CarefulKeeps ==
    ASSUME ReportsKept, Careful PROVE ReportsKept'
<1>1. faults > 0 => faults' > 0
  BY DEF ReportsKept, Careful
<1>2. ASSUME NEW update \in 1..run'.update
      PROVE  \E report \in Whereabouts' : report \in Reports /\ report.update = update
  BY <1>2 DEF ReportsKept, Careful, ReportsAccounted, Whereabouts
<1> QED
  BY <1>1, <1>2 DEF ReportsKept, Careful, ReportsAccounted, Whereabouts

LEMMA FaultFacts ==
    ASSUME faults \in Nat, Fault \/ NoFault
    PROVE  /\ faults' \in Nat /\ faults' >= faults
           /\ Fault => faults' > 0
BY DEF Fault, NoFault

\* The steps of the goroutine of Run that lose nothing.
LEMMA ConnectionCareful ==
    ASSUME ReportsKept,
           \/ Refused \/ Connecting \/ BurnToken \/ Announcing \/ Ticking \/ Beating
           \/ Noticing \/ Breaking
    PROVE  Careful
<1> USE DEF ReportsKept
<1>1. UNCHANGED <<reports, ops, logs>>
  BY DEF Refused, Connecting, BurnToken, Announcing, Ticking, Beating, Noticing, Breaking
<1>2. Fault \/ NoFault
  BY DEF Refused, Connecting, BurnToken, Announcing, Ticking, Beating, Noticing, Breaking,
         DialFails, DialSucceeds, DialBurnsToken, Identify, HeartbeatDue, SendHeartbeat,
         ReadFails, ConnectionBreaks
<1>3. link' # "dial" /\ ~alive' => faults' > 0
  BY <1>2, FaultFacts
     DEF Refused, Connecting, BurnToken, Announcing, Ticking, Beating, Noticing, Breaking,
         DialFails, DialSucceeds, DialBurnsToken, Identify, HeartbeatDue, SendHeartbeat,
         ReadFails, ConnectionBreaks, Retreat, NoFault
<1>4. UNCHANGED outbox \/ \E frame : Send(frame)
  BY DEF Refused, Connecting, BurnToken, Announcing, Ticking, Beating, Noticing, Breaking,
         DialFails, DialSucceeds, DialBurnsToken, Identify, HeartbeatDue, SendHeartbeat,
         ReadFails, ConnectionBreaks
<1>5. IsQueue(outbox') /\ Range(outbox) \subseteq Range(outbox')
  BY <1>4, SendFacts
<1> QED
  BY <1>1, <1>2, <1>3, <1>5, FaultFacts DEF Careful, Whereabouts, reports, ops

\* The steps that leave the connection and the reports alone, but for a frame they queue.
LEMMA AsideCareful ==
    ASSUME ReportsKept, NoFault, UNCHANGED <<link, alive, reports>>,
           UNCHANGED outbox \/ \E frame : Send(frame),
           version = "new" => version' = "new"
    PROVE  Careful
<1> USE DEF ReportsKept
<1>1. IsQueue(outbox') /\ Range(outbox) \subseteq Range(outbox')
  BY SendFacts
<1> QED
  BY <1>1, FaultFacts DEF Careful, Whereabouts, reports, NoFault

\* The hook queues a report more.
LEMMA ResyncCareful == ASSUME ReportsKept, Resyncing PROVE Careful
<1> USE DEF ReportsKept
<1>1. NoFault /\ UNCHANGED <<alive, run, reporting, heard, lost, version>>
  BY DEF Resyncing, BeginResync, SkipResync, SendResync, reports, ops
<1>2. IsQueue(outbox') /\ Range(outbox) \subseteq Range(outbox')
  BY SendFacts DEF Resyncing, SendResync
<1>3. link # "dial"
  BY DEF Resyncing, BeginResync, SkipResync, SendResync
<1> QED
  BY <1>1, <1>2, <1>3, FaultFacts DEF Careful, Whereabouts, NoFault

\* A report that gets to the outbox leaves its goroutine, one that gets to the Hub the outbox.
LEMMA QueueingCareful ==
    ASSUME ReportsKept, NEW report \in reporting, Queueing(report) PROVE Careful
<1> USE DEF ReportsKept
<1>1. IsQueue(outbox') /\ Range(outbox') = Range(outbox) \cup {report}
  BY SendFacts DEF Queueing, QueueReport
<1>2. Whereabouts \subseteq Whereabouts'
  BY <1>1 DEF Queueing, QueueReport, Whereabouts
<1> QED
  BY <1>1, <1>2, FaultFacts DEF Queueing, QueueReport, Careful, connection, ops, NoFault

LEMMA DeliveringCareful == ASSUME ReportsKept, Delivering PROVE Careful
<1> USE DEF ReportsKept
<1>1. IsQueue(outbox') /\ Range(outbox) = Range(outbox') \cup {Head(outbox)}
  BY TakeFacts DEF Delivering, WriteArrives
<1>2. heard \subseteq heard' /\ (Head(outbox) \in Reports => Head(outbox) \in heard')
  BY DEF Delivering, HearReport
<1>3. UNCHANGED <<run, reporting, lost, alive, version>> /\ NoFault /\ alive
  BY DEF Delivering, WriteArrives, TakeFrame, HearOp
<1>4. Whereabouts \cap Reports \subseteq Whereabouts'
  BY <1>1, <1>2, <1>3 DEF Whereabouts
<1> QED
  BY <1>1, <1>3, <1>4, FaultFacts DEF Careful

\* A status update starts its report.
LEMMA ReconcilingKeeps == ASSUME ReportsKept, Reconciling PROVE ReportsKept'
<1> USE DEF ReportsKept
<1>1. NoFault /\ UNCHANGED <<outbox, link, alive, version>>
  BY DEF Reconciling, connection, ops
<1>2. CASE StartManager \/ Revive \/ SyncRun
  <2>1. UNCHANGED <<reporting, heard, lost>>
    BY <1>2 DEF StartManager, Revive, SyncRun
  <2>2. run' \in Reports /\ run'.update = run.update
    <3>1. CASE Revive
      <4>1. \A r \in Reports : /\ [r EXCEPT !.phase = "live"] \in Reports
                               /\ [r EXCEPT !.phase = "live"].update = r.update
        BY DEF Reports, RunPhases
      <4> QED
        BY <3>1, <4>1 DEF Revive
    <3> QED
      BY <1>2, <3>1 DEF StartManager, SyncRun
  <2>3. Careful
    BY <1>1, <2>1, <2>2, FaultFacts DEF Careful, Whereabouts, NoFault
  <2> QED
    BY <2>3, CarefulKeeps
<1>3. ASSUME NEW phase \in RunPhases, UpdateStatus(phase) PROVE ReportsKept'
  <2>1. /\ run'.update = run.update + 1 /\ run.update \in Nat
        /\ run' \in Reports
    <3> DEFINE Updated(r) == [r EXCEPT !.update = @ + 1, !.phase = phase]
    <3>1. ASSUME NEW r \in Reports, r.update < MaxUpdates
          PROVE  Updated(r) \in Reports /\ Updated(r).update = r.update + 1 /\ r.update \in Nat
      <4>1. r.update \in Nat /\ r.update + 1 \in 0..MaxUpdates
        BY <3>1, ReportsAssumption DEF Reports
      <4>2. ASSUME NEW u \in 0..MaxUpdates
            PROVE  /\ [r EXCEPT !.update = u, !.phase = phase] \in Reports
                   /\ [r EXCEPT !.update = u, !.phase = phase].update = u
        BY DEF Reports
      <4> QED
        BY <4>1, <4>2
    <3>2. run \in Reports /\ run.update < MaxUpdates /\ run' = Updated(run)
      BY <1>3 DEF UpdateStatus
    <3> HIDE DEF Updated
    <3> QED
      BY <3>1, <3>2
  <2>2. reporting' = reporting \cup {run'} /\ UNCHANGED <<heard, lost>>
    BY <1>3 DEF UpdateStatus
  <2>3. ASSUME NEW update \in 1..run'.update
        PROVE  \E report \in Whereabouts' : report \in Reports /\ report.update = update
    <3>1. CASE update = run'.update
      BY <3>1, <2>1, <2>2 DEF Whereabouts
    <3>2. CASE update # run'.update
      <4>1. update \in 1..run.update
        BY <3>2, <2>1
      <4>2. Whereabouts \subseteq Whereabouts'
        BY <1>1, <2>2 DEF Whereabouts
      <4> QED
        BY <4>1, <4>2 DEF ReportsAccounted, Whereabouts
    <3> QED
      BY <3>1, <3>2
  <2> QED
    BY <1>1, <2>1, <2>2, <2>3 DEF ReportsAccounted, Whereabouts, NoFault
<1> QED
  BY <1>2, <1>3 DEF Reconciling

\* The frame is lost with a connection that has broken.
LEMMA LosingKeeps == ASSUME ReportsKept, Losing PROVE ReportsKept'
<1> USE DEF ReportsKept
<1>1. IsQueue(outbox') /\ Range(outbox) = Range(outbox') \cup {Head(outbox)}
  BY TakeFacts DEF Losing, WriteIsLost
<1>2. NoFault /\ faults > 0 /\ UNCHANGED <<run, reporting, heard>>
  BY DEF Losing, WriteIsLost, TakeFrame
<1>3. lost' = lost \cup ({Head(outbox)} \cap Reports)
  BY DEF Losing, LoseReports
<1>4. Whereabouts \cap Reports \subseteq Whereabouts'
  BY <1>1, <1>2, <1>3 DEF Whereabouts
<1>5. \A update \in 1..run'.update :
         \E report \in Whereabouts' : report \in Reports /\ report.update = update
  BY <1>2, <1>4 DEF ReportsAccounted, Whereabouts
<1> QED
  BY <1>1, <1>2, <1>5 DEF ReportsAccounted, Whereabouts, NoFault

\* The process ends with its reports.
LEMMA NewProcessKeeps ==
    ASSUME ReportsKept, NewProcess, Fault \/ (NoFault /\ version' = "new") PROVE ReportsKept'
<1> USE DEF ReportsKept
<1>1. /\ outbox' = << >> /\ link' = "dial"
      /\ UNCHANGED <<run, heard>>
      /\ lost' = lost \cup ((Range(outbox) \cup reporting) \cap Reports)
  BY DEF NewProcess, ConnectorRestart, ReportsRestart, LoseReports
<1>2. Whereabouts \cap Reports \subseteq Whereabouts'
  BY <1>1 DEF Whereabouts
<1>3. \A update \in 1..run'.update :
         \E report \in Whereabouts' : report \in Reports /\ report.update = update
  BY <1>1, <1>2 DEF ReportsAccounted, Whereabouts
<1> QED
  BY <1>1, <1>3, EmptyFacts, FaultFacts DEF ReportsAccounted, Whereabouts

LEMMA InitKept == Init => ReportsKept
<1> SUFFICES ASSUME Init PROVE ReportsKept
  OBVIOUS
<1>1. /\ outbox = << >> /\ link = "dial" /\ faults = 0
      /\ run = NoReport /\ lost = {}
  BY DEF Init, ConnectorInit, ReportsInit
<1>2. NoReport \in Reports /\ NoReport.update = 0
  BY ReportsAssumption DEF NoReport, Reports, RunPhases
<1> QED
  BY <1>1, <1>2, EmptyFacts DEF ReportsKept, ReportsAccounted

\* What a goroutine of an operation or of a log does is no business of the reports'.
LEMMA OperatingCareful ==
    ASSUME ReportsKept, NEW d, Operating(d) \/ Timeout(d) \/ OperationFails(d)
    PROVE  ReportsKept'
<1>1. UNCHANGED <<link, alive, reports, version>>
  <2>1. UNCHANGED version
    BY DEF Operating, Timeout, OperationFails, OpSends, OpWorks, Announce, ShipLogs, ReportOutcome,
           TellInFlight, CreateExecJob, CreateExecJobFails, GetJob, ReadLogs, ProbeUpgrade,
           CreateUpgradeJob, GiveUp, ReadLogsFails, ProbeUpgradeFails, CreateUpgradeJobFails, Fail
  <2> QED
    BY <2>1 DEF Operating, Timeout, OperationFails, connection
<1>2. UNCHANGED outbox \/ \E frame : Send(frame)
  BY DEF Operating, Timeout, OperationFails, OpSends, Announce, ShipLogs, ReportOutcome, TellInFlight
<1>3. Fault \/ NoFault
  BY DEF Operating, Timeout, OperationFails, ReadLogsFails, ProbeUpgradeFails, CreateUpgradeJobFails
<1>4. IsQueue(outbox') /\ Range(outbox) \subseteq Range(outbox')
  BY <1>2, SendFacts DEF ReportsKept
<1>5. Careful
  BY <1>1, <1>3, <1>4, FaultFacts DEF ReportsKept, Careful, Whereabouts, reports, NoFault
<1> QED
  BY <1>5, CarefulKeeps

LEMMA StepKeepsReports == ReportsKept /\ [Next]_vars => ReportsKept'
<1> SUFFICES ASSUME ReportsKept, [Next]_vars PROVE ReportsKept'
  OBVIOUS
<1>1. CASE Refused \/ Connecting \/ BurnToken \/ Announcing \/ Ticking \/ Beating
           \/ Noticing \/ Breaking
  BY <1>1, ConnectionCareful, CarefulKeeps
<1>2. CASE Resyncing
  BY <1>2, ResyncCareful, CarefulKeeps
<1>3. CASE Delivering
  BY <1>3, DeliveringCareful, CarefulKeeps
<1>4. CASE Losing
  BY <1>4, LosingKeeps
<1>5. CASE Reconciling
  BY <1>5, ReconcilingKeeps
<1>6. ASSUME NEW report \in reporting, Queueing(report) PROVE ReportsKept'
  BY <1>6, QueueingCareful, CarefulKeeps
<1>7. ASSUME NEW d \in Deliveries, Operating(d) \/ Timeout(d) \/ OperationFails(d)
      PROVE  ReportsKept'
  BY <1>7, OperatingCareful
<1>8. CASE Commanding
  <2>1. UNCHANGED version
    BY <1>8 DEF Commanding, Deliver, ExecJobRuns, UpgradeJobFails, ReapUpgradeJob
  <2>2. NoFault /\ UNCHANGED <<outbox, link, alive, reports>>
    BY <1>8 DEF Commanding, connection
  <2> QED
    BY <2>1, <2>2, AsideCareful, CarefulKeeps
<1>9. ASSUME NEW s \in Streams, Streaming(s) PROVE ReportsKept'
  <2>1. NoFault /\ UNCHANGED <<link, alive, reports, version>>
    BY <1>9 DEF Streaming, connection, ops
  <2>2. UNCHANGED outbox \/ \E frame : Send(frame)
    BY <1>9 DEF Streaming, SendLogChunk
  <2> QED
    BY <2>1, <2>2, AsideCareful, CarefulKeeps
<1>10. CASE JobStarts
  <2>1. NoFault /\ UNCHANGED <<outbox, link, alive, reports, version>>
    BY <1>10 DEF JobStarts, connection, ops
  <2> QED
    BY <2>1, AsideCareful, CarefulKeeps
<1>11. CASE Restart
  BY <1>11, NewProcessKeeps DEF Restart
<1>12. CASE Upgrade
  <2>1. version' = "new"
    BY <1>12 DEF Upgrade, UpgradeRollsOut
  <2> QED
    BY <1>12, <2>1, NewProcessKeeps DEF Upgrade
<1>13. CASE UNCHANGED vars
  BY <1>13 DEF vars, connector, reports, ops, ReportsKept, ReportsAccounted
<1> QED
  BY <1>1, <1>2, <1>3, <1>4, <1>5, <1>6, <1>7, <1>8, <1>9, <1>10, <1>11, <1>12, <1>13
     DEF Next

(* No status update of the run is forgotten between reportStatus and the Hub: each is on its
   way, has got there, or was lost with a connection that broke or a process that ended, for
   every capacity of the outbox and every number of faults (ReportsAccounted). *)
THEOREM NoReportForgotten == Spec => []ReportsAccounted
<1>1. ReportsKept => ReportsAccounted
  BY DEF ReportsKept
<1> QED
  BY <1>1, InitKept, StepKeepsReports, PTL DEF Spec
-----------------------------------------------------------------------------
(* Agent operations: what a delivery's goroutine does, field by field.  The bounds of the
   Jobs' output do not matter here, so numbers are just that. *)

Statuses == {"Absent", "Active"} \cup Outcomes
ExecRecords ==
    [op : Ops, step : ExecSteps, seen : Statuses, sent : Nat, upto : Nat, outcome : Outcomes]
JobRecords == [status : Statuses, output : Nat]
LedgerRecords == [status : {"queued", "running"} \cup Outcomes, output : Seq(Nat)]

Watching == {"watch", "drain", "ship"}

\* What a goroutine knows is so: of a success it saw or will report, the Job is one.
DeliveryOK(d) ==
    /\ exec[d].step \in {"none", "started", "create"} => execJob[d].status = "Absent"
    /\ exec[d].seen = "succeeded" => execJob[d].status = "succeeded"
    /\ exec[d].outcome = "succeeded" => execJob[d].status = "succeeded"
    /\ exec[d].step = "ship" => exec[d].sent < exec[d].upto

LEMMA StepRecord ==
    ASSUME NEW e \in ExecRecords, NEW to \in ExecSteps
    PROVE  /\ [e EXCEPT !.step = to] \in ExecRecords
           /\ [e EXCEPT !.step = to].op = e.op
           /\ [e EXCEPT !.step = to].step = to
           /\ [e EXCEPT !.step = to].seen = e.seen
           /\ [e EXCEPT !.step = to].sent = e.sent
           /\ [e EXCEPT !.step = to].upto = e.upto
           /\ [e EXCEPT !.step = to].outcome = e.outcome
BY DEF ExecRecords

LEMMA ExecutionRecord ==
    ASSUME NEW op \in Ops, NEW step \in ExecSteps, NEW outcome \in Outcomes
    PROVE  /\ Execution(op, step, outcome) \in ExecRecords
           /\ Execution(op, step, outcome).op = op
           /\ Execution(op, step, outcome).step = step
           /\ Execution(op, step, outcome).seen = "Absent"
           /\ Execution(op, step, outcome).sent = 0
           /\ Execution(op, step, outcome).outcome = outcome
BY DEF Execution, ExecRecords, Statuses

\* The end of a tick: a Job that was seen to be over is reported, another watched on.
LEMMA AfterRecord ==
    ASSUME NEW e \in ExecRecords, NEW sent \in Nat,
           NEW n, n = After([e EXCEPT !.sent = sent])
    PROVE  /\ n \in ExecRecords
           /\ n.op = e.op
           /\ n.step \in {"watch", "report"}
           /\ n.step = "watch" => n.sent = sent
           /\ n.seen = "Absent"
           /\ n.outcome = "succeeded" => e.seen = "succeeded" \/ e.outcome = "succeeded"
<1> DEFINE f == [e EXCEPT !.sent = sent]
<1>1. /\ f \in ExecRecords /\ f.op = e.op /\ f.seen = e.seen /\ f.sent = sent
      /\ f.outcome = e.outcome
  BY DEF ExecRecords
<1> HIDE DEF f
<1>2. n = After(f)
  BY DEF f
<1>3. CASE f.seen \in Outcomes
  <2>1. n = Execution(f.op, "report", f.seen)
    BY <1>2, <1>3 DEF After
  <2>2. f.op \in Ops
    BY <1>1 DEF ExecRecords
  <2> QED
    BY <1>1, <1>3, <2>1, <2>2, ExecutionRecord DEF ExecSteps
<1>4. CASE f.seen \notin Outcomes
  <2>1. n = [f EXCEPT !.step = "watch", !.seen = "Absent", !.upto = 0]
    BY <1>2, <1>4 DEF After
  <2>2. [f EXCEPT !.step = "watch"] \in ExecRecords
    BY <1>1, StepRecord DEF ExecSteps
  <2>3. ASSUME NEW g \in ExecRecords
        PROVE  /\ [g EXCEPT !.seen = "Absent", !.upto = 0] \in ExecRecords
               /\ [g EXCEPT !.seen = "Absent", !.upto = 0].seen = "Absent"
    BY DEF ExecRecords, Statuses
  <2>4. n = [[f EXCEPT !.step = "watch"] EXCEPT !.seen = "Absent", !.upto = 0]
    BY <2>1
  <2>5. n \in ExecRecords /\ n.seen = "Absent"
    BY <2>2, <2>3, <2>4
  <2>6. n.op = f.op /\ n.step = "watch" /\ n.sent = f.sent /\ n.outcome = f.outcome
    BY <1>1, <2>1 DEF ExecRecords
  <2> QED
    BY <1>1, <2>5, <2>6
<1> QED
  BY <1>3, <1>4

\* One delivery's goroutine goes on, and with it perhaps the Job.
LEMMA ExecUpdate ==
    ASSUME exec \in [Deliveries -> ExecRecords], NEW d \in Deliveries, NEW n \in ExecRecords,
           exec' = [exec EXCEPT ![d] = n]
    PROVE  /\ exec' \in [Deliveries -> ExecRecords]
           /\ exec'[d] = n
           /\ \A e \in Deliveries : e # d => exec'[e] = exec[e]
OBVIOUS

\* The state of the goroutines, the Jobs and the ledger.
OpsKept ==
    /\ exec \in [Deliveries -> ExecRecords]
    /\ execJob \in [Deliveries -> JobRecords]
    /\ \A d \in Deliveries : DeliveryOK(d)

\* How the goroutine of delivery d moves: the others and their Jobs stay, its operation is
\* the same, and a Job that succeeded stays so; it is at the start no more than before.
Moves(d) ==
    /\ OpsKept'
    /\ \A e \in Deliveries : e # d => exec'[e] = exec[e]
    /\ exec[d].step # "none" /\ exec'[d].step # "none"
    /\ exec'[d].op = exec[d].op
    /\ \A e \in Deliveries : execJob[e].status = "succeeded" => execJob'[e].status = "succeeded"
    /\ exec'[d].step \in {"started", "create"} => exec[d].step \in {"started", "create"}
    /\ ledger' = ledger

\* A step that leaves the Jobs alone, from what it does to the goroutine.
LEMMA MovesTo ==
    ASSUME OpsKept, NEW d \in Deliveries, NEW n \in ExecRecords,
           exec' = [exec EXCEPT ![d] = n], UNCHANGED <<execJob, ledger>>,
           exec[d].step # "none", n.op = exec[d].op,
           n.step \notin {"none", "started"}, n.step = "create" => exec[d].step = "started",
           n.seen = "succeeded" => execJob[d].status = "succeeded",
           n.outcome = "succeeded" => execJob[d].status = "succeeded",
           n.step = "ship" => n.sent < n.upto
    PROVE  Moves(d) /\ exec'[d] = n
<1>1. /\ exec' \in [Deliveries -> ExecRecords]
      /\ exec'[d] = n
      /\ \A e \in Deliveries : e # d => exec'[e] = exec[e]
  BY ExecUpdate DEF OpsKept
<1>2. DeliveryOK(d)'
  BY <1>1 DEF OpsKept, DeliveryOK
<1>3. \A e \in Deliveries : e # d => DeliveryOK(e)'
  BY <1>1 DEF OpsKept, DeliveryOK
<1> QED
  BY <1>1, <1>2, <1>3 DEF Moves, OpsKept

\* The Job is created, whether its goroutine gets to know or not.
LEMMA MovesAtCreate ==
    ASSUME OpsKept, NEW d \in Deliveries, NEW n \in ExecRecords,
           exec' = [exec EXCEPT ![d] = n], UNCHANGED ledger,
           exec[d].step = "create", n.op = exec[d].op, n.step \in {"watch", "report"},
           n.seen # "succeeded", n.outcome # "succeeded",
           execJob' = execJob \/ execJob' = [execJob EXCEPT ![d].status = "Active"]
    PROVE  Moves(d) /\ exec'[d] = n
<1>1. /\ exec' \in [Deliveries -> ExecRecords]
      /\ exec'[d] = n
      /\ \A e \in Deliveries : e # d => exec'[e] = exec[e]
  BY ExecUpdate DEF OpsKept
<1>2. /\ execJob' \in [Deliveries -> JobRecords]
      /\ \A e \in Deliveries : e # d => execJob'[e] = execJob[e]
  BY DEF OpsKept, JobRecords, Statuses
<1>3. DeliveryOK(d)'
  BY <1>1 DEF DeliveryOK
<1>4. \A e \in Deliveries : e # d => DeliveryOK(e)'
  BY <1>1, <1>2 DEF OpsKept, DeliveryOK
<1>5. execJob[d].status # "succeeded"
  BY DEF OpsKept, DeliveryOK
<1> QED
  BY <1>1, <1>2, <1>3, <1>4, <1>5 DEF Moves, OpsKept

\* The operation of a delivery has succeeded in some Job.
Earned(op) == \E d \in Deliveries : exec[d].op = op /\ execJob[d].status = "succeeded"

\* A frame is what it says it is.
FrameOK(f) ==
    /\ f.type = "agent_op_status" =>
          /\ f.op \in Ops
          /\ f.status \in {"running"} \cup Outcomes
          /\ f.status = "succeeded" => Earned(f.op)
    /\ f.type = "agent_op_log" => f.op \in Ops /\ f.from \in Nat /\ f.to \in Nat

\* A frame has output of the operation.
Content(f, op) == f.type = "agent_op_log" /\ f.op = op /\ f.from < f.to
Quiet(f) == FrameOK(f) /\ \A op \in Ops : ~Content(f, op)

\* What the goroutine of delivery d may do: go on without a word, say something that is not
\* output, or send the output it has read.
Works(d) ==
    /\ Moves(d)
    /\ UNCHANGED outbox
    /\ exec'[d].step \in Watching =>
          exec[d].step = "create" \/ (exec[d].step \in Watching /\ exec'[d].sent = exec[d].sent)

Tells(d) ==
    /\ Moves(d)
    /\ \E frame : Send(frame) /\ Quiet(frame)
    /\ exec'[d].step \notin Watching

Ships(d) ==
    /\ Moves(d)
    /\ exec[d].step = "ship"
    /\ Send(OpLog(exec[d].op, exec[d].sent, exec[d].upto))
    /\ exec'[d].step \in Watching => exec'[d].sent = exec[d].upto

LEMMA FailMoves ==
    ASSUME OpsKept, NEW d \in Deliveries, NEW from, Fail(d, from), UNCHANGED execJob, from # "none"
    PROVE  Moves(d) /\ exec'[d].step \notin Watching
<1>1. exec[d] \in ExecRecords /\ exec[d].op \in Ops
  BY DEF OpsKept, ExecRecords
<1> DEFINE n == Execution(exec[d].op, "report", "failed")
<1>2. n \in ExecRecords /\ n.op = exec[d].op /\ n.step = "report" /\ n.seen = "Absent"
      /\ n.outcome = "failed"
  BY <1>1, ExecutionRecord DEF ExecSteps, Outcomes
<1>3. exec' = [exec EXCEPT ![d] = n] /\ exec[d].step = from /\ UNCHANGED ledger
  BY DEF Fail
<1> HIDE DEF n
<1> QED
  BY <1>2, <1>3, MovesTo DEF Watching

LEMMA StepMoves ==
    ASSUME OpsKept, NEW d \in Deliveries, NEW from, NEW to \in ExecSteps, Step(d, from, to),
           UNCHANGED <<execJob, ledger>>, from # "none", to \notin {"none", "started", "ship"},
           to = "create" => from = "started"
    PROVE  Moves(d) /\ exec'[d].step = to /\ exec'[d].sent = exec[d].sent
<1>1. exec[d] \in ExecRecords /\ DeliveryOK(d)
  BY DEF OpsKept
<1> DEFINE n == [exec[d] EXCEPT !.step = to]
<1>2. n \in ExecRecords /\ n.op = exec[d].op /\ n.step = to /\ n.seen = exec[d].seen
      /\ n.outcome = exec[d].outcome /\ n.sent = exec[d].sent
  BY <1>1, StepRecord
<1>3. exec' = [exec EXCEPT ![d] = n] /\ exec[d].step = from
  BY DEF Step
<1> HIDE DEF n
<1> QED
  BY <1>1, <1>2, <1>3, MovesTo DEF DeliveryOK

LEMMA DrainedMoves ==
    ASSUME OpsKept, NEW d \in Deliveries, NEW sent \in Nat, LogsDrained(d, sent),
           UNCHANGED <<execJob, ledger>>, exec[d].step # "none"
    PROVE  Moves(d) /\ (exec'[d].step \in Watching => exec'[d].sent = sent)
<1>1. exec[d] \in ExecRecords /\ DeliveryOK(d)
  BY DEF OpsKept
<1> DEFINE n == After([exec[d] EXCEPT !.sent = sent])
<1>2. exec' = [exec EXCEPT ![d] = n]
  BY DEF LogsDrained
<1>3. /\ n \in ExecRecords /\ n.op = exec[d].op /\ n.step \in {"watch", "report"}
      /\ n.step = "watch" => n.sent = sent
      /\ n.seen = "Absent"
      /\ n.outcome = "succeeded" => exec[d].seen = "succeeded" \/ exec[d].outcome = "succeeded"
  BY <1>1, AfterRecord
<1> HIDE DEF n
<1> QED
  BY <1>1, <1>2, <1>3, MovesTo DEF DeliveryOK, Watching

\* What is said: running, an outcome that is so, or that an upgrade is in flight.
LEMMA OpStatusQuiet ==
    ASSUME NEW op \in Ops, NEW status \in {"running"} \cup Outcomes,
           status = "succeeded" => Earned(op)
    PROVE  Quiet(OpStatus(op, status))
BY DEF OpStatus, Quiet, FrameOK, Content

LEMMA OpLogOK ==
    ASSUME NEW op \in Ops, NEW from \in Nat, NEW to \in Nat
    PROVE  FrameOK(OpLog(op, from, to)) /\ (from = to => Quiet(OpLog(op, from, to)))
BY DEF OpLog, Quiet, FrameOK, Content

LEMMA SendsMove ==
    ASSUME OpsKept, NEW d \in Deliveries, OpSends(d) PROVE Tells(d) \/ Ships(d)
<1>1. exec[d] \in ExecRecords /\ exec[d].op \in Ops /\ DeliveryOK(d)
  BY DEF OpsKept, ExecRecords
<1>2. CASE Announce(d)
  <2>1. PICK to \in {"create", "probe", "report"} : Step(d, "started", to)
    BY <1>2 DEF Announce
  <2>2. Moves(d) /\ exec'[d].step = to
    BY <1>2, <2>1, StepMoves DEF Announce, ExecSteps
  <2>3. Quiet(OpStatus(exec[d].op, "running"))
    BY <1>1, OpStatusQuiet DEF Outcomes
  <2> QED
    BY <1>2, <2>1, <2>2, <2>3 DEF Announce, Tells, Watching
<1>3. CASE ShipLogs(d)
  <2>1. exec[d].upto \in Nat /\ exec[d].step = "ship"
    BY <1>1, <1>3 DEF ShipLogs, ExecRecords
  <2> QED
    BY <1>3, <2>1, DrainedMoves DEF ShipLogs, Ships
<1>4. CASE ReportOutcome(d)
  <2> DEFINE n == Execution(exec[d].op, "done", "failed")
  <2>1. n \in ExecRecords /\ n.op = exec[d].op /\ n.step = "done" /\ n.seen = "Absent"
        /\ n.outcome = "failed"
    BY <1>1, ExecutionRecord DEF ExecSteps, Outcomes
  <2>2. exec' = [exec EXCEPT ![d] = n] /\ exec[d].step = "report" /\ UNCHANGED <<execJob, ledger>>
    BY <1>4 DEF ReportOutcome
  <2>3. Moves(d) /\ exec'[d].step = "done"
    <3> HIDE DEF n
    <3> QED
      BY <2>1, <2>2, MovesTo
  <2>4. exec[d].outcome \in Outcomes /\ (exec[d].outcome = "succeeded" => Earned(exec[d].op))
    BY <1>1 DEF ExecRecords, DeliveryOK, Earned
  <2>5. Quiet(OpStatus(exec[d].op, exec[d].outcome))
    BY <1>1, <2>4, OpStatusQuiet
  <2> QED
    BY <1>4, <2>3, <2>5 DEF ReportOutcome, Tells, Watching
<1>5. CASE TellInFlight(d)
  <2>1. Moves(d) /\ exec'[d].step = "done"
    BY <1>5, StepMoves DEF TellInFlight, ExecSteps
  <2>2. Quiet(OpLog(exec[d].op, 0, 0))
    BY <1>1, OpLogOK
  <2> QED
    BY <1>5, <2>1, <2>2 DEF TellInFlight, Tells, Watching
<1> QED
  BY <1>2, <1>3, <1>4, <1>5 DEF OpSends

LEMMA WorksMove ==
    ASSUME OpsKept, NEW d \in Deliveries, UNCHANGED outbox,
           \/ OpWorks(d) \/ GiveUp(d)
           \/ ReadLogsFails(d) \/ ProbeUpgradeFails(d) \/ CreateUpgradeJobFails(d)
    PROVE  Works(d)
<1>1. exec[d] \in ExecRecords /\ exec[d].op \in Ops /\ exec[d].sent \in Nat /\ DeliveryOK(d)
  BY DEF OpsKept, ExecRecords
<1>2. CASE CreateExecJob(d)
  <2> DEFINE n == [exec[d] EXCEPT !.step = "watch"]
  <2>1. n \in ExecRecords /\ n.op = exec[d].op /\ n.step = "watch" /\ n.seen = exec[d].seen
        /\ n.outcome = exec[d].outcome
    BY <1>1, StepRecord DEF ExecSteps
  <2>2. exec' = [exec EXCEPT ![d] = n] /\ exec[d].step = "create" /\ UNCHANGED ledger
        /\ execJob' = [execJob EXCEPT ![d].status = "Active"]
    BY <1>2 DEF CreateExecJob, Step
  <2>3. exec[d].seen # "succeeded" /\ exec[d].outcome # "succeeded"
    BY <1>1, <2>2 DEF DeliveryOK
  <2> HIDE DEF n
  <2>4. Moves(d)
    BY <2>1, <2>2, <2>3, MovesAtCreate
  <2> QED
    BY <2>2, <2>4 DEF Works
<1>3. CASE CreateExecJobFails(d)
  <2> DEFINE n == Execution(exec[d].op, "report", "failed")
  <2>1. n \in ExecRecords /\ n.op = exec[d].op /\ n.step = "report" /\ n.seen = "Absent"
        /\ n.outcome = "failed"
    BY <1>1, ExecutionRecord DEF ExecSteps, Outcomes
  <2>2. exec' = [exec EXCEPT ![d] = n] /\ exec[d].step = "create" /\ UNCHANGED ledger
        /\ (execJob' = execJob \/ execJob' = [execJob EXCEPT ![d].status = "Active"])
    BY <1>3 DEF CreateExecJobFails, Fail
  <2> HIDE DEF n
  <2>3. Moves(d)
    BY <2>1, <2>2, MovesAtCreate
  <2> QED
    BY <2>2, <2>3 DEF Works
<1>4. CASE GetJob(d)
  <2> DEFINE n == [[exec[d] EXCEPT !.step = "drain"] EXCEPT !.seen = execJob[d].status]
  <2>1. execJob[d].status \in Statuses
    BY DEF OpsKept, JobRecords
  <2>3. ASSUME NEW g \in ExecRecords, NEW seen \in Statuses
        PROVE  /\ [g EXCEPT !.seen = seen] \in ExecRecords
               /\ [g EXCEPT !.seen = seen].seen = seen
               /\ [g EXCEPT !.seen = seen].step = g.step
               /\ [g EXCEPT !.seen = seen].op = g.op
               /\ [g EXCEPT !.seen = seen].sent = g.sent
               /\ [g EXCEPT !.seen = seen].outcome = g.outcome
    BY DEF ExecRecords
  <2>4. /\ n \in ExecRecords /\ n.seen = execJob[d].status
        /\ n.step = "drain" /\ n.op = exec[d].op /\ n.sent = exec[d].sent
        /\ n.outcome = exec[d].outcome
    <3> DEFINE g == [exec[d] EXCEPT !.step = "drain"]
    <3>1. g \in ExecRecords /\ g.step = "drain" /\ g.op = exec[d].op /\ g.sent = exec[d].sent
          /\ g.outcome = exec[d].outcome
      BY <1>1, StepRecord DEF ExecSteps
    <3>2. n = [g EXCEPT !.seen = execJob[d].status]
      OBVIOUS
    <3> HIDE DEF g, n
    <3> QED
      BY <2>1, <2>3, <3>1, <3>2
  <2>5. exec' = [exec EXCEPT ![d] = n] /\ exec[d].step = "watch" /\ UNCHANGED <<execJob, ledger>>
    BY <1>4 DEF GetJob
  <2> HIDE DEF n
  <2> QED
    BY <1>1, <2>4, <2>5, MovesTo DEF Works, Watching, DeliveryOK
<1>5. CASE ReadLogs(d) /\ execJob[d].output > exec[d].sent
  <2> DEFINE n == [[exec[d] EXCEPT !.step = "ship"] EXCEPT !.upto = execJob[d].output]
  <2>1. execJob[d].output \in Nat
    BY DEF OpsKept, JobRecords
  <2>3. ASSUME NEW g \in ExecRecords, NEW upto \in Nat
        PROVE  /\ [g EXCEPT !.upto = upto] \in ExecRecords
               /\ [g EXCEPT !.upto = upto].upto = upto
               /\ [g EXCEPT !.upto = upto].step = g.step
               /\ [g EXCEPT !.upto = upto].op = g.op
               /\ [g EXCEPT !.upto = upto].seen = g.seen
               /\ [g EXCEPT !.upto = upto].sent = g.sent
               /\ [g EXCEPT !.upto = upto].outcome = g.outcome
    BY DEF ExecRecords
  <2>4. /\ n \in ExecRecords /\ n.upto = execJob[d].output
        /\ n.step = "ship" /\ n.op = exec[d].op /\ n.sent = exec[d].sent
        /\ n.outcome = exec[d].outcome /\ n.seen = exec[d].seen
    <3> DEFINE g == [exec[d] EXCEPT !.step = "ship"]
    <3>1. g \in ExecRecords /\ g.step = "ship" /\ g.op = exec[d].op /\ g.sent = exec[d].sent
          /\ g.outcome = exec[d].outcome /\ g.seen = exec[d].seen
      BY <1>1, StepRecord DEF ExecSteps
    <3>2. n = [g EXCEPT !.upto = execJob[d].output]
      OBVIOUS
    <3> HIDE DEF g, n
    <3> QED
      BY <2>1, <2>3, <3>1, <3>2
  <2>5. exec' = [exec EXCEPT ![d] = n] /\ exec[d].step = "drain" /\ UNCHANGED <<execJob, ledger>>
    BY <1>5 DEF ReadLogs
  <2> HIDE DEF n
  <2> QED
    BY <1>1, <1>5, <2>4, <2>5, MovesTo DEF Works, Watching, DeliveryOK
<1>6. CASE (ReadLogs(d) /\ ~(execJob[d].output > exec[d].sent)) \/ ReadLogsFails(d)
  <2>1. exec[d].step = "drain" /\ LogsDrained(d, exec[d].sent) /\ UNCHANGED <<execJob, ledger>>
    BY <1>6 DEF ReadLogs, ReadLogsFails
  <2> QED
    BY <1>1, <2>1, DrainedMoves DEF Works, Watching
<1>7. CASE ProbeUpgrade(d) \/ ProbeUpgradeFails(d)
  <2>1. PICK to \in {"tell", "createUpgrade"} : Step(d, "probe", to)
    BY <1>7 DEF ProbeUpgrade, ProbeUpgradeFails
  <2>2. Moves(d) /\ exec'[d].step = to
    BY <1>7, <2>1, StepMoves DEF ProbeUpgrade, ProbeUpgradeFails, ExecSteps
  <2> QED
    BY <2>2 DEF Works, Watching
<1>8. CASE CreateUpgradeJob(d)
  <2>1. Moves(d) /\ exec'[d].step = "done"
    BY <1>8, StepMoves DEF CreateUpgradeJob, ExecSteps
  <2> QED
    BY <2>1 DEF Works, Watching
<1>9. CASE GiveUp(d) \/ CreateUpgradeJobFails(d)
  <2>1. PICK from \in {"watch", "createUpgrade"} : Fail(d, from)
    BY <1>9 DEF GiveUp, CreateUpgradeJobFails
  <2> QED
    BY <1>9, <2>1, FailMoves DEF GiveUp, CreateUpgradeJobFails, Works
<1> QED
  BY <1>2, <1>3, <1>4, <1>5, <1>6, <1>7, <1>8, <1>9 DEF OpWorks
-----------------------------------------------------------------------------
(* The frames in the outbox are well formed, and what they say is so. *)

LEMMA InitReports == Init => ReportsTypeOK
<1>1. NoReport \in Reports
  BY ReportsAssumption DEF NoReport, Reports, RunPhases
<1> QED
  BY <1>1 DEF Init, ReportsInit, ReportsTypeOK

\* A status that was updated, or revived, is one.
LEMMA StatusTypes ==
    ASSUME NEW r \in Reports, NEW phase \in RunPhases
    PROVE  /\ [r EXCEPT !.phase = phase] \in Reports
           /\ r.update < MaxUpdates =>
                [r EXCEPT !.update = @ + 1, !.phase = phase] \in Reports
<1>1. [r EXCEPT !.phase = phase] \in Reports
  BY DEF Reports
<1>2. ASSUME r.update < MaxUpdates
      PROVE  [r EXCEPT !.update = @ + 1, !.phase = phase] \in Reports
  <2>1. r.update + 1 \in 0..MaxUpdates
    BY <1>2, ReportsAssumption DEF Reports
  <2>2. ASSUME NEW u \in 0..MaxUpdates
        PROVE  [r EXCEPT !.update = u, !.phase = phase] \in Reports
    BY DEF Reports
  <2> QED
    BY <2>1, <2>2
<1> QED
  BY <1>1, <1>2

LEMMA StepKeepsReportTypes == ReportsTypeOK /\ [Next]_vars => ReportsTypeOK'
<1> SUFFICES ASSUME ReportsTypeOK, [Next]_vars PROVE ReportsTypeOK'
  OBVIOUS
<1> USE DEF ReportsTypeOK
<1>1. NoReport \in Reports
  BY ReportsAssumption DEF NoReport, Reports, RunPhases
<1>2. CASE Resyncing
  BY <1>1, <1>2 DEF Resyncing, BeginResync, SkipResync, SendResync, reports
<1>3. CASE Delivering
  BY <1>3 DEF Delivering, HearReport
<1>4. CASE Losing
  BY <1>4 DEF Losing, LoseReports
<1>5. CASE Reconciling
  <2>1. CASE StartManager \/ SyncRun
    BY <2>1 DEF StartManager, SyncRun
  <2>2. CASE Revive
    <3>1. run' \in Reports
      BY <2>2, StatusTypes DEF Revive, RunPhases
    <3> QED
      BY <2>2, <3>1 DEF Revive
  <2>3. ASSUME NEW phase \in RunPhases, UpdateStatus(phase) PROVE ReportsTypeOK'
    <3>1. run' \in Reports
      BY <2>3, StatusTypes DEF UpdateStatus
    <3> QED
      BY <2>3, <3>1 DEF UpdateStatus
  <2> QED
    BY <1>5, <2>1, <2>2, <2>3 DEF Reconciling
<1>6. ASSUME NEW report \in reporting, Queueing(report) PROVE ReportsTypeOK'
  BY <1>6 DEF Queueing, QueueReport
<1>7. CASE Restart \/ Upgrade
  BY <1>1, <1>7 DEF Restart, Upgrade, NewProcess, ReportsRestart, LoseReports
<1>8. CASE UNCHANGED reports
  BY <1>8 DEF reports
<1> QED
  BY <1>2, <1>3, <1>4, <1>5, <1>6, <1>7, <1>8
     DEF Next, vars, Refused, Connecting, BurnToken, Announcing, Ticking, Beating, Noticing,
         Breaking, Operating, Timeout, OperationFails, Commanding, Streaming, JobStarts

\* What keeps OutcomeEarned: a success that is in the outbox was earned.
EarnedKept ==
    /\ OpsKept
    /\ IsQueue(outbox)
    /\ \A f \in Range(outbox) : FrameOK(f)
    /\ ledger \in [Ops -> LedgerRecords]
    /\ OutcomeEarned

\* The operations, the Jobs and the ledger are left alone.
Elsewhere == UNCHANGED <<exec, execJob, ledger>>

LEMMA InitEarned == Init => EarnedKept
<1> SUFFICES ASSUME Init PROVE EarnedKept
  OBVIOUS
<1>1. PICK op \in Ops : exec = [d \in Deliveries |-> Execution(op, "none", "failed")]
  BY OpsAssumption DEF Init, OpsInit
<1>2. /\ Execution(op, "none", "failed") \in ExecRecords
      /\ Execution(op, "none", "failed").step = "none"
      /\ Execution(op, "none", "failed").seen = "Absent"
      /\ Execution(op, "none", "failed").outcome = "failed"
  BY ExecutionRecord DEF ExecSteps, Outcomes
<1>3. [status |-> "Absent", output |-> 0] \in JobRecords
  BY DEF JobRecords, Statuses
<1>4. OpsKept
  BY <1>1, <1>2, <1>3 DEF Init, OpsInit, OpsKept, DeliveryOK
<1>5. [status |-> "queued", output |-> << >>] \in LedgerRecords
  <2>1. << >> \in Seq(Nat)
    OBVIOUS
  <2> QED
    BY <2>1 DEF LedgerRecords
<1>6. ledger \in [Ops -> LedgerRecords] /\ OutcomeEarned
  BY <1>5 DEF Init, OpsInit, OutcomeEarned
<1> QED
  BY <1>4, <1>6, EmptyFacts DEF Init, ConnectorInit, EarnedKept

\* What the goroutines, the Jobs and the process may do to the outbox: nothing, or a frame
\* more that is well formed, or all is lost.
LEMMA EarnedMore ==
    ASSUME EarnedKept, OpsKept', UNCHANGED ledger,
           \A op \in Ops : Earned(op) => Earned(op)',
           \/ UNCHANGED outbox
           \/ \E frame : Send(frame) /\ FrameOK(frame)
           \/ outbox' = << >>
    PROVE  EarnedKept'
<1>1. \A f : FrameOK(f) => FrameOK(f)'
  BY DEF FrameOK
<1>2. IsQueue(outbox') /\ \A f \in Range(outbox') : FrameOK(f)
  <2>1. CASE UNCHANGED outbox
    BY <2>1 DEF EarnedKept
  <2>2. ASSUME NEW frame, Send(frame), FrameOK(frame)
        PROVE  IsQueue(outbox') /\ \A f \in Range(outbox') : FrameOK(f)
    BY <2>2, SendFacts DEF EarnedKept
  <2>3. CASE outbox' = << >>
    BY <2>3, EmptyFacts
  <2> QED
    BY <2>1, <2>2, <2>3
<1>3. OutcomeEarned'
  BY DEF EarnedKept, OutcomeEarned, Earned
<1> QED
  BY <1>1, <1>2, <1>3 DEF EarnedKept

LEMMA MovesEarn ==
    ASSUME OpsKept, NEW d \in Deliveries, Moves(d)
    PROVE  OpsKept' /\ UNCHANGED ledger /\ \A op \in Ops : Earned(op) => Earned(op)'
<1>1. \A e \in Deliveries : exec'[e].op = exec[e].op
  BY DEF Moves
<1> QED
  BY <1>1 DEF Moves, Earned

\* A command comes in, a Job runs.
LEMMA CommandingKeeps ==
    ASSUME OpsKept, Commanding
    PROVE  OpsKept' /\ UNCHANGED <<outbox, ledger>> /\ \A op \in Ops : Earned(op) => Earned(op)'
<1>1. UNCHANGED <<outbox, ledger>>
  BY DEF Commanding, Deliver, ExecJobRuns, UpgradeJobFails, ReapUpgradeJob
<1>2. ASSUME NEW d \in Deliveries, NEW op \in Ops, Deliver(d, op)
      PROVE  OpsKept' /\ \A o \in Ops : Earned(o) => Earned(o)'
  <2> DEFINE n == [exec[d] EXCEPT !.op = op, !.step = "started"]
  <2>1. exec[d] \in ExecRecords /\ exec[d].step = "none" /\ DeliveryOK(d)
    <3>1. d \in Nat
      BY DEF Deliveries
    <3> QED
      BY <1>2, <3>1 DEF OpsKept, Deliver
  <2>2. /\ n \in ExecRecords /\ n.step = "started" /\ n.seen = exec[d].seen
        /\ n.outcome = exec[d].outcome
    <3>1. ASSUME NEW e \in ExecRecords
          PROVE  /\ [e EXCEPT !.op = op] \in ExecRecords
                 /\ [e EXCEPT !.op = op].seen = e.seen
                 /\ [e EXCEPT !.op = op].outcome = e.outcome
      BY DEF ExecRecords
    <3> DEFINE g == [exec[d] EXCEPT !.op = op]
    <3>2. n = [g EXCEPT !.step = "started"]
      OBVIOUS
    <3>3. g \in ExecRecords /\ g.seen = exec[d].seen /\ g.outcome = exec[d].outcome
      BY <2>1, <3>1
    <3> HIDE DEF g, n
    <3> QED
      BY <3>2, <3>3, StepRecord DEF ExecSteps
  <2>3. exec' = [exec EXCEPT ![d] = n] /\ UNCHANGED execJob
    BY <1>2 DEF Deliver
  <2> HIDE DEF n
  <2>4. /\ exec' \in [Deliveries -> ExecRecords]
        /\ exec'[d] = n
        /\ \A e \in Deliveries : e # d => exec'[e] = exec[e]
    BY <2>2, <2>3, ExecUpdate DEF OpsKept
  <2>5. DeliveryOK(d)'
    BY <2>1, <2>2, <2>3, <2>4 DEF DeliveryOK
  <2>6. \A e \in Deliveries : e # d => DeliveryOK(e)'
    BY <2>3, <2>4 DEF OpsKept, DeliveryOK
  <2>7. execJob[d].status # "succeeded"
    BY <2>1 DEF DeliveryOK
  <2>8. \A o \in Ops : Earned(o) => Earned(o)'
    BY <2>3, <2>4, <2>7 DEF Earned
  <2> QED
    BY <2>3, <2>4, <2>5, <2>6, <2>8 DEF OpsKept
<1>3. ASSUME NEW d \in Deliveries, ExecJobRuns(d)
      PROVE  OpsKept' /\ \A o \in Ops : Earned(o) => Earned(o)'
  <2>1. exec' = exec /\ execJob[d].status = "Active"
        /\ exec[d].step \in {"watch", "drain", "ship"}
    BY <1>3 DEF ExecJobRuns
  <2>2. /\ execJob' \in [Deliveries -> JobRecords]
        /\ \A e \in Deliveries : e # d => execJob'[e] = execJob[e]
    <3>1. execJob \in [Deliveries -> JobRecords]
      BY DEF OpsKept
    <3>2. CASE execJob' = [execJob EXCEPT ![d].output = @ + 1]
      <4>1. \A job \in JobRecords : [job EXCEPT !.output = @ + 1] \in JobRecords
        BY DEF JobRecords
      <4> QED
        BY <3>1, <3>2, <4>1
    <3>3. ASSUME NEW outcome \in Outcomes, execJob' = [execJob EXCEPT ![d].status = outcome]
          PROVE  /\ execJob' \in [Deliveries -> JobRecords]
                 /\ \A e \in Deliveries : e # d => execJob'[e] = execJob[e]
      <4>1. \A job \in JobRecords : [job EXCEPT !.status = outcome] \in JobRecords
        BY DEF JobRecords, Statuses
      <4> QED
        BY <3>1, <3>3, <4>1
    <3> QED
      BY <1>3, <3>2, <3>3 DEF ExecJobRuns
  <2>3. DeliveryOK(d)'
    BY <2>1 DEF OpsKept, DeliveryOK
  <2>4. \A e \in Deliveries : e # d => DeliveryOK(e)'
    BY <2>1, <2>2 DEF OpsKept, DeliveryOK
  <2>5. \A o \in Ops : Earned(o) => Earned(o)'
    BY <2>1, <2>2 DEF Earned
  <2> QED
    BY <2>1, <2>2, <2>3, <2>4, <2>5 DEF OpsKept
<1>4. ASSUME NEW op \in Ops, UpgradeJobFails(op) \/ ReapUpgradeJob(op)
      PROVE  OpsKept' /\ \A o \in Ops : Earned(o) => Earned(o)'
  BY <1>4 DEF UpgradeJobFails, ReapUpgradeJob, OpsKept, DeliveryOK, Earned
<1> QED
  BY <1>1, <1>2, <1>3, <1>4 DEF Commanding

\* The goroutines end with the process.
LEMMA KilledKeeps ==
    ASSUME OpsKept, exec' = Killed, UNCHANGED <<execJob, ledger>>
    PROVE  /\ OpsKept'
           /\ \A op \in Ops : Earned(op) => Earned(op)'
           /\ \A d \in Deliveries : /\ exec'[d].op = exec[d].op
                                    /\ exec[d].step = "none" => exec'[d] = exec[d]
                                    /\ exec[d].step # "none" => exec'[d].step = "done"
<1>1. \A d \in Deliveries : exec[d] \in ExecRecords /\ exec[d].op \in Ops
  BY DEF OpsKept, ExecRecords
<1>2. \A d \in Deliveries :
         LET n == Execution(exec[d].op, "done", "failed") IN
         n \in ExecRecords /\ n.op = exec[d].op /\ n.step = "done" /\ n.seen = "Absent"
         /\ n.outcome = "failed"
  BY <1>1, ExecutionRecord DEF ExecSteps, Outcomes
<1>3. \A d \in Deliveries :
         \/ exec[d].step = "none" /\ exec'[d] = exec[d]
         \/ exec[d].step # "none" /\ exec'[d] = Execution(exec[d].op, "done", "failed")
  BY DEF Killed
<1>4. exec' \in [Deliveries -> ExecRecords]
  BY <1>1, <1>2 DEF Killed
<1>5. \A d \in Deliveries : DeliveryOK(d)'
  BY <1>2, <1>3 DEF OpsKept, DeliveryOK
<1>6. \A d \in Deliveries : exec'[d].op = exec[d].op
  BY <1>2, <1>3
<1> QED
  BY <1>2, <1>3, <1>4, <1>5, <1>6 DEF OpsKept, Earned

\* The Hub takes a frame.
LEMMA HearOpKeeps ==
    ASSUME EarnedKept, Delivering PROVE EarnedKept'
<1> DEFINE frame == Head(outbox)
<1>1. IsQueue(outbox') /\ Range(outbox) = Range(outbox') \cup {frame}
  BY TakeFacts DEF EarnedKept, Delivering, WriteArrives
<1>2. FrameOK(frame) /\ UNCHANGED <<exec, execJob>> /\ HearOp(frame)
  BY <1>1 DEF EarnedKept, Delivering, HearOp
<1>3. \A f : FrameOK(f) => FrameOK(f)'
  BY <1>2 DEF FrameOK, Earned
<1>4. OpsKept'
  BY <1>2 DEF EarnedKept, OpsKept, DeliveryOK
<1> HIDE DEF frame
<1>5. ledger' \in [Ops -> LedgerRecords] /\ OutcomeEarned'
  <2>1. CASE frame.type = "agent_op_status"
    <3>1. frame.op \in Ops /\ frame.status \in {"running"} \cup Outcomes
          /\ (frame.status = "succeeded" => Earned(frame.op))
      BY <1>2, <2>1 DEF FrameOK
    <3>2. PICK status \in {frame.status, ledger[frame.op].status} :
             ledger' = [ledger EXCEPT ![frame.op].status = status]
      BY <1>2, <2>1 DEF HearOp
    <3>3. \A entry \in LedgerRecords : \A st \in {"queued", "running"} \cup Outcomes :
             /\ [entry EXCEPT !.status = st] \in LedgerRecords
             /\ [entry EXCEPT !.status = st].status = st
      BY DEF LedgerRecords
    <3>4. ledger[frame.op] \in LedgerRecords
          /\ ledger[frame.op].status \in {"queued", "running"} \cup Outcomes
      BY <3>1 DEF EarnedKept, LedgerRecords
    <3>5. /\ ledger' \in [Ops -> LedgerRecords]
          /\ ledger'[frame.op].status = status
          /\ \A op \in Ops : op # frame.op => ledger'[op] = ledger[op]
      BY <3>1, <3>2, <3>3, <3>4 DEF EarnedKept
    <3>6. status = "succeeded" => Earned(frame.op)
      BY <3>1 DEF EarnedKept, OutcomeEarned, Earned
    <3> QED
      BY <1>2, <3>5, <3>6 DEF EarnedKept, OutcomeEarned, Earned
  <2>2. CASE frame.type = "agent_op_log"
    <3> DEFINE new == [i \in 1..(frame.to - frame.from) |-> frame.from + i]
    <3>1. frame.op \in Ops /\ frame.from \in Nat /\ frame.to \in Nat
      BY <1>2, <2>2 DEF FrameOK
    <3>2. new \in Seq(Nat)
      <4>1. CASE frame.to > frame.from
        <5>1. frame.to - frame.from \in Nat
          BY <3>1, <4>1
        <5>2. \A i \in 1..(frame.to - frame.from) : frame.from + i \in Nat
          BY <3>1, <5>1
        <5> QED
          BY <5>1, <5>2
      <4>2. CASE ~(frame.to > frame.from)
        <5>1. 1..(frame.to - frame.from) = {}
          BY <3>1, <4>2
        <5>2. new = << >>
          BY <5>1
        <5> HIDE DEF new
        <5>3. << >> \in Seq(Nat)
          OBVIOUS
        <5> QED
          BY <5>2, <5>3
      <4> QED
        BY <4>1, <4>2
    <3>3. ledger' = [ledger EXCEPT ![frame.op].output = @ \o new]
      BY <1>2, <2>2 DEF HearOp
    <3> HIDE DEF new
    <3>4. ledger[frame.op] \in LedgerRecords /\ ledger[frame.op].output \in Seq(Nat)
      BY <3>1 DEF EarnedKept, LedgerRecords
    <3>5. ledger[frame.op].output \o new \in Seq(Nat)
      BY <3>2, <3>4
    <3>6. \A entry \in LedgerRecords : \A output \in Seq(Nat) :
             /\ [entry EXCEPT !.output = output] \in LedgerRecords
             /\ [entry EXCEPT !.output = output].status = entry.status
      BY DEF LedgerRecords
    <3>7. /\ ledger' \in [Ops -> LedgerRecords]
          /\ ledger'[frame.op].status = ledger[frame.op].status
          /\ \A op \in Ops : op # frame.op => ledger'[op] = ledger[op]
      BY <3>1, <3>3, <3>4, <3>5, <3>6 DEF EarnedKept
    <3> QED
      BY <1>2, <3>7 DEF EarnedKept, OutcomeEarned
  <2>3. CASE frame.type \notin {"agent_op_status", "agent_op_log"}
    <3>1. ledger' = ledger
      BY <1>2, <2>3 DEF HearOp
    <3> QED
      BY <1>2, <3>1 DEF EarnedKept, OutcomeEarned
  <2> QED
    BY <2>1, <2>2, <2>3
<1> QED
  BY <1>1, <1>3, <1>4, <1>5 DEF EarnedKept

\* A frame of the other kinds says nothing of an operation.
OtherFrame(f) == f.type \notin {"agent_op_status", "agent_op_log"}

LEMMA OtherFrames == ASSUME NEW f, OtherFrame(f) PROVE Quiet(f)
BY DEF OtherFrame, Quiet, FrameOK, Content

\* What a step that has nothing to do with operations puts into the outbox.
Aside ==
    /\ Elsewhere
    /\ UNCHANGED outbox \/ \E frame : Send(frame) /\ OtherFrame(frame)

LEMMA StepsAside ==
    ASSUME ReportsTypeOK,
           \/ Refused \/ Connecting \/ BurnToken \/ Announcing \/ Resyncing \/ Ticking \/ Beating
           \/ Noticing \/ Breaking \/ Reconciling \/ JobStarts \/ UNCHANGED vars
           \/ \E report \in reporting : Queueing(report)
           \/ \E s \in Streams : Streaming(s)
    PROVE  Aside
<1>1. Elsewhere
  BY DEF Elsewhere, Refused, Connecting, BurnToken, Announcing, Resyncing, Ticking, Beating,
         Noticing, Breaking, Reconciling, JobStarts, vars, Queueing, Streaming, ops
<1>2. \A report \in Reports : OtherFrame(report)
  BY DEF OtherFrame, Reports
<1>3. UNCHANGED outbox \/ \E frame : Send(frame) /\ OtherFrame(frame)
  <2>1. CASE Announcing
    <3>1. AgentInfo(version).type = "agent_info"
      BY DEF AgentInfo
    <3> QED
      BY <2>1, <3>1 DEF OtherFrame, Announcing, Identify
  <2>2. CASE Beating
    <3>1. Heartbeat.type = "heartbeat"
      BY DEF Heartbeat
    <3> QED
      BY <2>2, <3>1 DEF OtherFrame, Beating, SendHeartbeat
  <2>3. CASE Resyncing
    BY <1>2, <2>3 DEF Resyncing, SendResync, ReportsTypeOK
  <2>4. ASSUME NEW report \in reporting, Queueing(report)
        PROVE  \E frame : Send(frame) /\ OtherFrame(frame)
    BY <1>2, <2>4 DEF Queueing, QueueReport, ReportsTypeOK
  <2>5. ASSUME NEW s \in Streams, Streaming(s)
        PROVE  UNCHANGED outbox \/ \E frame : Send(frame) /\ OtherFrame(frame)
    <3>1. \A lines : LogChunk(lines).type = "log_chunk"
      BY DEF LogChunk
    <3> QED
      BY <2>5, <3>1 DEF OtherFrame, Streaming, SendLogChunk
  <2>6. CASE Refused \/ Connecting \/ BurnToken \/ Ticking \/ Noticing \/ Breaking
             \/ Reconciling \/ JobStarts \/ UNCHANGED vars
    BY <2>6 DEF Refused, Connecting, BurnToken, Ticking, Noticing, Breaking, Reconciling,
                JobStarts, DialFails, DialSucceeds, DialBurnsToken, HeartbeatDue, ReadFails,
                ConnectionBreaks, vars, connector
  <2> QED
    BY <2>1, <2>2, <2>3, <2>4, <2>5, <2>6
<1> QED
  BY <1>1, <1>3 DEF Aside

\* What a goroutine of a delivery does.
LEMMA OperatingEffect ==
    ASSUME OpsKept, NEW d \in Deliveries, Operating(d) \/ Timeout(d) \/ OperationFails(d)
    PROVE  Works(d) \/ Tells(d) \/ Ships(d)
<1>1. CASE OpSends(d)
  BY <1>1, SendsMove
<1>2. CASE ~OpSends(d)
  <2>1. UNCHANGED outbox
    BY <1>2 DEF Operating, Timeout, OperationFails
  <2>2. \/ OpWorks(d) \/ GiveUp(d)
        \/ ReadLogsFails(d) \/ ProbeUpgradeFails(d) \/ CreateUpgradeJobFails(d)
    BY <1>2 DEF Operating, Timeout, OperationFails
  <2> QED
    BY <2>1, <2>2, WorksMove
<1> QED
  BY <1>1, <1>2

\* The process ends, by a fault or by an upgrade.
LEMMA ProcessEnds ==
    ASSUME Restart \/ Upgrade
    PROVE  exec' = Killed /\ outbox' = << >> /\ UNCHANGED <<execJob, ledger>>
BY DEF Restart, Upgrade, NewProcess, ConnectorRestart, OpsRestart, UpgradeRollsOut

LEMMA StepKeepsEarned == ReportsTypeOK /\ EarnedKept /\ [Next]_vars => EarnedKept'
<1> SUFFICES ASSUME ReportsTypeOK, EarnedKept, [Next]_vars PROVE EarnedKept'
  OBVIOUS
<1>0. OpsKept
  BY DEF EarnedKept
<1>1. CASE Aside
  <2>1. OpsKept' /\ \A op \in Ops : Earned(op) => Earned(op)'
    BY <1>0, <1>1 DEF Aside, Elsewhere, OpsKept, DeliveryOK, Earned
  <2> QED
    BY <1>1, <2>1, EarnedMore, OtherFrames DEF Aside, Elsewhere, Quiet
<1>2. CASE Delivering
  BY <1>2, HearOpKeeps
<1>3. CASE Losing
  <2>1. IsQueue(outbox') /\ Range(outbox) = Range(outbox') \cup {Head(outbox)}
    BY <1>3, TakeFacts DEF EarnedKept, Losing, WriteIsLost
  <2>2. UNCHANGED <<exec, execJob, ledger>>
    BY <1>3 DEF Losing, ops
  <2> QED
    BY <2>1, <2>2 DEF EarnedKept, OpsKept, DeliveryOK, FrameOK, Earned, OutcomeEarned
<1>4. ASSUME NEW d \in Deliveries, Operating(d) \/ Timeout(d) \/ OperationFails(d)
      PROVE  EarnedKept'
  <2>1. Works(d) \/ Tells(d) \/ Ships(d)
    BY <1>0, <1>4, OperatingEffect
  <2>2. Moves(d)
    BY <2>1 DEF Works, Tells, Ships
  <2>3. UNCHANGED outbox \/ \E frame : Send(frame) /\ FrameOK(frame)
    <3>1. exec[d].op \in Ops /\ exec[d].sent \in Nat /\ exec[d].upto \in Nat
      BY <1>0 DEF OpsKept, ExecRecords
    <3>2. FrameOK(OpLog(exec[d].op, exec[d].sent, exec[d].upto))
      BY <3>1, OpLogOK
    <3> QED
      BY <2>1, <3>2 DEF Works, Tells, Ships, Quiet
  <2> QED
    BY <1>0, <2>2, <2>3, MovesEarn, EarnedMore
<1>5. CASE Commanding
  BY <1>0, <1>5, CommandingKeeps, EarnedMore
<1>6. CASE Restart \/ Upgrade
  BY <1>0, <1>6, ProcessEnds, KilledKeeps, EarnedMore
<1> QED
  BY <1>1, <1>2, <1>3, <1>4, <1>5, <1>6, StepsAside DEF Next

(* An operation the Hub takes for succeeded did succeed, for any number of operations,
   commands and faults (OutcomeEarned). *)
THEOREM SuccessesAreEarned == Spec => []OutcomeEarned
<1>1. EarnedKept => OutcomeEarned
  BY DEF EarnedKept
<1> QED
  BY <1>1, InitReports, StepKeepsReportTypes, InitEarned, StepKeepsEarned, PTL DEF Spec
-----------------------------------------------------------------------------
(* The output the Hub has of an operation, and what the outbox holds of it. *)

\* The output o is in order, what is queued in q comes after it, and is in order.
Sorted(q, o, op) ==
    /\ \A i, j \in 1..Len(o) : i < j => o[i] < o[j]
    /\ \A j \in 1..Len(q) : Content(q[j], op) => \A i \in 1..Len(o) : o[i] <= q[j].from
    /\ \A i, j \in 1..Len(q) :
          i < j /\ Content(q[i], op) /\ Content(q[j], op) => q[i].to <= q[j].from

\* All of it is below n.
UpTo(q, o, op, n) ==
    /\ \A j \in 1..Len(q) : Content(q[j], op) => q[j].to <= n
    /\ \A i \in 1..Len(o) : o[i] <= n

Nothing(q, o, op) == Len(o) = 0 /\ \A j \in 1..Len(q) : ~Content(q[j], op)

Numbered(q) ==
    IsQueue(q) /\ \A j \in 1..Len(q) :
                     q[j].type = "agent_op_log" => q[j].from \in Nat /\ q[j].to \in Nat

\* A frame more that has no output of the operation.
LEMMA AppendQuiet ==
    ASSUME NEW q, IsQueue(q), NEW o, NEW op, NEW e, ~Content(e, op)
    PROVE  /\ Sorted(q, o, op) => Sorted(Append(q, e), o, op)
           /\ \A n : UpTo(q, o, op, n) => UpTo(Append(q, e), o, op, n)
           /\ Nothing(q, o, op) => Nothing(Append(q, e), o, op)
<1> DEFINE r == Append(q, e)
<1>1. Len(q) \in Nat /\ Len(r) = Len(q) + 1 /\ (\A i \in 1..Len(q) : r[i] = q[i])
      /\ r[Len(q) + 1] = e
  BY AppendFacts
<1> HIDE DEF r
<1>2. \A j \in 1..Len(r) : Content(r[j], op) => j \in 1..Len(q) /\ r[j] = q[j]
  BY <1>1
<1>3. ASSUME Sorted(q, o, op) PROVE Sorted(r, o, op)
  <2>1. \A j \in 1..Len(r) : Content(r[j], op) => \A i \in 1..Len(o) : o[i] <= r[j].from
    BY <1>2, <1>3 DEF Sorted
  <2>2. ASSUME NEW i \in 1..Len(r), NEW j \in 1..Len(r),
               i < j, Content(r[i], op), Content(r[j], op)
        PROVE  r[i].to <= r[j].from
    <3>1. i \in 1..Len(q) /\ r[i] = q[i] /\ j \in 1..Len(q) /\ r[j] = q[j]
      BY <1>2, <2>2
    <3> QED
      BY <1>3, <2>2, <3>1 DEF Sorted
  <2> QED
    BY <1>3, <2>1, <2>2 DEF Sorted
<1>4. \A n : UpTo(q, o, op, n) => UpTo(r, o, op, n)
  BY <1>1, <1>2 DEF UpTo
<1>5. Nothing(q, o, op) => Nothing(r, o, op)
  BY <1>1, <1>2 DEF Nothing
<1> QED
  BY <1>3, <1>4, <1>5 DEF r

\* A frame more that begins where everything so far ends.
LEMMA AppendContent ==
    ASSUME NEW q, Numbered(q), NEW o \in Seq(Nat), NEW op, NEW e, Content(e, op),
           e.from \in Nat, e.to \in Nat, Sorted(q, o, op), UpTo(q, o, op, e.from)
    PROVE  Sorted(Append(q, e), o, op) /\ UpTo(Append(q, e), o, op, e.to)
<1> DEFINE r == Append(q, e)
<1>1. Len(q) \in Nat /\ Len(r) = Len(q) + 1 /\ (\A i \in 1..Len(q) : r[i] = q[i])
      /\ r[Len(q) + 1] = e
  BY AppendFacts DEF Numbered
<1> HIDE DEF r
<1>2. \A j \in 1..Len(r) : (j \in 1..Len(q) /\ r[j] = q[j]) \/ (j = Len(q) + 1 /\ r[j] = e)
  BY <1>1
<1>3. \A j \in 1..Len(q) : Content(q[j], op) => q[j].to \in Nat /\ q[j].to <= e.from
  BY DEF Content, Numbered, UpTo
<1>4. \A i \in 1..Len(o) : o[i] \in Nat /\ o[i] <= e.from
  BY DEF UpTo
<1>5. e.from < e.to
  BY DEF Content
<1>6. Sorted(r, o, op)
  <2>1. \A j \in 1..Len(r) : Content(r[j], op) => \A i \in 1..Len(o) : o[i] <= r[j].from
    BY <1>2, <1>4 DEF Sorted
  <2>2. ASSUME NEW i \in 1..Len(r), NEW j \in 1..Len(r),
               i < j, Content(r[i], op), Content(r[j], op)
        PROVE  r[i].to <= r[j].from
    <3>1. i \in 1..Len(q) /\ r[i] = q[i]
      BY <1>1, <1>2, <2>2
    <3>2. CASE j \in 1..Len(q) /\ r[j] = q[j]
      BY <2>2, <3>1, <3>2 DEF Sorted
    <3>3. CASE r[j] = e
      BY <1>3, <2>2, <3>1, <3>3
    <3> QED
      BY <1>2, <3>2, <3>3
  <2>3. \A i, j \in 1..Len(o) : i < j => o[i] < o[j]
    BY DEF Sorted
  <2> QED
    BY <2>1, <2>2, <2>3 DEF Sorted
<1>7. UpTo(r, o, op, e.to)
  <2>1. ASSUME NEW j \in 1..Len(r), Content(r[j], op) PROVE r[j].to <= e.to
    <3>1. CASE j \in 1..Len(q) /\ r[j] = q[j]
      <4>1. q[j].to \in Nat /\ q[j].to <= e.from
        BY <1>3, <2>1, <3>1
      <4> QED
        BY <1>5, <3>1, <4>1
    <3>2. CASE r[j] = e
      BY <3>2
    <3> QED
      BY <1>2, <3>1, <3>2
  <2>2. ASSUME NEW i \in 1..Len(o) PROVE o[i] <= e.to
    <3>1. o[i] \in Nat /\ o[i] <= e.from
      BY <1>4
    <3> QED
      BY <1>5, <3>1
  <2> QED
    BY <2>1, <2>2 DEF UpTo
<1> QED
  BY <1>6, <1>7 DEF r

\* The first frame is gone.
LEMMA TailSorted ==
    ASSUME NEW q, IsQueue(q), q # << >>, NEW o, NEW op
    PROVE  /\ Sorted(q, o, op) => Sorted(Tail(q), o, op)
           /\ \A n : UpTo(q, o, op, n) => UpTo(Tail(q), o, op, n)
           /\ Nothing(q, o, op) => Nothing(Tail(q), o, op)
<1> DEFINE r == Tail(q)
<1>1. Len(q) \in Nat \ {0} /\ Len(r) = Len(q) - 1 /\ \A i \in 1..(Len(q) - 1) : r[i] = q[i + 1]
  BY TailFacts
<1> HIDE DEF r
<1>2. \A j \in 1..Len(r) : j + 1 \in 1..Len(q) /\ r[j] = q[j + 1]
  BY <1>1
<1>3. ASSUME Sorted(q, o, op) PROVE Sorted(r, o, op)
  <2>1. \A j \in 1..Len(r) : Content(r[j], op) => \A i \in 1..Len(o) : o[i] <= r[j].from
    BY <1>2, <1>3 DEF Sorted
  <2>2. ASSUME NEW i \in 1..Len(r), NEW j \in 1..Len(r),
               i < j, Content(r[i], op), Content(r[j], op)
        PROVE  r[i].to <= r[j].from
    <3>1. /\ i + 1 \in 1..Len(q) /\ r[i] = q[i + 1] /\ j + 1 \in 1..Len(q) /\ r[j] = q[j + 1]
          /\ i + 1 < j + 1
      BY <1>1, <1>2, <2>2
    <3> QED
      BY <1>3, <2>2, <3>1 DEF Sorted
  <2> QED
    BY <1>3, <2>1, <2>2 DEF Sorted
<1>4. \A n : UpTo(q, o, op, n) => UpTo(r, o, op, n)
  BY <1>2 DEF UpTo
<1>5. Nothing(q, o, op) => Nothing(r, o, op)
  BY <1>2 DEF Nothing
<1> QED
  BY <1>3, <1>4, <1>5 DEF r

\* The output of a frame as a sequence.
Piece(f) == [i \in 1..(f.to - f.from) |-> f.from + i]

LEMMA PieceFacts ==
    ASSUME NEW f, f.from \in Nat, f.to \in Nat
    PROVE  /\ Piece(f) \in Seq(Nat)
           /\ f.from < f.to =>
                 Len(Piece(f)) = f.to - f.from
                 /\ \A i \in 1..(f.to - f.from) : Piece(f)[i] = f.from + i
           /\ ~(f.from < f.to) => Len(Piece(f)) = 0
<1>1. CASE f.from < f.to
  <2>1. f.to - f.from \in Nat
    BY <1>1
  <2>2. \A i \in 1..(f.to - f.from) : f.from + i \in Nat
    BY <2>1
  <2> QED
    BY <1>1, <2>1, <2>2 DEF Piece
<1>2. CASE ~(f.from < f.to)
  <2>1. 1..(f.to - f.from) = {}
    BY <1>2
  <2>2. Piece(f) = << >>
    BY <2>1 DEF Piece
  <2>3. << >> \in Seq(Nat) /\ Len(<< >>) = 0
    OBVIOUS
  <2> QED
    BY <1>2, <2>2, <2>3
<1> QED
  BY <1>1, <1>2

\* The first frame goes to the Hub: its output comes after what is there, before the rest.
LEMMA TailHeard ==
    ASSUME NEW q, Numbered(q), q # << >>, NEW o \in Seq(Nat), NEW op, Content(Head(q), op),
           Sorted(q, o, op)
    PROVE  /\ Sorted(Tail(q), o \o Piece(Head(q)), op)
           /\ \A n : UpTo(q, o, op, n) /\ n \in Nat => UpTo(Tail(q), o \o Piece(Head(q)), op, n)
<1> DEFINE r == Tail(q)
           f == Head(q)
           new == o \o Piece(f)
<1>1. Len(q) \in Nat \ {0} /\ Len(r) = Len(q) - 1 /\ (\A i \in 1..(Len(q) - 1) : r[i] = q[i + 1])
      /\ f = q[1]
  BY TailFacts DEF Numbered
<1>2. Content(f, op) /\ Sorted(q, o, op)
  OBVIOUS
<1> HIDE DEF r, f
<1>3. f.from \in Nat /\ f.to \in Nat /\ f.from < f.to
  BY <1>1, <1>2 DEF Numbered, Content
<1>4. Piece(f) \in Seq(Nat) /\ Len(Piece(f)) = f.to - f.from
      /\ \A i \in 1..(f.to - f.from) : Piece(f)[i] = f.from + i
  BY <1>3, PieceFacts
<1>5. /\ Len(o) \in Nat
      /\ Len(new) = Len(o) + Len(Piece(f))
      /\ \A i \in 1..Len(o) : new[i] = o[i]
      /\ \A i \in 1..Len(Piece(f)) : new[Len(o) + i] = Piece(f)[i]
  <2>1. /\ Len(new) = Len(o) + Len(Piece(f))
        /\ \A i \in 1..(Len(o) + Len(Piece(f))) :
              new[i] = IF i <= Len(o) THEN o[i] ELSE Piece(f)[i - Len(o)]
    BY <1>4, ConcatProperties
  <2>2. Len(o) \in Nat /\ Len(Piece(f)) \in Nat
    BY <1>4, LenProperties
  <2> HIDE DEF new
  <2>3. ASSUME NEW i \in 1..Len(o) PROVE new[i] = o[i]
    <3>1. i \in 1..(Len(o) + Len(Piece(f))) /\ i <= Len(o)
      BY <2>2
    <3> QED
      BY <2>1, <3>1
  <2>4. ASSUME NEW i \in 1..Len(Piece(f)) PROVE new[Len(o) + i] = Piece(f)[i]
    <3>1. /\ Len(o) + i \in 1..(Len(o) + Len(Piece(f))) /\ ~(Len(o) + i <= Len(o))
          /\ (Len(o) + i) - Len(o) = i
      BY <2>2
    <3> QED
      BY <2>1, <3>1
  <2> QED
    BY <2>1, <2>2, <2>3, <2>4
<1> HIDE DEF new
<1>6. ASSUME NEW i \in 1..Len(new)
      PROVE  \/ i \in 1..Len(o) /\ new[i] = o[i] /\ o[i] \in Nat /\ o[i] <= f.from
             \/ i > Len(o) /\ new[i] = f.from + (i - Len(o)) /\ new[i] <= f.to
  <2>1. CASE i \in 1..Len(o)
    BY <1>1, <1>2, <1>5, <2>1 DEF Sorted
  <2>2. CASE i \notin 1..Len(o)
    <3>1. i - Len(o) \in 1..(f.to - f.from) /\ i = Len(o) + (i - Len(o))
      BY <1>3, <1>4, <1>5, <2>2
    <3> DEFINE k == i - Len(o)
    <3>2. new[i] = f.from + k
      <4>1. k \in 1..Len(Piece(f)) /\ i = Len(o) + k
        BY <1>4, <3>1
      <4> HIDE DEF k
      <4> QED
        BY <1>4, <1>5, <4>1
    <3>3. i > Len(o) /\ f.from + k <= f.to
      BY <1>3, <1>5, <3>1
    <3> QED
      BY <3>2, <3>3
  <2> QED
    BY <2>1, <2>2
<1>6a. ASSUME NEW i \in 1..Len(new) PROVE new[i] \in Nat /\ new[i] <= f.to
  <2>1. CASE new[i] = o[i] /\ o[i] \in Nat /\ o[i] <= f.from
    BY <1>3, <2>1
  <2>2. CASE i > Len(o) /\ new[i] = f.from + (i - Len(o)) /\ new[i] <= f.to
    <3>1. i \in Nat /\ i - Len(o) \in Nat
      BY <1>5, <2>2
    <3> QED
      BY <1>3, <2>2, <3>1
  <2> QED
    BY <1>6, <2>1, <2>2
<1>7. \A j \in 1..Len(r) : j + 1 \in 1..Len(q) /\ r[j] = q[j + 1] /\ 1 < j + 1
  BY <1>1
<1>8. \A j \in 1..Len(r) : Content(r[j], op) => r[j].from \in Nat /\ f.to <= r[j].from
  <2>1. 1 \in 1..Len(q) /\ Content(q[1], op) /\ f = q[1]
    BY <1>1, <1>2
  <2>2. \A j \in 1..Len(r) : Content(r[j], op) => f.to <= r[j].from
    BY <1>2, <1>7, <2>1 DEF Sorted
  <2>3. \A j \in 1..Len(r) : Content(r[j], op) => r[j].from \in Nat
    BY <1>7 DEF Numbered, Content
  <2> QED
    BY <2>2, <2>3
<1>9. Sorted(r, new, op)
  <2>1. \A i, j \in 1..Len(new) : i < j => new[i] < new[j]
    <3>1. SUFFICES ASSUME NEW i \in 1..Len(new), NEW j \in 1..Len(new), i < j
                   PROVE  new[i] < new[j]
      OBVIOUS
    <3>2. i \in Nat /\ j \in Nat
      BY <1>4, <1>5
    <3>3. CASE j \in 1..Len(o)
      BY <1>2, <1>5, <3>1, <3>2, <3>3 DEF Sorted
    <3>4. CASE j \notin 1..Len(o) /\ i \in 1..Len(o)
      <4>1. new[i] \in Nat /\ new[i] <= f.from
        BY <1>6, <3>4
      <4>2. j > Len(o) /\ new[j] = f.from + (j - Len(o))
        BY <1>6, <3>4
      <4> QED
        BY <1>3, <1>5, <3>2, <4>1, <4>2
    <3>5. CASE j \notin 1..Len(o) /\ i \notin 1..Len(o)
      <4>1. /\ i > Len(o) /\ new[i] = f.from + (i - Len(o))
            /\ j > Len(o) /\ new[j] = f.from + (j - Len(o))
        BY <1>6, <3>5
      <4> QED
        BY <1>3, <1>5, <3>1, <3>2, <4>1
    <3> QED
      BY <3>3, <3>4, <3>5
  <2>2. \A j \in 1..Len(r) : Content(r[j], op) => \A i \in 1..Len(new) : new[i] <= r[j].from
    <3>1. SUFFICES ASSUME NEW j \in 1..Len(r), Content(r[j], op), NEW i \in 1..Len(new)
                   PROVE  new[i] <= r[j].from
      OBVIOUS
    <3>2. r[j].from \in Nat /\ f.to <= r[j].from
      BY <1>8, <3>1
    <3> QED
      BY <1>3, <1>6a, <3>2
  <2>3. \A i, j \in 1..Len(r) :
           i < j /\ Content(r[i], op) /\ Content(r[j], op) => r[i].to <= r[j].from
    <3>1. SUFFICES ASSUME NEW i \in 1..Len(r), NEW j \in 1..Len(r),
                          i < j, Content(r[i], op), Content(r[j], op)
                   PROVE  r[i].to <= r[j].from
      OBVIOUS
    <3>2. /\ i + 1 \in 1..Len(q) /\ r[i] = q[i + 1] /\ j + 1 \in 1..Len(q) /\ r[j] = q[j + 1]
          /\ i + 1 < j + 1
      BY <1>1, <1>7, <3>1
    <3> QED
      BY <1>2, <3>1, <3>2 DEF Sorted
  <2> QED
    BY <2>1, <2>2, <2>3 DEF Sorted
<1>10. ASSUME NEW n, UpTo(q, o, op, n), n \in Nat
       PROVE  UpTo(r, new, op, n)
  <2>1. f.to <= n
    BY <1>1, <1>2, <1>10 DEF UpTo
  <2>2. ASSUME NEW i \in 1..Len(new) PROVE new[i] <= n
    <3>1. new[i] \in Nat /\ new[i] <= f.to
      BY <1>6a
    <3> QED
      BY <1>3, <1>10, <2>1, <3>1
  <2>3. \A j \in 1..Len(r) : Content(r[j], op) => r[j].to <= n
    BY <1>7, <1>10 DEF UpTo
  <2> QED
    BY <2>2, <2>3 DEF UpTo
<1> QED
  BY <1>9, <1>10 DEF r, f, new

\* What keeps LedgerInOrder: of an operation commanded once, the ledger and the outbox are in
\* order, below the offset of the goroutine, and empty before it has created its Job.
OrderKept(op) ==
    DeliveredOnce(op) =>
       /\ Sorted(outbox, ledger[op].output, op)
       /\ \A d \in Deliveries :
             exec[d].op = op /\ exec[d].step \in Watching =>
                UpTo(outbox, ledger[op].output, op, exec[d].sent)
       /\ (\A d \in Deliveries : exec[d].op = op => exec[d].step \in {"none", "started", "create"}) =>
             Nothing(outbox, ledger[op].output, op)

LEMMA OutboxNumbered == EarnedKept => Numbered(outbox)
<1> SUFFICES ASSUME EarnedKept PROVE Numbered(outbox)
  OBVIOUS
<1>1. \A j \in 1..Len(outbox) : outbox[j] \in Range(outbox)
  <2>1. PICK S : outbox \in Seq(S)
    BY DEF EarnedKept, IsQueue
  <2>2. DOMAIN outbox = 1..Len(outbox)
    BY <2>1
  <2> QED
    BY <2>2 DEF Range
<1> QED
  BY <1>1 DEF EarnedKept, Numbered, FrameOK

LEMMA LedgerTypes == ASSUME EarnedKept, NEW op \in Ops PROVE ledger[op].output \in Seq(Nat)
BY DEF EarnedKept, LedgerRecords

\* The goroutines move so that what OrderKept says of their offsets is as true as before.
Settled(op) ==
    /\ DeliveredOnce(op)' => DeliveredOnce(op)
    /\ DeliveredOnce(op) =>
         \A d \in Deliveries :
            exec'[d].op = op /\ exec'[d].step \in Watching =>
               \/ exec[d].op = op /\ exec[d].step \in Watching /\ exec'[d].sent = exec[d].sent
               \/ \A e \in Deliveries :
                     exec[e].op = op => exec[e].step \in {"none", "started", "create"}
    /\ (\A d \in Deliveries : exec'[d].op = op => exec'[d].step \in {"none", "started", "create"}) =>
          \A d \in Deliveries : exec[d].op = op => exec[d].step \in {"none", "started", "create"}

\* An operation of which there is nothing is below every offset.
LEMMA NothingUpTo ==
    ASSUME NEW q, NEW o, NEW op, Nothing(q, o, op), NEW n PROVE UpTo(q, o, op, n)
BY DEF Nothing, UpTo

\* No output is queued or heard.
LEMMA OrderKeptQuietly ==
    ASSUME NEW op \in Ops, EarnedKept, OrderKept(op), Settled(op),
           ledger'[op].output = ledger[op].output,
           \/ UNCHANGED outbox
           \/ \E frame : Send(frame) /\ ~Content(frame, op)
           \/ outbox # << >> /\ outbox' = Tail(outbox)
    PROVE  OrderKept(op)'
<1> DEFINE o == ledger[op].output
<1>1. o' = o /\ IsQueue(outbox)
  BY DEF EarnedKept
<1> HIDE DEF o
<1>2. /\ Sorted(outbox, o, op) => Sorted(outbox', o, op)
      /\ \A n : UpTo(outbox, o, op, n) => UpTo(outbox', o, op, n)
      /\ Nothing(outbox, o, op) => Nothing(outbox', o, op)
  <2>1. CASE UNCHANGED outbox
    BY <2>1
  <2>2. ASSUME NEW frame, Send(frame), ~Content(frame, op)
        PROVE  /\ Sorted(outbox, o, op) => Sorted(outbox', o, op)
               /\ \A n : UpTo(outbox, o, op, n) => UpTo(outbox', o, op, n)
               /\ Nothing(outbox, o, op) => Nothing(outbox', o, op)
    BY <1>1, <2>2, AppendQuiet DEF Send
  <2>3. CASE outbox # << >> /\ outbox' = Tail(outbox)
    BY <1>1, <2>3, TailSorted
  <2> QED
    BY <2>1, <2>2, <2>3
<1>3. SUFFICES ASSUME DeliveredOnce(op)' PROVE
       /\ Sorted(outbox', o, op)
       /\ \A d \in Deliveries :
             exec'[d].op = op /\ exec'[d].step \in Watching => UpTo(outbox', o, op, exec'[d].sent)
       /\ (\A d \in Deliveries : exec'[d].op = op => exec'[d].step \in {"none", "started", "create"})
            => Nothing(outbox', o, op)
  BY <1>1 DEF OrderKept, Watching, o
<1>4. DeliveredOnce(op)
  BY <1>3 DEF Settled
<1>5. /\ Sorted(outbox, o, op)
      /\ \A d \in Deliveries :
            exec[d].op = op /\ exec[d].step \in Watching => UpTo(outbox, o, op, exec[d].sent)
      /\ (\A d \in Deliveries : exec[d].op = op => exec[d].step \in {"none", "started", "create"})
           => Nothing(outbox, o, op)
  BY <1>4 DEF OrderKept, o
<1>6. ASSUME NEW d \in Deliveries, exec'[d].op = op, exec'[d].step \in Watching
      PROVE  UpTo(outbox', o, op, exec'[d].sent)
  <2>1. CASE exec[d].op = op /\ exec[d].step \in Watching /\ exec'[d].sent = exec[d].sent
    BY <1>2, <1>5, <2>1
  <2>2. CASE \A e \in Deliveries :
                exec[e].op = op => exec[e].step \in {"none", "started", "create"}
    BY <1>2, <1>5, <2>2, NothingUpTo
  <2> QED
    BY <1>4, <1>6, <2>1, <2>2 DEF Settled
<1>7. ASSUME \A d \in Deliveries :
                exec'[d].op = op => exec'[d].step \in {"none", "started", "create"}
      PROVE  Nothing(outbox', o, op)
  <2>1. \A d \in Deliveries : exec[d].op = op => exec[d].step \in {"none", "started", "create"}
    BY <1>7 DEF Settled
  <2> QED
    BY <1>2, <1>5, <2>1
<1> QED
  BY <1>2, <1>5, <1>6, <1>7

LEMMA ElsewhereSettled ==
    ASSUME NEW op \in Ops, UNCHANGED exec PROVE Settled(op)
BY DEF Settled, DeliveredOnce

\* The goroutine of one delivery moves.
LEMMA MovesSettled ==
    ASSUME NEW op \in Ops, NEW d \in Deliveries, Moves(d),
           exec[d].op = op /\ exec'[d].step \in Watching =>
              exec[d].step = "create" \/ (exec[d].step \in Watching /\ exec'[d].sent = exec[d].sent)
    PROVE  Settled(op)
<1>1. /\ \A e \in Deliveries : e # d => exec'[e] = exec[e]
      /\ exec[d].step # "none" /\ exec'[d].step # "none"
      /\ exec'[d].op = exec[d].op
      /\ exec'[d].step \in {"started", "create"} => exec[d].step \in {"started", "create"}
  BY DEF Moves
<1>2. DeliveredOnce(op)' => DeliveredOnce(op)
  <2>1. \A e \in Deliveries : /\ exec'[e].op = exec[e].op
                              /\ exec'[e].step = "none" <=> exec[e].step = "none"
    BY <1>1
  <2> QED
    BY <2>1 DEF DeliveredOnce
<1>3. ASSUME DeliveredOnce(op), NEW e \in Deliveries, exec'[e].op = op, exec'[e].step \in Watching
      PROVE  \/ exec[e].op = op /\ exec[e].step \in Watching /\ exec'[e].sent = exec[e].sent
             \/ \A f \in Deliveries :
                   exec[f].op = op => exec[f].step \in {"none", "started", "create"}
  <2>1. CASE e # d
    BY <1>1, <1>3, <2>1
  <2>2. CASE e = d /\ exec[d].step = "create"
    BY <1>1, <1>3, <2>2 DEF DeliveredOnce
  <2> QED
    BY <1>1, <1>3, <2>1, <2>2
<1>4. ASSUME \A e \in Deliveries :
                exec'[e].op = op => exec'[e].step \in {"none", "started", "create"}
      PROVE  \A e \in Deliveries : exec[e].op = op => exec[e].step \in {"none", "started", "create"}
  BY <1>1, <1>4
<1> QED
  BY <1>2, <1>3, <1>4 DEF Settled

LEMMA DeliverSettled ==
    ASSUME OpsKept, NEW op \in Ops, NEW d \in Deliveries, NEW o \in Ops, Deliver(d, o)
    PROVE  Settled(op)
<1>1. exec[d].step = "none"
  <2>1. d \in Nat
    BY DEF Deliveries
  <2> QED
    BY <2>1 DEF Deliver
<1>2. /\ exec'[d].step = "started" /\ exec'[d].op = o
      /\ \A e \in Deliveries : e # d => exec'[e] = exec[e]
  <2>1. exec' = [exec EXCEPT ![d] = [exec[d] EXCEPT !.op = o, !.step = "started"]]
    BY DEF Deliver
  <2>2. exec[d] \in ExecRecords
    BY DEF OpsKept
  <2>3. /\ [exec[d] EXCEPT !.op = o, !.step = "started"].step = "started"
        /\ [exec[d] EXCEPT !.op = o, !.step = "started"].op = o
    BY <2>2 DEF ExecRecords
  <2> QED
    BY <2>1, <2>3 DEF OpsKept
<1>3. DeliveredOnce(op)' => DeliveredOnce(op)
  BY <1>1, <1>2 DEF DeliveredOnce
<1>4. \A e \in Deliveries : exec'[e].step \in Watching => exec'[e] = exec[e]
  BY <1>2 DEF Watching
<1>5. ASSUME \A e \in Deliveries :
                exec'[e].op = op => exec'[e].step \in {"none", "started", "create"}
      PROVE  \A e \in Deliveries : exec[e].op = op => exec[e].step \in {"none", "started", "create"}
  BY <1>1, <1>2, <1>5
<1> QED
  BY <1>3, <1>4, <1>5 DEF Settled

LEMMA KilledSettled ==
    ASSUME OpsKept, NEW op \in Ops, exec' = Killed, UNCHANGED <<execJob, ledger>>
    PROVE  Settled(op)
<1>1. \A d \in Deliveries : /\ exec'[d].op = exec[d].op
                            /\ exec[d].step = "none" => exec'[d] = exec[d]
                            /\ exec[d].step # "none" => exec'[d].step = "done"
  BY KilledKeeps
<1> QED
  BY <1>1 DEF Settled, DeliveredOnce, Watching

\* The output that was read is queued: it begins at the offset.
LEMMA ShipsKeepsOrder ==
    ASSUME NEW op \in Ops, EarnedKept, OrderKept(op), NEW d \in Deliveries, Ships(d)
    PROVE  OrderKept(op)'
<1> DEFINE frame == OpLog(exec[d].op, exec[d].sent, exec[d].upto)
           o == ledger[op].output
<1>1. /\ Moves(d) /\ exec[d].step = "ship" /\ Send(frame) /\ ledger' = ledger
      /\ exec'[d].step \in Watching => exec'[d].sent = exec[d].upto
  BY DEF Ships, Moves
<1>2. CASE exec[d].op # op
  <2>1. ~Content(frame, op)
    BY <1>2 DEF Content, OpLog
  <2>2. Settled(op)
    BY <1>1, <1>2, MovesSettled
  <2> QED
    BY <1>1, <2>1, <2>2, OrderKeptQuietly
<1>3. CASE exec[d].op = op
  <2>1. /\ exec[d].sent \in Nat /\ exec[d].upto \in Nat /\ exec[d].sent < exec[d].upto
    BY <1>1 DEF EarnedKept, OpsKept, ExecRecords, DeliveryOK
  <2>2. /\ Content(frame, op) /\ frame.from = exec[d].sent /\ frame.to = exec[d].upto
    BY <1>3, <2>1 DEF Content, OpLog
  <2>3. Numbered(outbox) /\ o \in Seq(Nat)
    BY OutboxNumbered, LedgerTypes
  <2>4. SUFFICES ASSUME DeliveredOnce(op)' PROVE OrderKept(op)'
    BY DEF OrderKept
  <2>5. /\ \A e \in Deliveries : e # d => exec'[e] = exec[e]
        /\ exec'[d].op = op /\ exec'[d].step \notin {"none", "started", "create"}
    BY <1>1, <1>3 DEF Moves
  <2>6. \A e \in Deliveries : exec'[e].op = op /\ exec'[e].step # "none" => e = d
    BY <2>4, <2>5 DEF DeliveredOnce
  <2>7. DeliveredOnce(op)
    BY <1>1, <1>3, <2>5, <2>6 DEF DeliveredOnce
  <2>8. Sorted(outbox, o, op) /\ UpTo(outbox, o, op, exec[d].sent)
    BY <1>1, <1>3, <2>7 DEF OrderKept, Watching
  <2> HIDE DEF frame, o
  <2>9. Sorted(outbox', o, op) /\ UpTo(outbox', o, op, exec[d].upto)
    <3>1. outbox' = Append(outbox, frame)
      BY <1>1 DEF Send
    <3> QED
      BY <2>1, <2>2, <2>3, <2>8, <3>1, AppendContent
  <2>10. \A e \in Deliveries :
            exec'[e].op = op /\ exec'[e].step \in Watching => UpTo(outbox', o, op, exec'[e].sent)
    <3>1. \A e \in Deliveries : exec'[e].op = op /\ exec'[e].step \in Watching => e = d
      BY <2>6 DEF Watching
    <3> QED
      BY <1>1, <2>9, <3>1
  <2> QED
    BY <1>1, <2>5, <2>9, <2>10 DEF OrderKept, Watching, o
<1> QED
  BY <1>2, <1>3

\* What a frame the Hub takes adds to the ledger of an operation.
LEMMA LedgerHears ==
    ASSUME NEW op \in Ops, EarnedKept, Delivering
    PROVE  LET frame == Head(outbox) IN
           /\ ~Content(frame, op) => ledger'[op].output = ledger[op].output
           /\ Content(frame, op) => ledger'[op].output = ledger[op].output \o Piece(frame)
           /\ ledger'[op].status = "succeeded" =>
                 \/ ledger[op].status = "succeeded"
                 \/ frame.type = "agent_op_status" /\ frame.op = op /\ frame.status = "succeeded"
<1> DEFINE frame == Head(outbox)
           o == ledger[op].output
<1>1. outbox # << >> /\ HearOp(frame)
  BY DEF Delivering, WriteArrives, TakeFrame
<1>2. IsQueue(outbox) /\ o \in Seq(Nat)
  BY LedgerTypes DEF EarnedKept
<1>3. FrameOK(frame)
  <2>1. frame \in Range(outbox)
    BY <1>1, <1>2, TailFacts
  <2> QED
    BY <2>1 DEF EarnedKept
<1>4. ledger \in [Ops -> LedgerRecords]
  BY DEF EarnedKept
<1> HIDE DEF frame
<1> SUFFICES /\ ~Content(frame, op) => ledger'[op].output = o
             /\ Content(frame, op) => ledger'[op].output = o \o Piece(frame)
             /\ ledger'[op].status = "succeeded" =>
                   \/ ledger[op].status = "succeeded"
                   \/ frame.type = "agent_op_status" /\ frame.op = op /\ frame.status = "succeeded"
  BY DEF frame
<1>5. CASE frame.type = "agent_op_log"
  <2>1. frame.op \in Ops /\ frame.from \in Nat /\ frame.to \in Nat
    BY <1>3, <1>5 DEF FrameOK
  <2>2. ledger' = [ledger EXCEPT ![frame.op].output = @ \o Piece(frame)]
    BY <1>1, <1>5 DEF HearOp, Piece
  <2>3. \A entry \in LedgerRecords : \A output :
           /\ [entry EXCEPT !.output = output].output = output
           /\ [entry EXCEPT !.output = output].status = entry.status
    BY DEF LedgerRecords
  <2>4. /\ frame.op = op => ledger'[op].output = o \o Piece(frame)
        /\ frame.op # op => ledger'[op].output = o
        /\ ledger'[op].status = ledger[op].status
    <3> DEFINE new == ledger[frame.op].output \o Piece(frame)
    <3>1. ledger[frame.op] \in LedgerRecords
      BY <1>4, <2>1
    <3>2. ledger' = [ledger EXCEPT ![frame.op] = [ledger[frame.op] EXCEPT !.output = new]]
      BY <2>2
    <3> HIDE DEF new
    <3>3. /\ [ledger[frame.op] EXCEPT !.output = new].output = new
          /\ [ledger[frame.op] EXCEPT !.output = new].status = ledger[frame.op].status
      BY <2>3, <3>1
    <3>4. ledger'[frame.op].output = new /\ ledger'[frame.op].status = ledger[frame.op].status
      BY <1>4, <2>1, <3>2, <3>3
    <3>5. frame.op # op => ledger'[op] = ledger[op]
      BY <1>4, <3>2
    <3> QED
      BY <3>4, <3>5 DEF new
  <2>5. ~(frame.from < frame.to) => o \o Piece(frame) = o
    <3>1. ASSUME ~(frame.from < frame.to) PROVE Piece(frame) = << >>
      <4>1. Piece(frame) \in Seq(Nat) /\ Len(Piece(frame)) = 0
        BY <2>1, <3>1, PieceFacts
      <4> QED
        BY <4>1, EmptySeq
    <3> QED
      BY <1>2, <3>1, ConcatEmptySeq
  <2> QED
    BY <1>5, <2>1, <2>4, <2>5 DEF Content
<1>6. CASE frame.type = "agent_op_status"
  <2>1. ~Content(frame, op)
    BY <1>6 DEF Content
  <2>2. PICK status \in {frame.status, ledger[frame.op].status} :
           ledger' = [ledger EXCEPT ![frame.op].status = status]
    BY <1>1, <1>6 DEF HearOp
  <2>3. \A entry \in LedgerRecords :
           /\ [entry EXCEPT !.status = status].output = entry.output
           /\ [entry EXCEPT !.status = status].status = status
    BY DEF LedgerRecords
  <2>4. frame.op \in Ops
    BY <1>3, <1>6 DEF FrameOK
  <2>5. /\ ledger'[frame.op].output = ledger[frame.op].output
        /\ ledger'[frame.op].status = status
        /\ op # frame.op => ledger'[op] = ledger[op]
    BY <1>4, <2>2, <2>3, <2>4
  <2> QED
    BY <1>6, <2>1, <2>2, <2>5
<1>7. CASE frame.type \notin {"agent_op_log", "agent_op_status"}
  BY <1>1, <1>7 DEF HearOp, Content
<1> QED
  BY <1>5, <1>6, <1>7

\* The Hub takes a frame.
LEMMA HearKeepsOrder ==
    ASSUME NEW op \in Ops, EarnedKept, OrderKept(op), Delivering
    PROVE  OrderKept(op)'
<1> DEFINE frame == Head(outbox)
           o == ledger[op].output
<1>1. /\ outbox # << >> /\ outbox' = Tail(outbox)
      /\ UNCHANGED exec /\ HearOp(frame)
  BY DEF Delivering, WriteArrives, TakeFrame, HearOp
<1>2. Numbered(outbox) /\ IsQueue(outbox) /\ o \in Seq(Nat)
  BY OutboxNumbered, LedgerTypes DEF EarnedKept
<1>3. FrameOK(frame) /\ frame = outbox[1] /\ 1 \in 1..Len(outbox)
  BY <1>1, <1>2, TailFacts DEF EarnedKept
<1>4. frame = Head(outbox)
  OBVIOUS
<1> HIDE DEF frame
<1>5. /\ ~Content(frame, op) => ledger'[op].output = o
      /\ Content(frame, op) => ledger'[op].output = o \o Piece(frame)
  BY <1>4, LedgerHears
<1>6. CASE ~Content(frame, op)
  BY <1>1, <1>5, <1>6, ElsewhereSettled, OrderKeptQuietly
<1>7. CASE Content(frame, op)
  <2>1. SUFFICES ASSUME DeliveredOnce(op)' PROVE OrderKept(op)'
    BY DEF OrderKept
  <2>2. DeliveredOnce(op)
    BY <1>1, <2>1 DEF DeliveredOnce
  <2>3. Sorted(outbox, o, op)
    BY <2>2 DEF OrderKept
  <2>4. /\ Sorted(outbox', o \o Piece(frame), op)
        /\ \A n : UpTo(outbox, o, op, n) /\ n \in Nat => UpTo(outbox', o \o Piece(frame), op, n)
    <3> HIDE DEF o
    <3> QED
      BY <1>1, <1>2, <1>7, <2>3, TailHeard DEF frame
  <2>5. \A d \in Deliveries :
           exec[d].op = op /\ exec[d].step \in Watching =>
              UpTo(outbox', o \o Piece(frame), op, exec[d].sent)
    <3>1. \A d \in Deliveries : exec[d].sent \in Nat
      BY DEF EarnedKept, OpsKept, ExecRecords
    <3> QED
      BY <2>2, <2>4, <3>1 DEF OrderKept
  <2>6. ~Nothing(outbox, o, op)
    BY <1>3, <1>7 DEF Nothing
  <2>7. ~\A d \in Deliveries : exec[d].op = op => exec[d].step \in {"none", "started", "create"}
    BY <2>2, <2>6 DEF OrderKept
  <2> QED
    BY <1>1, <1>5, <1>7, <2>4, <2>5, <2>7 DEF OrderKept, Watching
<1> QED
  BY <1>6, <1>7

\* The outbox is emptied with the process.
LEMMA EndKeepsOrder ==
    ASSUME NEW op \in Ops, EarnedKept, OrderKept(op), Restart \/ Upgrade
    PROVE  OrderKept(op)'
<1>1. exec' = Killed /\ outbox' = << >> /\ UNCHANGED <<execJob, ledger>>
  BY ProcessEnds
<1>2. OpsKept
  BY DEF EarnedKept
<1>3. Settled(op)
  BY <1>1, <1>2, KilledSettled
<1>4. \A d \in Deliveries : exec'[d].step \notin Watching
  BY <1>1, <1>2, KilledKeeps DEF Watching
<1> DEFINE o == ledger[op].output
<1>5. /\ Sorted(outbox, o, op) => Sorted(<< >>, o, op)
      /\ Nothing(outbox, o, op) => Nothing(<< >>, o, op)
  <2> HIDE DEF o
  <2>1. Len(<< >>) = 0
    OBVIOUS
  <2> QED
    BY <2>1 DEF Sorted, Nothing
<1>6. SUFFICES ASSUME DeliveredOnce(op)' PROVE OrderKept(op)'
  BY DEF OrderKept
<1>7. DeliveredOnce(op)
  BY <1>3, <1>6 DEF Settled
<1>8. Sorted(<< >>, o, op)
  BY <1>5, <1>7 DEF OrderKept
<1>9. ASSUME \A d \in Deliveries :
                exec'[d].op = op => exec'[d].step \in {"none", "started", "create"}
      PROVE  Nothing(<< >>, o, op)
  BY <1>3, <1>5, <1>7, <1>9 DEF Settled, OrderKept
<1> QED
  BY <1>1, <1>4, <1>8, <1>9 DEF OrderKept, Watching

LEMMA InitOrder == ASSUME Init, NEW op \in Ops PROVE OrderKept(op)
<1>1. outbox = << >> /\ ledger[op].output = << >>
  BY DEF Init, ConnectorInit, OpsInit
<1>2. \A d \in Deliveries : exec[d].step = "none"
  BY DEF Init, OpsInit, Execution
<1>3. Len(<< >>) = 0
  OBVIOUS
<1>4. Sorted(<< >>, << >>, op) /\ Nothing(<< >>, << >>, op)
  BY <1>3 DEF Sorted, Nothing
<1> QED
  BY <1>1, <1>2, <1>4 DEF OrderKept, Watching

LEMMA StepKeepsOrder ==
    ASSUME ReportsTypeOK, EarnedKept, NEW op \in Ops, OrderKept(op), [Next]_vars
    PROVE  OrderKept(op)'
<1>0. OpsKept
  BY DEF EarnedKept
<1>1. CASE Aside
  BY <1>1, ElsewhereSettled, OrderKeptQuietly, OtherFrames DEF Aside, Elsewhere, Quiet
<1>2. CASE Delivering
  BY <1>2, HearKeepsOrder
<1>3. CASE Losing
  <2>1. UNCHANGED <<exec, ledger>> /\ outbox # << >> /\ outbox' = Tail(outbox)
    BY <1>3 DEF Losing, WriteIsLost, TakeFrame, ops
  <2> QED
    BY <2>1, ElsewhereSettled, OrderKeptQuietly
<1>4. ASSUME NEW d \in Deliveries, Operating(d) \/ Timeout(d) \/ OperationFails(d)
      PROVE  OrderKept(op)'
  <2>1. CASE Ships(d)
    BY <2>1, ShipsKeepsOrder
  <2>2. CASE Works(d) \/ Tells(d)
    <3>1. Settled(op)
      BY <2>2, MovesSettled DEF Works, Tells
    <3> QED
      BY <2>2, <3>1, OrderKeptQuietly DEF Works, Tells, Moves, Quiet
  <2> QED
    BY <1>0, <1>4, <2>1, <2>2, OperatingEffect
<1>5. CASE Commanding
  <2>1. UNCHANGED <<outbox, ledger>>
    BY <1>0, <1>5, CommandingKeeps
  <2>2. UNCHANGED exec \/ \E d \in Deliveries, o \in Ops : Deliver(d, o)
    BY <1>5 DEF Commanding, ExecJobRuns, UpgradeJobFails, ReapUpgradeJob
  <2>3. Settled(op)
    BY <1>0, <2>2, ElsewhereSettled, DeliverSettled
  <2> QED
    BY <2>1, <2>3, OrderKeptQuietly
<1>6. CASE Restart \/ Upgrade
  BY <1>6, EndKeepsOrder
<1> QED
  BY <1>1, <1>2, <1>3, <1>4, <1>5, <1>6, StepsAside DEF Next

\* All that LedgerInOrder rests on.
LedgerKept == ReportsTypeOK /\ EarnedKept /\ \A op \in Ops : OrderKept(op)

(* The output the Hub has of an operation it commanded once is in order and has nothing
   twice, whatever is lost, for any number of operations, commands, lines and faults
   (LedgerInOrder). *)
THEOREM OutputInOrder == Spec => []LedgerInOrder
<1>1. Init => LedgerKept
  BY InitReports, InitEarned, InitOrder DEF LedgerKept
<1>2. LedgerKept /\ [Next]_vars => LedgerKept'
  <2> SUFFICES ASSUME LedgerKept, [Next]_vars PROVE LedgerKept'
    OBVIOUS
  <2>1. \A op \in Ops : OrderKept(op)'
    BY StepKeepsOrder DEF LedgerKept
  <2> QED
    BY <2>1, StepKeepsReportTypes, StepKeepsEarned DEF LedgerKept
<1>3. LedgerKept => LedgerInOrder
  BY DEF LedgerKept, OrderKept, Sorted, LedgerInOrder
<1> QED
  BY <1>1, <1>2, <1>3, PTL DEF Spec
=============================================================================
