--------------------------- MODULE StatusReports ---------------------------
(***************************************************************************)
(* What the Hub is told of a PipelineRun.  Every status update starts a    *)
(* goroutine that queues a report of it (reportStatus); after every dial   *)
(* the hook reports the runs that are not over, as the cache has them      *)
(* (ResyncAll).  The reconcilers are module Runner; here a status is a     *)
(* number, and whether the run is over.                                    *)
(***************************************************************************)
EXTENDS Connector

CONSTANT MaxUpdates   \* bound: status updates of the run

ASSUME ReportsAssumption == MaxUpdates \in Nat

VARIABLES
    manager,     \* off: no hook registered; wired: registered, its cache not started
    run,         \* the status on the API server
    runCache,
    reporting,   \* reports whose goroutine has not queued them
    resyncing,   \* the report the hook is about to send
    heard,       \* the reports the Hub received
    last,        \* the last of them
    lost         \* reports that were dropped

reports == <<manager, run, runCache, reporting, resyncing, heard, last, lost>>

\* failed: over, but a rerun may bring it back.
RunPhases == {"live", "failed", "over"}

Reports == [type : {"status_update"}, update : 0..MaxUpdates, phase : RunPhases]
NoReport == [type |-> "status_update", update |-> 0, phase |-> "live"]

ReportsTypeOK ==
    /\ manager \in {"off", "wired", "running"}
    /\ run \in Reports
    /\ runCache \in Reports
    /\ reporting \subseteq Reports
    /\ resyncing \in Reports
    /\ heard \subseteq Reports
    /\ last \in Reports
    /\ lost \subseteq Reports

ReportsInit ==
    /\ manager = "off"
    /\ run = NoReport
    /\ runCache = NoReport
    /\ reporting = {}
    /\ resyncing = NoReport
    /\ heard = {}
    /\ last = NoReport
    /\ lost = {}

\* startManager registers the hook, then starts the cache and the controllers (bound: when
\* there will be something to report).
StartManager ==
    /\ manager \in {"off", "wired"}
    /\ MaxUpdates > 0
    /\ manager' = IF manager = "off" THEN "wired" ELSE "running"
    /\ runCache' = IF manager = "wired" THEN run ELSE runCache
    /\ UNCHANGED <<run, reporting, resyncing, heard, last, lost>>

\* A reconcile of a run that is not over writes its status and starts the report.
UpdateStatus(phase) ==
    /\ manager = "running"
    /\ run.phase = "live"
    /\ run.update < MaxUpdates
    /\ run' = [run EXCEPT !.update = @ + 1, !.phase = phase]
    /\ reporting' = reporting \cup {run'}
    /\ UNCHANGED <<manager, runCache, resyncing, heard, last, lost>>

\* The rerun handler revives a failed run, and reports nothing.
Revive ==
    /\ manager = "running"
    /\ run.phase = "failed"
    /\ run.update < MaxUpdates
    /\ run' = [run EXCEPT !.phase = "live"]
    /\ UNCHANGED <<manager, runCache, reporting, resyncing, heard, last, lost>>

SyncRun ==
    /\ manager = "running"
    /\ runCache # run
    /\ runCache' = run
    /\ UNCHANGED <<manager, run, reporting, resyncing, heard, last, lost>>

\* Nothing is queued while there is no connection.
MutQueueReport(report) ==
    /\ report \in reporting
    /\ IF alive THEN Send(report) ELSE UNCHANGED outbox
    /\ reporting' = reporting \ {report}
    /\ UNCHANGED <<manager, run, runCache, resyncing, heard, last, lost>>

\* The goroutines get to the outbox in any order.
QueueReport(report) ==
    /\ report \in reporting
    /\ Send(report)
    /\ reporting' = reporting \ {report}
    /\ UNCHANGED <<manager, run, runCache, resyncing, heard, last, lost>>
-----------------------------------------------------------------------------
\* The hook is there, the list succeeds, and shows the run as not over.
Resyncs == manager = "running" /\ runCache.phase = "live"

BeginResync ==
    /\ link = "hook"
    /\ Resyncs
    /\ link' = "resync"
    /\ resyncing' = runCache
    /\ UNCHANGED <<manager, run, runCache, reporting, heard, last, lost>>

\* The hook waits for the manager.
MutSkipResync ==
    /\ link = "hook"
    /\ ~Resyncs
    /\ manager = "running"
    /\ link' = "serve"
    /\ UNCHANGED reports

SkipResync ==
    /\ link = "hook"
    /\ ~Resyncs
    /\ link' = "serve"
    /\ UNCHANGED reports

SendResync ==
    /\ link = "resync"
    /\ Send(resyncing)
    /\ link' = "serve"
    /\ resyncing' = NoReport
    /\ UNCHANGED <<manager, run, runCache, reporting, heard, last, lost>>

\* The Hub takes a report as it comes.
HearReport(frame) ==
    IF frame \in Reports
    THEN heard' = heard \cup {frame} /\ last' = frame
    ELSE UNCHANGED <<heard, last>>

\* Frames that will never be read.
LoseReports(frames) == lost' = lost \cup (frames \cap Reports)

\* The objects and the Hub stay, the rest of the process is new.
ReportsRestart ==
    /\ manager' = "off"
    /\ runCache' = NoReport
    /\ reporting' = {}
    /\ resyncing' = NoReport
    /\ UNCHANGED <<run, heard, last>>
=============================================================================
