---------------------------- MODULE RunLifecycle ----------------------------
(***************************************************************************)
(* What the runner promises about one PipelineRun, whoever acts on it: how *)
(* its phase moves, and what a cancel request does to it.  `request' is    *)
(* the cancel annotation; `reviving' says that a rerun which found the run *)
(* Failed has come to the call that brings it back.  The runner implements *)
(* this whatever the interleaving of its reconcilers and handlers, the lag *)
(* of its caches and the calls that fail.                                  *)
(***************************************************************************)
VARIABLES phase, request, reviving

Final == {"Succeeded", "Cancelled"}
Over == Final \cup {"Failed"}
Live == phase \notin Over \cup {"Absent"}

Init == phase = "Absent" /\ request = FALSE /\ reviving = FALSE

Apply ==
    /\ phase = "Absent"
    /\ phase' = ""
    /\ UNCHANGED <<request, reviving>>

\* Scheduling moves a run, or ends it, only while nobody asked for its cancel.
Proceed ==
    /\ Live
    /\ ~request
    /\ phase' \in {"Pending", "Running", "WaitingApproval", "Succeeded", "Failed"}
    /\ UNCHANGED <<request, reviving>>

\* The request may land on a run that has just ended.
Request ==
    /\ phase # "Absent"
    /\ request' = TRUE
    /\ UNCHANGED <<phase, reviving>>

\* A live run is cancelled on request, and never otherwise.
Cancel ==
    /\ Live
    /\ request
    /\ phase' = "Cancelled"
    /\ UNCHANGED <<request, reviving>>

Withdraw ==
    /\ request' = FALSE
    /\ UNCHANGED <<phase, reviving>>

\* A rerun reaches its last call, or gives up.
Turn ==
    /\ reviving' = ~reviving
    /\ UNCHANGED <<phase, request>>

\* Only a rerun brings a Failed run back, and is over with it: whoever else writes
\* Running over Failed leaves `reviving' as it is.  A Succeeded or Cancelled run stays
\* what it is.
Revive ==
    /\ phase = "Failed"
    /\ reviving
    /\ phase' = "Running"
    /\ reviving' = FALSE
    /\ UNCHANGED request

Next == Apply \/ Proceed \/ Request \/ Cancel \/ Withdraw \/ Turn \/ Revive

Spec == Init /\ [][Next]_<<phase, request, reviving>>
=============================================================================
