---------------------------- MODULE RolloutWalk ----------------------------
(***************************************************************************)
(* What the runner promises about one Rollout, whoever acts on it: how it  *)
(* walks its steps, what weight it may take meanwhile, and what a pause    *)
(* and an abort do to it.  The Rollout controller implements this whatever *)
(* the age of its copies, the operator's commands, the pods, the probes    *)
(* and the calls that fail.                                                *)
(***************************************************************************)
EXTENDS Integers, Sequences

VARIABLES
    plan,    \* the weights of the steps, NoWeight for a step without one
    phase,
    index,   \* the steps that have been left
    weight,
    paused, aborted

NoWeight == -1
Over == {"Failed", "RolledBack"}

vars == <<plan, phase, index, weight, paused, aborted>>

Init ==
    /\ plan \in Seq(0..100 \cup {NoWeight})
    /\ phase = "" /\ index = 0 /\ weight = 0
    /\ paused = FALSE /\ aborted = FALSE
-----------------------------------------------------------------------------
(* The walk, while neither flag is up.  A rollout that is over is taken up again by a *)
(* promote alone, which goes on to the next step, or finds that there is none.        *)

Free == ~paused /\ ~aborted
Walking == Free /\ index < Len(plan)

\* The weight of the step at the index may be taken on.
Takes(i, w) == i < Len(plan) /\ plan[i + 1] = w /\ w # NoWeight

\* To the next step, and no further.
Advance ==
    /\ Walking
    /\ phase' = "Progressing"
    /\ index' = index + 1
    /\ weight' = weight \/ Takes(index + 1, weight')
    /\ UNCHANGED <<plan, paused, aborted>>

Shift ==
    /\ Walking /\ phase \notin Over
    /\ phase' = "Progressing"
    /\ Takes(index, weight')
    /\ UNCHANGED <<plan, index, paused, aborted>>

Wait ==
    /\ Walking /\ phase \notin Over
    /\ phase' \in {"Progressing", "Paused", "Failed"}
    /\ UNCHANGED <<plan, index, weight, paused, aborted>>

\* All the steps have been left.
Complete ==
    /\ Free /\ index >= Len(plan)
    /\ phase' = "Healthy"
    /\ UNCHANGED <<plan, index, weight, paused, aborted>>

\* A canary whose pods cannot run is rolled back with its weight left in the status.
RollBack ==
    /\ Free /\ phase \notin Over
    /\ \/ phase' = "RollingBack" /\ weight' = 0
       \/ phase' = "RolledBack" /\ UNCHANGED weight
    /\ UNCHANGED <<plan, index, paused, aborted>>
-----------------------------------------------------------------------------
(* The flags, and what becomes of a rollout under them. *)

Pause ==
    /\ phase # "Healthy"
    /\ paused' = TRUE
    /\ UNCHANGED <<plan, phase, index, weight, aborted>>

Resume ==
    /\ ~aborted
    /\ paused' = FALSE
    /\ UNCHANGED <<plan, phase, index, weight, aborted>>

Abort ==
    /\ paused' = FALSE
    /\ aborted' = TRUE
    /\ UNCHANGED <<plan, phase, index, weight>>

Hold ==
    /\ paused
    /\ phase' = "Paused"
    /\ UNCHANGED <<plan, index, weight, paused, aborted>>

\* An abort is never undone: the weight goes, and is not taken on again.
Revert ==
    /\ aborted
    /\ \/ phase' = "RollingBack" /\ UNCHANGED weight
       \/ phase' = "RolledBack" /\ weight' = 0
    /\ UNCHANGED <<plan, index, paused, aborted>>

Next ==
    \/ Advance \/ Shift \/ Wait \/ Complete \/ RollBack
    \/ Pause \/ Resume \/ Abort \/ Hold \/ Revert

Spec == Init /\ [][Next]_vars
=============================================================================
