----------------------------- MODULE Connector -----------------------------
(***************************************************************************)
(* The connection to the Hub (pkg/connector/client.go).  Goroutines all    *)
(* over the runner put frames into a bounded outbox; one goroutine dials,  *)
(* announces itself, calls the resync hook and only then begins to take    *)
(* frames out and write them to the connection.                            *)
(*                                                                         *)
(* A frame that is written while the connection is up reaches the Hub at   *)
(* once, and one written after it broke does not: a frame that was on its  *)
(* way when the connection broke is one written after the break.           *)
(***************************************************************************)
EXTENDS Integers, Sequences, FiniteSets

CONSTANTS
    OutboxCap,   \* the capacity of the outbox (256)
    BackoffCap,  \* the seconds from which the backoff is doubled no more (30)
    MaxBeats,    \* bound: heartbeats in the outbox
    MaxFaults    \* bound: connections that break, credentials that get lost, restarts

ASSUME ConnectorAssumption ==
    /\ OutboxCap \in Nat \ {0} /\ BackoffCap \in Nat \ {0}
    /\ MaxBeats \in Nat /\ MaxFaults \in Nat

VARIABLES
    outbox,
    link,        \* where the goroutine of Run is
    alive,       \* the connection it has dialled is up
    backoff,     \* seconds it sleeps after the next failure
    enrollment,  \* the bearer it has for the next dial
    faults

connector == <<outbox, link, alive, backoff, enrollment, faults>>

\* dial: asleep or dialling; identify: about to send agent_info; hook: about to call
\* onConnect; resync: the hook is about to send a report; serve: in the select loop;
\* beat: the heartbeat's turn has come in it.
LinkStates == {"dial", "identify", "hook", "resync", "serve", "beat"}

\* fresh: an enroll token not yet used; lasting: the shared token, or the credential that
\* was stored; burned: the Hub took the enroll token, and what it gave was not stored.
Enrollments == {"fresh", "lasting", "burned"}

Heartbeat == [type |-> "heartbeat"]

ConnectorTypeOK(frames) ==
    /\ outbox \in Seq(frames)
    /\ Len(outbox) <= OutboxCap
    /\ link \in LinkStates
    /\ alive \in BOOLEAN
    /\ backoff \in 1..(2 * BackoffCap - 1)
    /\ enrollment \in Enrollments
    /\ faults \in 0..MaxFaults

\* main exits unless it has one of the bearers.
ConnectorInit ==
    /\ outbox = << >>
    /\ link = "dial"
    /\ alive = FALSE
    /\ backoff = 1
    /\ enrollment \in {"fresh", "lasting"}
    /\ faults = 0

Fault == faults < MaxFaults /\ faults' = faults + 1
NoFault == faults' = faults

\* Queues a frame, when there is room: the sender waits for it, whoever it is.
Send(frame) ==
    /\ Len(outbox) < OutboxCap
    /\ outbox' = Append(outbox, frame)

\* The backoff is doubled though it is past its cap.
MutNextBackoff == backoff * 2

NextBackoff == IF backoff < BackoffCap THEN backoff * 2 ELSE backoff

\* connectAndServe returns an error.
Retreat ==
    /\ link' = "dial"
    /\ alive' = FALSE
    /\ backoff' = NextBackoff
-----------------------------------------------------------------------------
\* The Hub does not answer, or turns the bearer down.
DialFails ==
    /\ link = "dial"
    /\ Retreat
    /\ NoFault
    /\ UNCHANGED <<outbox, enrollment>>

\* A burned enroll token goes on being offered, and is turned down.
Accepted == enrollment # "burned"

\* The Hub consumed the enroll token, and its answer is lost, or cannot be stored.
DialBurnsToken ==
    /\ link = "dial"
    /\ enrollment = "fresh"
    /\ enrollment' = "burned"
    /\ Fault
    /\ \/ Retreat
       \/ link' = "identify" /\ alive' = TRUE /\ UNCHANGED backoff
    /\ UNCHANGED outbox

\* The persisted credential wins over the enroll token, and that over the shared token.
DialSucceeds ==
    /\ link = "dial"
    /\ Accepted
    /\ link' = "identify"
    /\ alive' = TRUE
    /\ enrollment' = "lasting"
    /\ NoFault
    /\ UNCHANGED <<outbox, backoff>>

\* The identity is not sent.
MutIdentify(frame) ==
    /\ link = "identify"
    /\ link' = "hook"
    /\ NoFault
    /\ UNCHANGED <<outbox, alive, backoff, enrollment>>

\* The identity frame, sent before anything drains the outbox.
Identify(frame) ==
    /\ link = "identify"
    /\ Send(frame)
    /\ link' = "hook"
    /\ NoFault
    /\ UNCHANGED <<alive, backoff, enrollment>>

ConnectionBreaks ==
    /\ alive
    /\ alive' = FALSE
    /\ Fault
    /\ UNCHANGED <<outbox, link, backoff, enrollment>>

\* The outbox is made anew.
MutReadFails ==
    /\ link = "serve"
    /\ ~alive
    /\ Retreat
    /\ outbox' = << >>
    /\ NoFault
    /\ UNCHANGED enrollment

\* The read loop ends with an error.
ReadFails ==
    /\ link = "serve"
    /\ ~alive
    /\ Retreat
    /\ NoFault
    /\ UNCHANGED <<outbox, enrollment>>

\* The ticker fires.
HeartbeatDue ==
    /\ link = "serve"
    /\ Cardinality({i \in 1..Len(outbox) : outbox[i] = Heartbeat}) < MaxBeats
    /\ link' = "beat"
    /\ NoFault
    /\ UNCHANGED <<outbox, alive, backoff, enrollment>>

\* The heartbeat is queued by the goroutine that drains the queue.
SendHeartbeat ==
    /\ link = "beat"
    /\ Send(Heartbeat)
    /\ link' = "serve"
    /\ NoFault
    /\ UNCHANGED <<alive, backoff, enrollment>>

TakeFrame ==
    /\ link = "serve"
    /\ outbox # << >>
    /\ outbox' = Tail(outbox)
    /\ NoFault
    /\ UNCHANGED enrollment

\* WriteJSON succeeds and the Hub reads the frame.
WriteArrives == TakeFrame /\ alive /\ UNCHANGED <<link, alive, backoff>>

\* WriteJSON fails, or succeeds on a connection whose end was not noticed yet: the frame
\* was taken from the outbox and is gone.
WriteIsLost ==
    /\ TakeFrame
    /\ ~alive
    /\ Retreat \/ UNCHANGED <<link, alive, backoff>>

\* The goroutine that drains the outbox waits for room in it.
Stalled == link \in {"identify", "resync", "beat"} /\ Len(outbox) = OutboxCap

LockedOut == enrollment = "burned"

\* The process starts anew; what it had stored stays.
ConnectorRestart ==
    /\ outbox' = << >>
    /\ link' = "dial"
    /\ alive' = FALSE
    /\ backoff' = 1
    /\ UNCHANGED enrollment
=============================================================================
