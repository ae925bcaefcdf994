----------------------------- MODULE MCHubLink -----------------------------
(***************************************************************************)
(* Instances of HubLink for TLC.                                           *)
(***************************************************************************)
EXTENDS HubLink

CONSTANTS op1, op2, op3

ExecAndUpgrade == op1 :> "exec" @@ op2 :> "upgrade"
OneOfEach == op1 :> "exec" @@ op2 :> "upgrade" @@ op3 :> "refused"

\* No logs to speak of.
NoLogs == {<< >>}

\* Lines that fill a chunk exactly, do not fit, are longer than a chunk, or than anything.
SomeLogs == {<<2, 2, 3>>, <<6, 1, 1>>, <<1, 4, 1>>, <<2, 9>>}

Commanded == exec[1].step # "none"
Streamed == \E s \in Streams : streamers[s].step # "none"

(* Reports with heartbeats, commands, and logs have the connection each to themselves:
   together they are more than TLC can explore.  No fair action begins one of them. *)
OneTopic ==
    /\ ~(Commanded /\ Streamed)
    /\ Commanded \/ Streamed => manager = "off" /\ link # "beat" /\ Heartbeat \notin Range(outbox)

OneTopicSpec == Init /\ [][Next /\ OneTopic']_vars
FairOneTopicSpec == OneTopicSpec /\ Fairness
=============================================================================
