----------------------------- MODULE LogStream -----------------------------
(***************************************************************************)
(* The logs of a task (maybeStreamLogs in taskrun_controller.go and        *)
(* pkg/logstream).  When a Job is started, a goroutine waits for its pod,  *)
(* reads the log there is, cuts it into chunks at line ends and sends      *)
(* them.  Lines are numbers; of a line only its size matters.              *)
(***************************************************************************)
EXTENDS Connector, Sums, SequencesExt

CONSTANTS
    Logs,        \* the logs a pod may write: sequences of line sizes, the newline included
    ChunkSize,   \* the size a chunk should have at most (8 kB)
    MaxLine,     \* the size the scanner can hold (16 MB)
    MaxAttempts, \* how often the pod is looked for (10)
    MaxStarts    \* bound: reconciles that start the Job

ASSUME LogsAssumption ==
    /\ Logs \subseteq Seq(Nat \ {0}) /\ Logs # {}
    /\ ChunkSize \in Nat /\ MaxLine \in Nat
    /\ MaxAttempts \in Nat \ {0} /\ MaxStarts \in Nat

VARIABLES
    podLog,     \* the lines the pod will write, once there is one
    pod,        \* whether there is a pod to read from
    written,    \* the lines it has written
    streaming,  \* the entry of the Job in the map of streams
    streamers,  \* the goroutines, in the order they were started
    logHeard    \* the lines the Hub has received

logs == <<podLog, pod, written, streaming, streamers, logHeard>>

LogChunk(lines) == [type |-> "log_chunk", lines |-> lines]
LineNumbers == 1..written

Size(lines) == Total([i \in 1..Len(lines) |-> podLog[lines[i]]])

\* What SplitChunks has cut off and what it holds in its buffer.
Flush(state) ==
    IF state.buffer = << >>
    THEN state
    ELSE [chunks |-> Append(state.chunks, state.buffer), buffer |-> << >>]

\* The buffer is not flushed before a line that does not fit.
MutAddLine(state, line) ==
    LET added == [state EXCEPT !.buffer = Append(@, line)]
    IN  IF Size(added.buffer) >= ChunkSize THEN Flush(added) ELSE added

\* A line more: the buffer is flushed if the line would make it too long, and again if it
\* is full by the line.
AddLine(state, line) ==
    LET fits == Size(state.buffer) + podLog[line] <= ChunkSize
        room == IF fits THEN state ELSE Flush(state)
        added == [room EXCEPT !.buffer = Append(@, line)]
    IN  IF Size(added.buffer) >= ChunkSize THEN Flush(added) ELSE added

\* The chunks of the first n lines, which are scanned one after the other.
SplitChunks(n) ==
    LET Scanned[i \in 0..n] ==
            IF i = 0 THEN [chunks |-> << >>, buffer |-> << >>] ELSE AddLine(Scanned[i - 1], i)
    IN  Flush(Scanned[n]).chunks

Streams == 1..MaxStarts

\* none: not started; idle: over, or not needed; attempt: how often the pod was looked for;
\* chunks: what is left to send.
NoStream == [step |-> "none", attempt |-> 0, chunks |-> << >>]
Over == [NoStream EXCEPT !.step = "idle"]

LogsTypeOK ==
    /\ podLog \in Logs \cup {<< >>}
    /\ pod \in BOOLEAN
    /\ written \in 0..Len(podLog)
    /\ streaming \in BOOLEAN
    /\ streamers \in [Streams -> [step : {"none", "seek", "ship", "idle"}, attempt : 0..MaxAttempts,
                                  chunks : Seq(Seq(1..Len(podLog)))]]
    /\ logHeard \in Seq(1..Len(podLog))

LogsInit ==
    /\ podLog = << >>
    /\ pod = FALSE
    /\ written = 0
    /\ streaming = FALSE
    /\ streamers = [s \in Streams |-> NoStream]
    /\ logHeard = << >>
-----------------------------------------------------------------------------
\* A stream is started though there is one already.
MutStartStream(s) ==
    /\ \A t \in Streams : t < s <=> streamers[t].step # "none"
    /\ streaming' = TRUE
    /\ streamers' = [streamers EXCEPT ![s].step = "seek"]
    /\ UNCHANGED <<podLog, pod, written, logHeard>>

\* The Job is created, or found created by a reconcile that comes again because the status
\* update of the one before failed; its log is streamed unless it is being streamed.
StartStream(s) ==
    /\ \A t \in Streams : t < s <=> streamers[t].step # "none"
    /\ streaming' = TRUE
    /\ streamers' = [streamers EXCEPT ![s] = IF streaming THEN Over ELSE [@ EXCEPT !.step = "seek"]]
    /\ UNCHANGED <<podLog, pod, written, logHeard>>

\* The pod comes up, and writes line by line.
PodWrites ==
    /\ \E s \in Streams : streamers[s].step # "none"
    /\ IF pod
       THEN written < Len(podLog) /\ written' = written + 1 /\ UNCHANGED <<podLog, pod>>
       ELSE podLog' \in Logs /\ pod' = TRUE /\ UNCHANGED written
    /\ UNCHANGED <<streaming, streamers, logHeard>>

\* The goroutine goes on as `next', or ends and gives the entry back.
Continue(s, next) ==
    /\ streamers' = [streamers EXCEPT ![s] = next]
    /\ streaming' = (streaming /\ next # Over)
    /\ UNCHANGED <<podLog, pod, written, logHeard>>

\* No pod yet, or its log cannot be had yet: after the last attempt the stream is given up.
PodNotThere(s) ==
    /\ streamers[s].step = "seek"
    /\ Continue(s, IF streamers[s].attempt + 1 = MaxAttempts
                   THEN Over
                   ELSE [streamers[s] EXCEPT !.attempt = @ + 1])

\* The log is read to the end it has now.  A line too long ends it with nothing sent.
ReadLog(s) ==
    /\ streamers[s].step = "seek"
    /\ pod
    /\ Continue(s, IF written = 0 \/ \E line \in LineNumbers : podLog[line] > MaxLine
                   THEN Over
                   ELSE [NoStream EXCEPT !.step = "ship", !.chunks = SplitChunks(written)])

SendLogChunk(s) ==
    /\ streamers[s].step = "ship"
    /\ Send(LogChunk(Head(streamers[s].chunks)))
    /\ Continue(s, IF Len(streamers[s].chunks) = 1
                   THEN Over
                   ELSE [streamers[s] EXCEPT !.chunks = Tail(@)])

HearLog(frame) ==
    /\ logHeard' = IF frame.type = "log_chunk" THEN logHeard \o frame.lines ELSE logHeard
    /\ UNCHANGED <<podLog, pod, written, streaming, streamers>>

\* The map and the goroutines go with the process.
LogsRestart ==
    /\ streaming' = FALSE
    /\ streamers' = [s \in Streams |-> IF streamers[s].step = "none" THEN NoStream ELSE Over]
    /\ UNCHANGED <<podLog, pod, written, logHeard>>
=============================================================================
