---------------------------- MODULE PCAPDumper -----------------------------
(***************************************************************************)
(* The NIC wrapper that copies the frames of a NIC to a PCAP file: a       *)
(* bounded queue between the NIC, which never waits, and the goroutine     *)
(* that writes the file.                                                   *)
(***************************************************************************)
EXTENDS Naturals, Sequences

CONSTANTS
    QueueCap    \* the frames the queue holds at most

ASSUME QueueCap \in Nat \ {0}

VARIABLES
    observed,   \* history: the frames the NIC has passed
    queue,      \* the copies that wait to be written, eldest first
    file,       \* the frames in the file
    dropped     \* the copies pushed out of the queue, which a counter counts

Init == observed = {} /\ queue = <<>> /\ file = {} /\ dropped = {}

\* The NIC passes a frame.  Its copy joins the queue; when the queue is full
\* the eldest copy makes room and is counted.
Observe(frame) ==
    LET room == Len(queue) < QueueCap
    IN  /\ observed' = observed \cup {frame}
        /\ queue' = Append(IF room THEN queue ELSE Tail(queue), frame)
        /\ dropped' = IF room THEN dropped ELSE dropped \cup {Head(queue)}
        /\ UNCHANGED file

\* The writer takes the eldest copy to the file.
Write ==
    /\ queue # <<>>
    /\ file' = file \cup {Head(queue)} /\ queue' = Tail(queue)
    /\ UNCHANGED <<observed, dropped>>

\* Close returns once nothing waits.
Flushed == queue = <<>>

=============================================================================
