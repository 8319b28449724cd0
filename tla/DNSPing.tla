------------------------------ MODULE DNSPing ------------------------------
(***************************************************************************)
(* main of cmd/dnsping: a star topology with a client and a DNS server,    *)
(* and a loop that sends maxPings queries, one at a time, and prints the   *)
(* round trip time or the error of each.                                   *)
(*                                                                         *)
(* Four actors take steps: main; the DNS server, which main starts and     *)
(* never closes; the links, which may lose the datagram of *)
(* a round trip in either direction, with the two workers of the client's  *)
(* link; and the PCAP dumper that wraps the client's NIC (PCAPDumper).     *)
(* topology.Close() signals the workers, waits for them, drains the dumper *)
(* and releases the stacks.  DNSRoundTrip is given                         *)
(* context.Background(): that it returns when its datagram is lost is what *)
(* the fairness of RoundTripFails assumes of it.                           *)
(***************************************************************************)
EXTENDS Naturals, Sequences

CONSTANTS
    MaxPings,   \* *maxPings, the flag -count
    QueueCap    \* the queue of the PCAP dumper

ASSUME MaxPings \in Nat

VARIABLES
    pc,         \* main: "setup", "loop" or "roundtrip"
    exit,       \* how main ended: "no" (it runs), "returned" or "panicked"
    idx,        \* the counter of the loop
    printed,    \* the line main printed for each ping: "rtt", "err", or
                \* "none" before its turn
    topology,   \* "open", "closing" (inside Close) or "closed"
    server,     \* the DNS server: "none" or "serving"
    worker,     \* the workers of the client's link, one per direction:
                \* "running" or "exited"
    wire,       \* the datagrams under way, each with the ping it belongs to
                \* and where it is: in the client's "nic", a "query" past
                \* the client's link, a "response", or "arrived"
    observed, queue, file, dropped      \* PCAPDumper

loop == <<pc, idx, printed>>
tap  == <<observed, queue, file, dropped>>
vars == <<loop, exit, topology, server, worker, wire, tap>>

Directions == {"LeftToRight", "RightToLeft"}

Dumper == INSTANCE PCAPDumper

\* The datagram of a ping, which is also the frame that the client's NIC
\* passes when the query leaves and when the answer arrives.
Datagram(ping, at) == [ping |-> ping, at |-> at]

Move(d, at) == wire' = (wire \ {d}) \cup {Datagram(d.ping, at)}

-----------------------------------------------------------------------------
(* main *)

StopWithoutDefers(how) == exit' = how /\ UNCHANGED topology

\* main ends, by return or by the panic of a Must: defer topology.Close().
Stop(how) == exit' = how /\ topology' = "closing"

\* The hosts are added and the DNS server is started, or one of the Must
\* calls after the defer panics.
Setup ==
    /\ exit = "no" /\ pc = "setup"
    /\ \/ server' = "serving" /\ pc' = "loop" /\ UNCHANGED <<exit, topology>>
       \/ Stop("panicked") /\ UNCHANGED <<pc, server>>
    /\ UNCHANGED <<idx, printed, worker, wire, tap>>

OneMorePing == idx <= MaxPings

\* idx < *maxPings
MorePings == idx < MaxPings

RetrySamePing == idx

\* idx++, which a continue reaches too
NextPing == idx + 1

\* The head of a turn: DNSRoundTrip writes the query to the client's NIC.
SendQuery ==
    /\ exit = "no" /\ pc = "loop" /\ MorePings
    /\ pc' = "roundtrip"
    /\ wire' = wire \cup {Datagram(idx, "nic")}
    /\ UNCHANGED <<exit, idx, printed, topology, server, worker, tap>>

\* The line printed for a ping, the sleep, and the next turn.
Report(line) ==
    /\ printed' = [printed EXCEPT ![idx + 1] = line]
    /\ idx' = NextPing /\ pc' = "loop"
    /\ UNCHANGED <<exit, topology>>

\* err != nil: DNSRoundTrip gave up; its datagram may still be under way.
RoundTripFails ==
    /\ exit = "no" /\ pc = "roundtrip"
    /\ Report("err")
    /\ UNCHANGED <<server, worker, wire, tap>>

\* The response is back: it parses, or Must2 panics.
RoundTripSucceeds ==
    /\ exit = "no" /\ pc = "roundtrip" /\ Datagram(idx, "arrived") \in wire
    /\ \/ Report("rtt")
       \/ Stop("panicked") /\ UNCHANGED loop
    /\ wire' = wire \ {Datagram(idx, "arrived")}
    /\ UNCHANGED <<server, worker, tap>>

\* The loop is over: main returns.
Return ==
    /\ exit = "no" /\ pc = "loop" /\ ~MorePings
    /\ Stop("returned")
    /\ UNCHANGED <<loop, server, worker, wire, tap>>

Main == Setup \/ SendQuery \/ RoundTripFails \/ RoundTripSucceeds \/ Return

-----------------------------------------------------------------------------
(* The DNS server, the links, the dumper and the inside of Close *)

\* The worker of a direction reads a query from the client's NIC and passes a
\* copy to the wrapper.  A signalled worker may still do so before it exits.
WorkerReads ==
    /\ worker["LeftToRight"] = "running"
    /\ \E d \in wire :
        /\ d.at = "nic"
        /\ Move(d, "query") /\ Dumper!Observe(Datagram(d.ping, "query"))
    /\ UNCHANGED <<loop, exit, topology, server, worker>>

\* The worker of the other direction writes an answer to the client's NIC:
\* the answer of the ping that waits for it, or of one that has given up.
ResponseArrives ==
    /\ worker["RightToLeft"] = "running"
    /\ \E d \in wire :
        /\ d.at = "response"
        /\ Move(d, "arrived") /\ Dumper!Observe(Datagram(d.ping, "response"))
    /\ UNCHANGED <<loop, exit, topology, server, worker>>

\* LeftToRightPLR and RightToLeftPLR are above zero on both links: the draw
\* of a worker drops the datagram.
Lose ==
    /\ topology # "closed"
    /\ \E d \in wire : d.at \in {"query", "response"} /\ wire' = wire \ {d}
    /\ UNCHANGED <<loop, exit, topology, server, worker, tap>>

\* Close has signalled the link: a worker leaves its read or its sleep.
WorkerExits(dir) ==
    /\ topology = "closing" /\ worker[dir] = "running"
    /\ worker' = [worker EXCEPT ![dir] = "exited"]
    /\ UNCHANGED <<loop, exit, topology, server, wire, tap>>

ServerAnswers ==
    /\ server = "serving" /\ topology # "closed"
    /\ \E d \in wire : d.at = "query" /\ Move(d, "response")
    /\ UNCHANGED <<loop, exit, topology, server, worker, tap>>

\* The goroutine of the dumper writes a frame to dnsping.pcap.
DumperWrites ==
    /\ topology # "closed" /\ Dumper!Write
    /\ UNCHANGED <<loop, exit, topology, server, worker, wire>>

WorkersStopped == \A dir \in Directions : worker[dir] = "exited"

\* Close waits for the workers it has signalled, then drains the dumper,
\* then releases the stacks and returns.
CloseReturns ==
    /\ topology = "closing" /\ WorkersStopped /\ Dumper!Flushed
    /\ topology' = "closed"
    /\ UNCHANGED <<loop, exit, server, worker, wire, tap>>

-----------------------------------------------------------------------------
(* The specification *)

Init ==
    /\ pc = "setup" /\ exit = "no" /\ idx = 0
    /\ printed = [i \in 1..MaxPings |-> "none"]
    /\ topology = "open" /\ server = "none" /\ wire = {}
    /\ worker = [dir \in Directions |-> "running"]
    /\ Dumper!Init

Workers == WorkerReads \/ ResponseArrives \/ \E dir \in Directions : WorkerExits(dir)

Next ==
    \/ Main \/ Workers \/ Lose \/ ServerAnswers
    \/ DumperWrites \/ CloseReturns

Spec == Init /\ [][Next]_vars

(***************************************************************************)
(* Fairness.  main and the dumper's goroutine are scheduled,               *)
(* DNSRoundTrip returns, a signalled worker exits, and Close returns once  *)
(* the workers are gone and the dumper is drained.  A link owes nothing:   *)
(* it may lose every datagram.                                             *)
(***************************************************************************)
FairSpec ==
    Spec /\ WF_vars(Main) /\ WF_vars(DumperWrites) /\ WF_vars(CloseReturns)
         /\ \A dir \in Directions : WF_vars(WorkerExits(dir))

-----------------------------------------------------------------------------
(* Properties *)

\* The type invariant: the loop never goes past maxPings, and it has printed
\* one line for each ping before the current one and none for the others.
TypeOK ==
    /\ pc \in {"setup", "loop", "roundtrip"}
    /\ exit \in {"no", "returned", "panicked"}
    /\ idx \in 0..MaxPings
    /\ printed \in [1..MaxPings -> {"none", "rtt", "err"}]
    /\ \A i \in 1..MaxPings : printed[i] # "none" <=> i <= idx
    /\ topology \in {"open", "closing", "closed"}
    /\ server \in {"none", "serving"}
    /\ worker \in [Directions -> {"running", "exited"}]
    /\ wire \subseteq [ping : 0..(MaxPings - 1),
                       at : {"nic", "query", "response", "arrived"}]
    /\ queue \in Seq(observed) /\ Len(queue) <= QueueCap
    /\ file \cup dropped \subseteq observed

\* The process is gone: main has ended and is not inside topology.Close().
Ended == exit # "no" /\ topology # "closing"

\* dnsping.pcap is complete when the process ends, by return or by a panic:
\* every frame that crossed the client's NIC is in the file or was counted as
\* dropped by a full queue, none is left in the queue, and none is in the
\* file twice over a drop.  The deferred topology.Close() waits for the
\* dumper, whose goroutine may be several frames behind the NIC.
CaptureIsComplete ==
    /\ file \cap dropped = {}
    /\ Ended => queue = <<>> /\ file \cup dropped = observed

\* dnsping ends, however many datagrams the links lose: a ping that fails
\* is counted like one that is answered (the continue of the error branch
\* goes through idx++).
MainEventuallyStops == <>(exit # "no" /\ topology = "closed")

=============================================================================
