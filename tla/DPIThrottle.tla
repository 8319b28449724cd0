---------------------------- MODULE DPIThrottle -----------------------------
(***************************************************************************)
(* The rule DPIThrottleTrafficForTLSSNI on a link: the rule's Filter, the  *)
(* DPI engine that caches its verdicts by flow, and the two workers of the *)
(* link that apply them (one per direction).                               *)
(*                                                                         *)
(* A frame is named by its direction and its position in what the source   *)
(* stack emitted; of its content the model keeps the flow it belongs to    *)
(* and the server name its payload carries, if it is a complete TLS        *)
(* ClientHello.  Probabilities are in percent; a loss draw is a choice.    *)
(* Time is the time left to each frame in flight.                          *)
(***************************************************************************)
EXTENDS Naturals, Sequences, Functions

CONSTANTS
    Conns,      \* the address and port pairs of the traffic
    SNIs,       \* the server names a ClientHello may carry
    NoSNI,      \* parseTLSServerName fails: no (complete) ClientHello
    RuleSNI,    \* r.SNI, the offending server name
    RulePLR,    \* r.PLR, in percent
    LinkDelay,  \* the one-way delay of each direction of the link, in ticks
    LinkPLR,    \* the loss rate of each direction of the link, in percent
    MaxFrames   \* bound: frames each stack emits

ASSUME /\ RuleSNI \in SNIs /\ NoSNI \notin SNIs
       /\ RulePLR \in 0..100 /\ MaxFrames \in Nat

DPIDirectionClientToServer == "ClientToServer"
DPIDirectionServerToClient == "ServerToClient"

Directions == {DPIDirectionClientToServer, DPIDirectionServerToClient}

ASSUME LinkDelay \in [Directions -> Nat] /\ LinkPLR \in [Directions -> 0..100]

Flows      == [proto : {"TCP", "UDP"}, conn : Conns]
Packets    == [flow : Flows, sni : SNIs \cup {NoSNI}]
Keys       == Flows \X Directions

\* What Filter returns: (nil, false), or (policy, true) with a DPIPolicy.
NoPolicy  == [matched |-> FALSE]
DPIPolicyDrop == 1
DPIPolicy == [Delay : Nat, Flags : {0, DPIPolicyDrop}, PLR : 0..100]

VARIABLES
    link,        \* "created", "running" or "closed"
    nic,         \* the NIC each direction writes to: "open" or "closed"
    worker,      \* the worker of each direction: "idle", "running", "exited"
    sent,        \* what the source stack of each direction has emitted
    read,        \* how many of them the worker has read
    cache,       \* the engine's verdict for each flow and direction
    filterCalls, \* history: calls of Filter for each flow and direction
    inflight,    \* frames waiting for their delivery time
    lost,        \* frames the loss draw dropped
    delivered    \* frames written to the destination NIC, in order

ends == <<sent, nic>>
dpi  == <<read, cache, filterCalls>>
vars == <<link, worker, ends, dpi, inflight, lost, delivered>>

-----------------------------------------------------------------------------
(* DPIThrottleTrafficForTLSSNI.Filter *)

DelayingPolicy == [Delay |-> 1, Flags |-> 0, PLR |-> RulePLR]

DroppingPolicy == [Delay |-> 0, Flags |-> DPIPolicyDrop, PLR |-> RulePLR]

PLRTakenAsPercent == [Delay |-> 0, Flags |-> 0, PLR |-> 100 * RulePLR]

\* policy := &DPIPolicy{Delay: 0, Flags: 0, PLR: r.PLR}
ThrottlePolicy == [Delay |-> 0, Flags |-> 0, PLR |-> RulePLR]

FilterEitherDirection(direction, packet) ==
    IF packet.flow.proto = "TCP" /\ packet.sni = RuleSNI
    THEN ThrottlePolicy ELSE NoPolicy

\* The three short circuits and the comparison with r.SNI.
Filter(direction, packet) ==
    IF /\ direction = DPIDirectionClientToServer
       /\ packet.flow.proto = "TCP"
       /\ packet.sni # NoSNI
       /\ packet.sni = RuleSNI
    THEN ThrottlePolicy ELSE NoPolicy

-----------------------------------------------------------------------------
(* The DPI engine and the link *)

\* The engine: the cached verdict of the flow, else what the rule says.
Inspect(direction, packet) ==
    LET cached == cache[<<packet.flow, direction>>]
    IN  IF cached # NoPolicy THEN cached ELSE Filter(direction, packet)

\* What a worker applies to a packet: no policy is no impairment.
Applied(policy) ==
    IF policy = NoPolicy THEN [Delay |-> 0, Flags |-> 0, PLR |-> 0] ELSE policy

\* A stack writes a frame to its NIC.
Emit(d, p) ==
    /\ Len(sent[d]) < MaxFrames
    /\ sent' = [sent EXCEPT ![d] = Append(@, p)]
    /\ UNCHANGED <<link, worker, nic, dpi, inflight, lost, delivered>>

\* The stack a direction writes to is released: its NIC is closed.
ReleaseStack(d) ==
    /\ nic[d] = "open"
    /\ nic' = [nic EXCEPT ![d] = "closed"]
    /\ UNCHANGED <<link, worker, sent, dpi, inflight, lost, delivered>>

Start ==
    /\ link = "created"
    /\ link' = "running"
    /\ worker' = [d \in Directions |-> "running"]
    /\ UNCHANGED <<ends, dpi, inflight, lost, delivered>>

\* Close signals both workers and waits for them.
Close ==
    /\ link = "running"
    /\ link' = "closed"
    /\ worker' = [d \in Directions |-> "exited"]
    /\ inflight' = [d \in Directions |-> {}]
    /\ UNCHANGED <<ends, dpi, lost, delivered>>

\* The policy says DROP: the frame is discarded.
Discard(policy) ==
    /\ policy.Flags = DPIPolicyDrop
    /\ UNCHANGED <<inflight, lost>>

\* The draw is below the loss rate: the frame is dropped, silently.
Lose(d, id, policy) ==
    /\ policy.Flags # DPIPolicyDrop
    /\ LinkPLR[d] + policy.PLR > 0
    /\ lost' = [lost EXCEPT ![d] = @ \cup {id}]
    /\ UNCHANGED inflight

\* The draw is not below the loss rate: delivery is scheduled.
Schedule(d, id, policy) ==
    /\ policy.Flags # DPIPolicyDrop
    /\ LinkPLR[d] + policy.PLR < 100
    /\ inflight' = [inflight EXCEPT ![d] =
                       @ \cup {[id |-> id, rem |-> LinkDelay[d] + policy.Delay]}]
    /\ UNCHANGED lost

\* A worker reads a frame from its source NIC, queries the engine (which
\* caches a match), draws the loss and schedules the delivery.
Take(d) ==
    /\ worker[d] = "running"
    /\ read[d] < Len(sent[d])
    /\ LET id     == read[d] + 1
           key    == <<sent[d][id].flow, d>>
           policy == Inspect(d, sent[d][id])
       IN  /\ read' = [read EXCEPT ![d] = id]
           /\ cache' = [cache EXCEPT ![key] = policy]
           /\ filterCalls' = [filterCalls EXCEPT
                                 ![key] = IF cache[key] = NoPolicy THEN @ + 1 ELSE @]
           /\ \/ Discard(Applied(policy))
              \/ Lose(d, id, Applied(policy))
              \/ Schedule(d, id, Applied(policy))
    /\ UNCHANGED <<link, worker, ends, delivered>>

Due(d) == {f \in inflight[d] : f.rem = 0}

\* Of the frames that are due, the one read first.
FirstDue(d) == CHOOSE f \in Due(d) : \A g \in Due(d) : f.id <= g.id

\* The delivery time of a frame has come: it is written to the NIC.
Deliver(d) ==
    /\ worker[d] = "running"
    /\ Due(d) # {}
    /\ nic[d] = "open"
    /\ delivered' = [delivered EXCEPT ![d] = Append(@, FirstDue(d).id)]
    /\ inflight' = [inflight EXCEPT ![d] = @ \ {FirstDue(d)}]
    /\ UNCHANGED <<link, worker, ends, dpi, lost>>

\* The write fails because the peer is closed: the worker exits.
WriteFails(d) ==
    /\ worker[d] = "running"
    /\ Due(d) # {}
    /\ nic[d] = "closed"
    /\ worker' = [worker EXCEPT ![d] = "exited"]
    /\ inflight' = [inflight EXCEPT ![d] = {}]
    /\ UNCHANGED <<link, ends, dpi, lost, delivered>>

\* Time passes, once every frame that is due has been written.
Tick ==
    /\ link = "running"
    /\ \E d \in Directions : inflight[d] # {}
    /\ \A d \in Directions : Due(d) = {}
    /\ inflight' = [d \in Directions |->
                       {[f EXCEPT !.rem = @ - 1] : f \in inflight[d]}]
    /\ UNCHANGED <<link, worker, ends, dpi, lost, delivered>>

-----------------------------------------------------------------------------
(* The specification *)

Init ==
    /\ link = "created"
    /\ nic = [d \in Directions |-> "open"]
    /\ worker = [d \in Directions |-> "idle"]
    /\ sent = [d \in Directions |-> <<>>]
    /\ read = [d \in Directions |-> 0]
    /\ cache = [k \in Keys |-> NoPolicy]
    /\ filterCalls = [k \in Keys |-> 0]
    /\ inflight = [d \in Directions |-> {}]
    /\ lost = [d \in Directions |-> {}]
    /\ delivered = [d \in Directions |-> <<>>]

Worker(d) == Take(d) \/ Deliver(d) \/ WriteFails(d)

Next ==
    \/ Start
    \/ Close
    \/ Tick
    \/ \E d \in Directions : Worker(d) \/ ReleaseStack(d)
    \/ \E d \in Directions, p \in Packets : Emit(d, p)

Spec == Init /\ [][Next]_vars

(***************************************************************************)
(* Fairness.  The workers are tasks of a running link: a worker that can   *)
(* read, or write a frame that is due, does so; and time passes.  Nothing  *)
(* is assumed of the stacks, nor of whoever starts and closes the link.    *)
(***************************************************************************)
FairSpec == Spec /\ WF_vars(Tick) /\ \A d \in Directions : WF_vars(Worker(d))

-----------------------------------------------------------------------------
(* Properties *)

Ids == 1..MaxFrames

\* The type invariant: every variable holds a value of its kind; the policy
\* cached for a flow is a DPIPolicy, whose loss rate is a probability.
TypeOK ==
    /\ link \in {"created", "running", "closed"}
    /\ nic \in [Directions -> {"open", "closed"}]
    /\ worker \in [Directions -> {"idle", "running", "exited"}]
    /\ sent \in [Directions -> Seq(Packets)]
    /\ read \in [Directions -> 0..MaxFrames]
    /\ cache \in [Keys -> DPIPolicy \cup {NoPolicy}]
    /\ filterCalls \in [Keys -> 0..MaxFrames]
    /\ \A d \in Directions : inflight[d] \subseteq [id : Ids, rem : 0..LinkDelay[d]]
    /\ lost \in [Directions -> SUBSET Ids]
    /\ delivered \in [Directions -> Seq(Ids)]

\* The worker of direction d has read, among its first n frames, a
\* ClientHello of this flow that names the offending server.
HelloSeen(d, flow, n) ==
    \E j \in 1..n : sent[d][j] = [flow |-> flow, sni |-> RuleSNI]

\* The rule throttles the flows it is meant to and no other.  Filter decides
\* one packet, the engine's cache extends its verdict to the flow: a flow has
\* a cached policy exactly when it is TCP, runs from client to server, and
\* its ClientHello with the offending name has entered the link; and in a
\* direction without loss of its own, a frame is lost only if it is such a
\* hello or follows one in its flow.  The return path, UDP, other names and
\* other flows are never touched, and the loss configured for one direction
\* (RightToLeftPLR of TestLinkPLR) stays in that direction.
OnlyOffendingFlowsAreThrottled ==
    /\ \A flow \in Flows, d \in Directions :
        cache[<<flow, d>>] # NoPolicy <=>
            /\ d = DPIDirectionClientToServer
            /\ flow.proto = "TCP"
            /\ HelloSeen(d, flow, read[d])
    /\ \A d \in Directions : LinkPLR[d] = 0 => \A id \in lost[d] :
        cache[<<sent[d][id].flow, d>>] # NoPolicy /\ HelloSeen(d, sent[d][id].flow, id)

\* Within a direction frames are delivered in source order, across flows:
\* the policy of Filter adds no delay (Delay: 0), so a throttled flow's
\* frames are scheduled like everyone else's and nothing overtakes.
DeliveredInSourceOrder ==
    \A d \in Directions : \A i, j \in DOMAIN delivered[d] :
        i < j => delivered[d][i] < delivered[d][j]

\* Throttling is not dropping.  Every frame a stack emits into a running link
\* is eventually delivered, or lost by a draw, unless the link is closed or
\* the peer's NIC is: the policy of Filter carries no flag (Flags: 0), so no
\* worker discards a frame of a throttled flow outright, and a frame that is
\* lost does not hold back the frames behind it.
FramesAreDeliveredOrLost ==
    \A d \in Directions, id \in Ids :
        (link = "running" /\ id <= Len(sent[d]))
            ~> \/ id \in lost[d] \cup Range(delivered[d])
               \/ link = "closed"
               \/ nic[d] = "closed"

\* What section 8 of the specification says of the engine: a rule's Filter
\* is called at most once per flow.
FilterCalledOncePerFlow ==
    \A k \in Keys : filterCalls[k] <= 1

=============================================================================
