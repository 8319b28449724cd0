# netem: TLA+ models

netem emulates networks in user space. Every host owns a userspace TCP/IP
stack; links carry the stacks' frames with delay, loss and deep packet
inspection (DPI); a router forwards between links in a star; application code
reaches a stack through the `Net` facade, which stands in for the dialers and
listeners of `net` and `crypto/tls`.

This directory holds the TLA+ specifications kept beside that code, the TLC
configurations that check them, and `PROJECT.json`, which records for every
definition the source lines it models, for every run what it checks, the
mutation that shows each property can fail, what the runs found, and the
hazards of the code with the properties that cover them.

    tlc -workers 2 -config NetDial.cfg MCNetDial      # one run

## 1. Inventory

What the repository's sources hold (`src/`), and what the specification
(`spec.md`) names beside them.

| Part | Source | State | Operations that change it |
|---|---|---|---|
| Net facade, dialling | `src/unnamed/part_000` 25-141 | per call: the addresses, `errlist`, the conn, the conn's deadline, `errch`, the handshake goroutine, the context | `DialContext`, `DialTLSContext`, `tlsHandshake` (and its goroutine), `LookupHost`, `LookupCNAME`, `ErrDial.Is` |
| Net facade, listening | `src/unnamed/part_000` 143-202 | the inner listener, the stack's accept queue, each accepted conn, each accept loop | `ListenTCP`, `ListenUDP`, `ListenTLS`, `Accept`, `Close` |
| cmd/throttle | `src/cmd/throttle/main.go` | the context, `ready`, `errch`, `clientErrch`, `perfch`, the listener, the topology | `main` and the two goroutines it starts |
| NDT0 harness of the tests | `src/integration_test.go` 113-167, 474-536, 624-700, 775-841, 939-1005 | as cmd/throttle | the test body and the two goroutines |
| DPI rule | `src/unnamed/part_002` | none of its own (the engine caches its verdict per flow) | `DPIThrottleTrafficForTLSSNI.Filter` |
| cmd/dnsping | `src/unnamed/part_001` | the loop counter, the topology, the DNS server it starts | `main` |
| Link, DPI engine, dissector, NIC wrapper, router, topology, clock | not in `src/` | queues, flow cache, forwarding table, lifecycle | described by `spec.md` sections 4.1 to 4.7 |
| Stack, DNS, HTTP, NDT0 | not in `src/` | | consumed through interfaces |

How the parts interact. An application calls the facade; the facade calls the
stack (`DialContext`, `GetaddrinfoLookupANY`, `ListenTCP`) and runs TLS on top
of what the stack returns. The stack's frames cross a link, where the DPI
engine asks each rule for a verdict and the link drops, delays or resets.
A DPI verdict reaches the facade only as behaviour of the network: a SYN that
never arrives, a ClientHello that is never answered, a reset.  cmd/throttle
and the tests tie everything together: they build a topology, start an NDT0
server and client in goroutines, and wait for both over channels.

What makes it hard.

- `tlsHandshake` runs the handshake in a goroutine and races its result
  against `ctx.Done()`; the conn has a deadline of its own; the caller closes
  the conn under the goroutine so that it can exit.
- `Accept` runs the server's handshake inline: one accept loop serves one
  client at a time, and a silent client holds it until the ten second ceiling.
- `Close` of the listener can land at any point of `Accept`.
- The harness waits on three goroutine-to-goroutine channels in a fixed
  order, while its server may sit in an `Accept` that nothing interrupts.
- `Filter` judges one packet, the engine turns its verdict into the fate of a
  flow, and two workers apply it while frames of both directions and of
  other flows interleave.

What each part must guarantee.

| Part | Must hold |
|---|---|
| dialling | a failed call leaves no open conn; a returned conn is open, goes to the first address that answered, has no deadline left and a finished handshake; the aggregate error has one entry per address tried, in order; the call returns once the context is done; the goroutine always exits |
| listening | a conn taken from the accept queue is surfaced or closed; a prompt client is served despite silent ones; after `Close` every accept loop stops and holds no conn |
| harness | main stops; both goroutines exit; at return the listener is closed; the topology is closed only after the goroutines on its stacks have returned |
| cmd/dnsping | the loop ends whatever the links lose; `dnsping.pcap` is complete when the process ends |
| DPI rule on a link | exactly the client-to-server TCP flows whose ClientHello names the offending server are throttled, from that packet on; a direction keeps its order; a loss never stops the frames behind it |

## 2. Plan

Modules, in the order they are written.

1. `NetDial` (done): the dialling half of the facade, the core of what the
   repository's own source holds.
2. `NetListenTLS` (done): the listening half.
3. `NDT0Harness` (done): cmd/throttle and the tests' harness, composed with
   `NetListenTLS` through `INSTANCE`.
4. `DPIThrottle` (done): `Filter` from `src/unnamed/part_002`, with the DPI
   engine's verdict cache and the link's workers from `spec.md` 4.3 and 4.5.
   Delay and loss are per direction, as `LinkConfig` has them. Left out:
   the `SPOOF_RST` branch of the worker, whose rule is not in `src/`.
5. `Topology` (done as far as `src/` uses it): `Close` as cmd/throttle and
   cmd/dnsping call it, in `NDT0Harness` and `DNSPing`; in `DNSPing` with
   its phases (signal the workers, wait for them, flush the taps), so that
   after `Close` no worker runs.
6. `Router`: not written, see section 7.
7. `DNSPing` (done): the loop of cmd/dnsping, with links that lose, composed
   through `INSTANCE` with `PCAPDumper` (done), the NIC wrapper of
   `spec.md` 4.4 on the client's link, and with the two workers of that
   link as actors.
8. `DialCall` (done): the contract of a dial (a call returns once, one open
   conn or one error, and nothing is left open or touched afterwards), which
   `NetDial` implements under a refinement mapping.
9. `NDT0Harness` for the tests (done): the five tests that run the NDT0
   pair are programs of the same module, their test cases initial states.
   Not written: the harness over the link, see section 7.

The engine and the link of module 4 and the topology of module 5 are modelled
from the specification, their source not being in `src/`; the map marks those
definitions.

## 3. Modules and the code

### NetDial (`src/unnamed/part_000` 25-135)

One behaviour is one call. `req` fixes the call: `tls` (DialTLSContext or
DialContext), `form` of the address (malformed, IP literal, domain),
`hasDeadline`, and whether the context is already cancelled at entry.

| Variable | Code |
|---|---|
| `pc` | where the caller is: `start`, `dial` (the loop of line 77), `handshake` (line 105), `select` (line 123), `returned` |
| `addresses`, `next`, `errlist` | `addresses`, the loop's position, `errlist.Errors` |
| `conn`, `deadlineSet` | the `net.Conn` of line 79 and whether `tc.SetDeadline` is in force |
| `errch`, `bg`, `bgErr` | `errch` (capacity `ErrchCap`), the goroutine of line 120 and what `HandshakeContext` returned to it |
| `ctx`, `deadlinePassed` | the context, and the clock having reached its deadline |
| `result` | what the call returned |
| `stackCalls` | history: calls into the stack |

| Action | Code |
|---|---|
| `SplitHostPortFails`, `UseLiteralIP`, `LookupHostFails`, `LookupHostSucceeds` | lines 58-73 |
| `DialFails`, `DialSucceeds`, `DialExhausted` | one turn of the loop of lines 77-85; line 87 |
| `StartHandshake` | lines 100-105, 115-122 |
| `SelectCtxDone`, `SelectErrch` | the two cases of the select, each followed by the deferred `SetDeadline(time.Time{})` and by lines 106-110 (`FinishHandshake`) |
| `HandshakeAnswered`, `HandshakeInterrupted`, `HandshakeOnClosedConn`, `HandshakeTimesOut` | the ways `tc.HandshakeContext(ctx)` returns inside the goroutine |
| `SendResult` | `errch <- ...` |
| `CtxCancel`, `DeadlineArrives`, `CtxExpires` | the owner of the context and the clock |

The stack's answers are nondeterministic (`LookupOutcomes`, `DialOutcomes`):
an error, or success; with a context that is done, the context's error. A
lookup may return any sequence of distinct addresses of `Addrs`, the empty one
included, since `LookupHost` passes on whatever the resolver returns.

### DialCall, and NetDial as its implementation

`DialCall` is what a caller of `DialContext` or `DialTLSContext` may rely on,
the inside of the call left out: `outcome` is pending, `ok` or the error
returned, `socket` the connection of the call. Its steps are `Connect`,
`Abandon` (the conn is closed while the call is pending), `Succeed` and
`Fail`, which closes what is open. Once `outcome` is set no step is left.

`NetDial` instantiates it as `Contract`, with `outcome <- Outcome` (pending
until `pc = "returned"`, then `ok` or `result.err`) and
`socket <- conn.state`. `ImplementsDialCall` is `Contract!Spec`: every step
of `NetDial` is a step of `DialCall` or changes nothing the caller sees. The
steps of the goroutine after the select has returned are the ones that have
to be of the second kind.

### NetListenTLS (`src/unnamed/part_000` 143-202)

`Acceptors` are goroutines that call `Accept` in a loop, `Clients` the peers.
`kind[c]` fixes how client `c` behaves in the handshake: `prompt`, `bad`
(the handshake fails) or `silent` (nothing arrives; only the ceiling ends it).
`sconn[c]` is the server side of the client's connection: `none`, `queued` in
the stack's accept queue (`backlog`), `accepted` (inside `Accept`),
`surfaced` (returned to the caller) or `closed`.

| Action | Code |
|---|---|
| `ListenTLS`, `ListenTLSFails` | lines 155-166, the error return of 157-159 |
| `AcceptConn`, `AcceptFails` | lines 179-186 |
| `HandshakeSucceeds`, `HandshakeFails`, `HandshakeTimesOut` | lines 185-191 |
| `Close` | line 201; the stack releases what is still queued |

### NDT0Harness (`src/cmd/throttle/main.go`, `src/integration_test.go`)

`Programs` lists main's blocking statements in source order for each
harness:

| Program | Source | Order |
|---|---|---|
| `ThrottleMain` | cmd/throttle | the client's error, the server's, the explicit `topology.Close()`; the listener is closed only in a defer |
| `TestLinkPLR` | TestLinkPLR, TestDPITCPThrottleForSNI | the client's error, then the server's; the listener is closed only in a defer |
| `TestResetForSNI` | TestDPITCPResetForSNI, TestDPITCPDropForEndpoint | `listener.Close()`, the server's error, the client's |
| `TestDropForSNI` | TestDPITCPDropForSNI | the server's error, then the client's; the listener is closed only in a defer |

`tc` is the test case, chosen in `Init` among `TestCases`: the program, and
what the case expects (`expectSamples`, `expectServerErr`,
`expectClientErr`, as in the `testcase` structs). `Checked` is the assertion
after a receive: a test whose case expected something else ends in
`t.Fatal`, which runs the defers; cmd/throttle asserts nothing. `errors.Is`
is equality of the error kinds. `Endings`: the tests that measure a median
pass or fail on it. `pc` indexes the program; `exit` says how main ended. `Stop` runs the deferred `listener.Close()`,
`topology.Close()` and `cancel()`; `topology` counts the calls of
`topology.Close()`, the explicit one of `main.go:117` (`CloseTopology`)
included.
The server goroutine listens, sends the listener on `ready`, accepts once
through `NetListenTLS` (instantiated with one acceptor and one client), serves
until the context is done and posts one error on `errch`. The client goroutine
dials, hands samples to main over the unbuffered `perfch`, posts one error on
`clientErrch` and closes `perfch` last (the test's comment at line 679: when
the range ends "the client has exited"). TestLinkPLR and
TestDPITCPDropForEndpoint run the pair without TLS; the model lets every
program accept through the TLS listener, whose behaviours include those of a
plain one (a client that connects and is served at once). The steps of the two `RunNDT0*`
functions are modelled from their use in the tests and are marked so in the
map; the errors they post are those the tests expect.

### DPIThrottle (`src/unnamed/part_002`; `spec.md` 4.3, 4.5)

A packet is the flow it belongs to (protocol and address pair) and the server
name that `parseTLSServerName` finds in it, or `NoSNI` when it fails (no
ClientHello, or one that does not fit in the packet). A frame is named by its
direction and its position in `sent`, what the source stack emitted.

| Definition | Code or specification |
|---|---|
| `Filter`, `ThrottlePolicy`, `NoPolicy` | `Filter`, lines 26-64: the short circuits for the return path, for protocols other than TCP and for a failed parse, the comparison with `r.SNI`, the policy `{Delay: 0, Flags: 0, PLR: r.PLR}` |
| `Inspect`, `cache` | the engine: the cached verdict of flow and direction, else the rule; a match is cached |
| `Take` | a worker reads the next frame, asks the engine, discards on a `DROP` policy (`Discard`; no rule in `src/` emits one), else draws the loss (`Lose`) or schedules the delivery (`Schedule`) |
| `Deliver`, `WriteFails` | the frame that is due is written to the destination NIC; the worker exits if the peer is closed |
| `Tick` | time passes once all that is due is written; `rem` is the time left to a frame |
| `Start`, `Close`, `ReleaseStack`, `Emit` | the link's lifecycle, the peer's stack going away, a stack emitting a frame |

`LinkDelay` and `LinkPLR` are functions of the direction, the
`LeftToRightDelay`, `RightToLeftDelay`, `LeftToRightPLR` and
`RightToLeftPLR` of `LinkConfig`: a worker adds the policy's delay and loss
to those of its own direction. Loss rates are percentages. A draw is a choice: a frame can be lost when the
rate is above 0 and can pass when it is below 100. Every run uses a rule of
10 percent, where both outcomes exist; the boundary rates of `spec.md`
section 8 (0, and a sum of 100 or more) take one outcome away, so their
behaviours are among those explored, but no run sets them.

### DNSPing (`src/unnamed/part_001`)

| Definition | Code |
|---|---|
| `Setup` | lines 30-42: the hosts, the DNS record and the server; any of these `Must` calls may panic. `Init` is the state after lines 19-20 |
| `SendQuery`, `MorePings`, `NextPing` | the head of the loop (line 46) and the call of line 50 |
| `RoundTripFails` | lines 53-57: the error is printed, and `continue` goes through `idx++` |
| `RoundTripSucceeds` | lines 59-67: the answer parses and is printed, or `Must2` panics |
| `Return`, `Stop` | the end of `main` and the deferred `topology.Close()` of line 20 |
| `WorkerReads`, `ResponseArrives`, `WorkerExits` | the two workers of the client's link (`spec.md` 4.5): one reads the query from the client's NIC, the other writes an answer to it, each passing a copy to the wrapper; a worker that `Close` has signalled exits, and until it does it may still move a frame |
| `ServerAnswers`, `Lose` | the DNS server answering a query, and a worker's draw dropping the query or the answer (both links have a loss rate above zero) |
| `DumperWrites`, `CloseReturns` | the goroutine of the PCAP dumper of line 24, and the inside of `topology.Close()`: the workers are signalled when it begins (`topology = "closing"`); it returns once they have exited and the dumper is drained, and only then are the stacks released |

`wire` holds the datagrams under way, each with its ping and its place (in
the client's NIC, past the client's link, answered, arrived); a round trip
that gave up leaves its datagram there, so an answer can reach the client's NIC
(and the dumper) during a later ping. `printed[i]` is the line printed for
ping `i`. `DNSRoundTrip` is a call into code that is not in `src/`: it
returns the answer of its own query when it has arrived, or an error at any
time.

### PCAPDumper (`spec.md` 4.4)

`Observe(frame)` is the wrapped NIC passing a frame: the copy joins `queue`,
and when the queue holds `QueueCap` copies the eldest is pushed out into
`dropped`. The NIC never waits. `Write` is the writer goroutine moving the
eldest copy to `file`; `Flushed` is what `Close` waits for. `observed` is
history. `DNSPing` instantiates the module for the dumper of the client's
link.

## 4. Runs

| Run | Module, cfg | Result | What it shows |
|---|---|---|---|
| `dial` | `MCNetDial`, `NetDial.cfg` | pass | `NoHalfOpenLeak`: no interleaving of the select, the goroutine and the context leaves a conn open behind an error. `ReturnedConnIsReady`: a returned conn is open, goes to the first address whose dial succeeded, has no deadline left, and its goroutine has delivered a finished handshake. `AggregateMatchesAttempts`: one entry per address, in order, and an already cancelled context is recognisable through `Is`. `ReturnsOnceCtxDone` and `NoGoroutineLeak`, with no help from the peer. `ImplementsDialCall`: the call refines `DialCall`; after the return neither the result nor the conn changes, whatever the goroutine still does. |
| `dial_empty_resolver` | `MCNetDial`, `NetDialEmptyResolver.cfg` | violation | an empty answer of the resolver gives an `ErrDial` with no error in it (`spec.md` section 8 forbids it). |
| `dial_cancelled_entry` | `MCNetDial`, `NetDialCancelledEntry.cfg` | violation | a call entered with a cancelled context still calls the stack (`spec.md` section 8 forbids it). |
| `listen_tls` | `MCNetListenTLS`, `NetListenTLS.cfg` | pass | `NoAcceptedConnLeak`, and `PromptClientsAreServed` thanks to the ceiling. `ClosedListenerWindsDown`: `Close` closes the inner listener only, yet once it has landed every accept loop stops and no conn stays inside `Accept`, even when it lands in the middle of a handshake with a silent client. |
| `harness_test` | `NDT0Harness`, `NDT0HarnessTest.cfg` | pass | programs `TestLinkPLR` and `TestResetForSNI`, every test case: the test stops (`MainEventuallyStops`), both goroutines exit even after a `t.Fatal` (`GoroutinesEventuallyExit`), and at return nothing is left (`CleanReturn`). `TestLinkPLR` reads the server's error with the listener open, as cmd/throttle does, and still stops: a client that failed makes it `t.Fatal` one statement earlier. |
| `throttle_safety` | `NDT0Harness`, `ThrottleCmdSafety.cfg` | pass | cmd/throttle and `TestDropForSNI`, the programs that may wait for the server with the listener open. `CleanReturn` at their return. `TopologyOutlivesGoroutines`: a `topology.Close()` outside a `t.Fatal` finds both goroutines returned, because it follows the two receives of their errors. |
| `throttle_stops` | `NDT0Harness`, `ThrottleCmdStops.cfg` | violation | cmd/throttle hangs at line 111 when the client fails before the server accepts. |
| `throttle_warning` | `NDT0Harness`, `ThrottleCmdWarning.cfg` | violation | line 113 prints the client's error as the server's. |
| `dpi_safety` | `MCDPIThrottle`, `DPIThrottleSafety.cfg` | pass | `OnlyOffendingFlowsAreThrottled`: a flow has a cached policy exactly when it is TCP, client to server, and its ClientHello with the offending name has entered the link. The link loses on the return path only (`RightToLeftPLR`, as in TestLinkPLR): client to server, nothing but the throttled flow is ever lost. `DeliveredInSourceOrder`: throttling one flow reorders nothing in its direction. |
| `dpi_liveness` | `MCDPIThrottle`, `DPIThrottleLiveness.cfg` | pass | `FramesAreDeliveredOrLost`: throttling is not dropping; every frame is delivered or lost by a draw unless the link or the peer is closed. |
| `dpi_filter_once` | `MCDPIThrottle`, `DPIFilterOnce.cfg` | violation | `Filter` is called for every packet of a flow until it matches, not once per flow (`spec.md` section 8). |
| `dnsping` | `DNSPing`, `DNSPing.cfg` | pass | `MainEventuallyStops`: the loop ends after `maxPings` pings even if every datagram is lost, provided `DNSRoundTrip` gives up (section 6). `CaptureIsComplete`: when the process ends, every frame that crossed the client's NIC is in the file or counted as dropped, though the writer lags, the queue overflows, answers of abandoned pings arrive late and `Close` finds a worker with a frame in its hands. |

Findings, in the words of the traces.

- **Empty aggregate** (`part_000:87`). `LookupHostSucceeds` with no address,
  then `DialExhausted`: the call returns `ErrDial{}`.
- **Cancelled entry** (`part_000:79`, `part_000:69`). With
  `ctx0 = "canceled"` and a domain name, `LookupHostFails` calls the stack's
  resolver before `Canceled` comes back; with an IP literal, `DialFails` calls
  the stack's dial once per address. The specification rules out any stack
  call.
- **cmd/throttle hangs** (`main.go:111`). The context expires, the client
  fails its dial, posts its error and closes `perfch`; main reads the client's
  error and waits for the server's; the server is in `Accept` with an empty
  queue and an open listener, and stays there.
- **Wrong error in the warning** (`main.go:113`). The server's handshake
  ceiling passes, the client then sees its conn reset; main warns
  "RunNDT0Server: connection reset" when the server failed on its deadline.

- **Filter is not called once per flow** (`part_002:41`). Two packets of one
  TCP flow without ClientHello (a SYN and an ACK): `Filter` declines both,
  nothing is cached, `filterCalls` reaches 2. Section 8 of the specification
  asks for at most one call per flow; with a rule that needs the ClientHello
  that would mean no flow is ever throttled. Sections 4.2 and 4.3, which
  cache only a match, are what the model follows.

## 5. Bounds

| Bound | Value | Why it is enough |
|---|---|---|
| `Addrs` (`MCNetDial`) | 2 addresses | the loop of `DialContext` needs zero, one and two turns (empty answer, first success, failure then success, total failure); a third address repeats the second |
| `ErrchCap` | 1, as in the code | |
| `Clients`, `Acceptors` (`MCNetListenTLS`) | 3 and 2 | the least that put a prompt client behind as many silent clients as there are accept loops |
| `MaxSamples` (`NDT0Harness`) | 2 | the range over `perfch` runs zero times (the test's `count < 1`), once and again |
| `Harnesses` (`NDT0Harness`) | per run | the programs whose test cases are the initial states. `TestDropForSNI` is left out of the runs that check liveness: in its blocked case the test ends only if the client's SYN reaches the server before the four seconds of the context pass, which its link (100 ms, no loss) ensures and a model without durations cannot tell |
| `stackCalls` | at most 1 + number of addresses | bounded by the loop itself |
| `MaxPings` (`DNSPing`) | 3 | the loop runs with every mix of answered and failed pings, a panic can fall before, between and after them, and the answer of an abandoned ping can arrive during either of the pings after it |
| `QueueCap` (`DNSPing`) | 2 | up to six frames cross the NIC: the queue is empty, partly full, full and overflowing while the writer lags |
| `MaxFrames` (`DPIThrottle`) | 2 per direction | a ClientHello and a frame after it, two frames of different flows (one throttled, one not), a frame before the ClientHello |
| `Conns`, `SNIs` (`MCDPIThrottle`) | one address pair (a TCP and a UDP flow per direction); the offending name and another | every short circuit of `Filter` is taken; the liveness run keeps only the offending name, the other name behaving like no name |
| `LinkDelay`, `LinkPLR`, `RulePLR` | 1 tick each way; 10 percent on the return path in `dpi_safety`, 0 elsewhere; 10 percent | frames are in flight while others are read; the link's own loss and the rule's fall in different directions, so each can be told from the other |

No run uses a state constraint or symmetry: the state spaces are small
(1,388 states for `NetDial`, 6,700 for `NetListenTLS`, about a thousand for the
harness, 59,379 for `DNSPing`, 2,053,528 for `dpi_safety` and 256,286 for `dpi_liveness`) and the
liveness runs would not allow symmetry.

## 6. Fairness

- `NetDial`: weak fairness of the caller's steps (a runnable goroutine runs; a
  call into the stack returns), of the goroutine's send, of a read on a
  closed conn or past the conn's deadline, and of the clock. No fairness for
  the peer, for the owner of the context, or for the TLS library's own watch
  on the context: the call must return without them.
- `NetListenTLS`: weak fairness of each accept loop. A handshake ends
  because the peer acts or because the timer of
  `context.WithTimeout(..., 10*time.Second)` fires. Clients need not connect
  and nobody needs to close the listener.
- `DPIThrottle`: weak fairness of each worker (read, write, exit on a failed
  write) and of the clock: the workers are tasks of a running link and its
  sleeps end. No fairness for the stacks, nor for whoever starts or closes
  the link.
- `NDT0Harness`: weak fairness of main, of the server, of the client's steps
  that need nothing from the network, and of the context's timer (both
  harnesses create the context with a timeout). `ClientConnects` is not
  fair: the SYN may never arrive.

- `DNSPing`: weak fairness of main, of the dumper's writer, of the exit of a signalled worker and of the return of
  `Close` once the workers are gone and the dumper is drained. The
  fairness of main includes `RoundTripFails`: `DNSRoundTrip` is taken to
  return when nothing comes back. The call gets `context.Background()`, so
  the code of cmd/dnsping does not guarantee this by itself; it rests on the
  round trip's own timeout, whose source is not in `src/`. The links are not
  fair: `Lose` may take every datagram.

Deadlock checking is off in every run: a call returns, main stops, a
listener is closed, and the behaviour ends there. Progress is stated as
liveness properties instead.

## 7. Not modelled

- `ErrDial.Error` and all logging: text.
- `LookupCNAME`, `ListenTCP`, `ListenUDP`, `Addr`: one delegated call each,
  no state of the facade.
- The bytes of TLS, TCP and DNS: the facade sees only outcomes.
- Real time: the order of timer events is modelled, durations are not; the
  measured quantities the tests assert (median delay, throughput) are out of a
  model checker's reach.
- In the link: frames that do not dissect, and the `SPOOF_RST` policy,
  which no rule in `src/` emits.
- The router: its source is not in `src/`, and every caller in `src/`
  (`NewStarTopology`, `AddHost` in cmd/dnsping and the tests) has attached
  all hosts before the first frame is sent. The forwarding table is written
  by one goroutine and only read afterwards; a model would have one writer
  and nothing for it to race with.
- The construction of a topology (`NewPPPTopology`, `NewStarTopology`,
  `AddHost`): sequential calls of main. Of `Close`, the phases are modelled
  in `DNSPing`; the order in which the links of a star are closed is not,
  since `spec.md` leaves it open.
- The harness over the link: a ClientHello crossing `DPIThrottle` and
  deciding the `kind` of client that `NetListenTLS` sees. The product of the
  two state spaces is too large to explore exhaustively (`dpi_safety`
  alone has two million states), and `NDT0Harness` already
  takes every `kind` of client the link can produce as an alternative.
- The bodies of TestLinkLatency, TestRoutingWorksDNS, TestRoutingWorksHTTPS
  and TestLinkPCAP: one goroutine that dials, times and compares. What
  TestLinkPCAP relies on is `CaptureIsComplete`.
- Of the PCAP tap: the encoding of the file, and a wrapper on the right NIC
  of a link.
- `DNSRoundTrip`, `DNSParseResponse` and the DNS server: collaborators
  whose source is not in `src/`; `DNSPing` keeps their outcomes.
