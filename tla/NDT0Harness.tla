---------------------------- MODULE NDT0Harness ----------------------------
(***************************************************************************)
(* The goroutine that runs an NDT0 measurement between two stacks: main of *)
(* cmd/throttle, and the same harness as the integration tests write it.   *)
(* It starts RunNDT0Server and RunNDT0Client, drains the client's samples, *)
(* and collects one error from each over buffered channels.  The tests     *)
(* differ in the order of their receives, in whether they close the        *)
(* listener first, and in what each test case expects to receive.          *)
(*                                                                         *)
(* The server accepts through netListenerTLS.Accept, which this module     *)
(* takes from NetListenTLS: one acceptor (the server), one client.         *)
(***************************************************************************)
EXTENDS Naturals, Sequences

CONSTANTS
    Harnesses,   \* the programs of this run: "throttle" is cmd/throttle, the
                 \* others are tests ("LinkPLR", "ResetForSNI", "DropForSNI")
    MaxSamples,  \* bound: the samples the client emits at most
    None         \* no client, for NetListenTLS

Client == "client"
Server == "server"
Nil    == "nil"
Unset  == "unset"

VARIABLES
    tc,                     \* the test case: the program and what it expects
    pc, exit,               \* main: its step, and how it ended ("no": it runs)
    errClient, errServer,   \* main: what it read from the two error channels
    warned,                 \* main: the error its RunNDT0Server warning showed
    topology,               \* the calls of topology.Close() so far
    ctx,                    \* the context with a timeout: "active" or "done"
    ready, errch, clientErrch, perfchClosed, samples,   \* the channels
    srv, srvErr, cli, cliErr,                           \* the two goroutines
    listener, backlog, kind, sconn, acc, cur            \* NetListenTLS

main   == <<tc, pc, exit, errClient, errServer, warned, topology>>
chans  == <<ready, errch, clientErrch, perfchClosed, samples>>
server == <<srv, srvErr>>
client == <<cli, cliErr>>
tls    == <<listener, backlog, kind, sconn, acc, cur>>
vars   == <<main, ctx, chans, server, client, tls>>

L == INSTANCE NetListenTLS WITH Clients <- {Client}, Acceptors <- {Server}

\* The blocking statements of each harness, in the order of its source.
ThrottleClosesEarly ==
    <<"wait_ready", "drain", "wait_client", "close_topology", "wait_server",
      "return">>

ThrottleMain ==
    <<"wait_ready", "drain", "wait_client", "wait_server", "close_topology",
      "return">>

\* TestLinkPLR, and TestDPITCPThrottleForSNI after it.
TestLinkPLR == <<"wait_ready", "drain", "wait_client", "wait_server", "return">>

\* TestDPITCPResetForSNI, and TestDPITCPDropForEndpoint after it.
TestResetForSNI ==
    <<"wait_ready", "drain", "close_listener", "wait_server", "wait_client",
      "return">>

TestDropForSNI == <<"wait_ready", "drain", "wait_server", "wait_client", "return">>

Programs ==
    [throttle |-> ThrottleMain, LinkPLR |-> TestLinkPLR,
     ResetForSNI |-> TestResetForSNI, DropForSNI |-> TestDropForSNI]

Case(program, expectSamples, serverErr, clientErr) ==
    [program |-> program, expectSamples |-> expectSamples,
     expectServerErr |-> serverErr, expectClientErr |-> clientErr]

\* The case every test has: the rule does not match, the measurement runs.
Unhindered(program) == Case(program, TRUE, Nil, Nil)

\* len(speeds) < 1, err != nil: what TestLinkPLR insists on.
CasesLinkPLR == {Unhindered("LinkPLR")}

CasesResetForSNI ==
    {Case("ResetForSNI", FALSE, "ECONNRESET", "ECONNRESET"),
     Unhindered("ResetForSNI")}

\* The listener is closed under the server, whose Accept returns EINVAL.
CasesDropForEndpoint ==
    {Case("ResetForSNI", FALSE, "EINVAL", "DeadlineExceeded"),
     Unhindered("ResetForSNI")}

CasesDropForSNI ==
    {Case("DropForSNI", FALSE, "DeadlineExceeded", "DeadlineExceeded"),
     Unhindered("DropForSNI")}

\* cmd/throttle asserts nothing before its Must0 calls.
TestCases ==
    {Case("throttle", FALSE, Unset, Unset)} \cup CasesLinkPLR
        \cup CasesResetForSNI \cup CasesDropForEndpoint \cup CasesDropForSNI

ErrchCap == 1

ClientErrchUnbuffered == 0

ClientErrchCap == 1

-----------------------------------------------------------------------------
(* main *)

At(step) == exit = "no" /\ Programs[tc.program][pc] = step

ListenerLeftOpen == UNCHANGED tls

\* listener.Close(): the second close of a listener changes nothing.
CloseListener == L!Close \/ (listener # "open" /\ UNCHANGED tls)

\* topology.Close(): the links, then the stacks; a second call finds them gone.
TopologyClose == topology' = topology + 1

StopWithoutDefers(how) == exit' = how /\ UNCHANGED <<tc, tls, ctx, topology>>

\* main ends, by return, panic or t.Fatal: the deferred listener.Close(),
\* topology.Close() and cancel() run.
Stop(how) ==
    exit' = how /\ CloseListener /\ TopologyClose /\ ctx' = "done" /\ UNCHANGED tc

Advance == pc' = pc + 1 /\ UNCHANGED <<tc, exit, tls, ctx, topology>>

\* What follows a receive: the next statement, or in a test a t.Fatal when
\* what was received is not what the test case expects.
Checked(unexpected) ==
    LET fatal == tc.program # "throttle" /\ unexpected
    IN  \/ ~fatal /\ Advance
        \/ fatal /\ Stop("failed") /\ UNCHANGED pc

\* listener := <-ready, then go RunNDT0Client(...).
WaitReady ==
    /\ At("wait_ready") /\ ready
    /\ ready' = FALSE /\ cli' = "dialing" /\ Advance
    /\ UNCHANGED <<errClient, errServer, warned, errch, clientErrch,
                   perfchClosed, samples, server, cliErr>>

\* One turn of for sample := range perfch.  perfch has no buffer: the client's
\* send and main's receive are one step.
EmitSample ==
    /\ At("drain") /\ cli = "running" /\ samples < MaxSamples
    /\ samples' = samples + 1
    /\ UNCHANGED <<main, ctx, ready, errch, clientErrch, perfchClosed,
                   server, client, tls>>

\* perfch is closed: the range ends; the test wants at least one sample.
DrainEnds ==
    /\ At("drain") /\ perfchClosed
    /\ Checked(tc.expectSamples /\ samples = 0)
    /\ UNCHANGED <<errClient, errServer, warned, chans, server, client>>

\* The test unblocks a server that may be stuck in Accept.
CloseListenerStep ==
    /\ At("close_listener")
    /\ CloseListener /\ pc' = pc + 1
    /\ UNCHANGED <<tc, exit, errClient, errServer, warned, topology, ctx, chans,
                   server, client>>

\* errClient := <-clientErrch, and the warning that shows it.
WaitClient ==
    /\ At("wait_client") /\ clientErrch # <<>>
    /\ errClient' = Head(clientErrch) /\ clientErrch' = Tail(clientErrch)
    /\ Checked(Head(clientErrch) # tc.expectClientErr)
    /\ UNCHANGED <<errServer, warned, ready, errch, perfchClosed, samples,
                   server, client>>

\* log.Warnf("RunNDT0Server: %s", errClient.Error())
ServerWarning == errClient

\* errServer := <-errch, and in cmd/throttle the warning when it is not nil.
WaitServer ==
    /\ At("wait_server") /\ errch # <<>>
    /\ errServer' = Head(errch) /\ errch' = Tail(errch)
    /\ warned' = IF tc.program = "throttle" /\ Head(errch) # Nil
                 THEN ServerWarning ELSE warned
    /\ Checked(Head(errch) # tc.expectServerErr)
    /\ UNCHANGED <<errClient, ready, clientErrch, perfchClosed, samples,
                   server, client>>

\* The explicit topology.Close(), which waits for the PCAP dumper; the
\* deferred listener.Close() and topology.Close() are still to come.
CloseTopology ==
    /\ At("close_topology")
    /\ TopologyClose /\ pc' = pc + 1
    /\ UNCHANGED <<tc, exit, errClient, errServer, warned, ctx, chans, server,
                   client, tls>>

\* How main ends: the Must0 calls of cmd/throttle panic on an error; the
\* tests that measure a median end on what it is; the others return.
Endings ==
    CASE tc.program = "throttle" ->
             IF {errClient, errServer} = {Nil} THEN {"returned"} ELSE {"panicked"}
      [] tc.program = "LinkPLR" -> {"returned", "failed"}
      [] OTHER -> {"returned"}

Return ==
    /\ At("return")
    /\ \E how \in Endings : Stop(how)
    /\ UNCHANGED <<pc, errClient, errServer, warned, chans, server, client>>

Main ==
    \/ WaitReady \/ EmitSample \/ DrainEnds \/ CloseListenerStep
    \/ WaitClient \/ WaitServer \/ CloseTopology \/ Return

-----------------------------------------------------------------------------
(* RunNDT0Server: listen, ready <- listener, Accept once, serve, errch <- err *)

ServerListens ==
    /\ srv = "start" /\ L!ListenTLS
    /\ ready' = TRUE /\ srv' = "accept"
    /\ UNCHANGED <<main, ctx, errch, clientErrch, perfchClosed, samples,
                   srvErr, client>>

ServerAccepts ==
    /\ srv = "accept" /\ L!AcceptConn(Server)
    /\ UNCHANGED <<main, ctx, chans, server, client>>

ServerHandshakeOK ==
    /\ srv = "accept" /\ L!HandshakeSucceeds(Server)
    /\ srv' = "serve"
    /\ UNCHANGED <<main, ctx, chans, srvErr, client>>

\* Accept returns an error: the listener was closed under it, the client reset
\* the handshake, or the ten second ceiling passed.
ServerAcceptFails ==
    /\ srv = "accept"
    /\ \/ L!AcceptFails(Server) /\ srvErr' = "EINVAL"
       \/ L!HandshakeFails(Server) /\ srvErr' = "ECONNRESET"
       \/ L!HandshakeTimesOut(Server) /\ srvErr' = "DeadlineExceeded"
    /\ srv' = "post"
    /\ UNCHANGED <<main, ctx, chans, client>>

\* The measurement ends with the context.
ServerStops ==
    /\ srv = "serve" /\ ctx = "done"
    /\ srvErr' = Nil /\ srv' = "post"
    /\ UNCHANGED <<main, ctx, chans, client, tls>>

ServerPosts ==
    /\ srv = "post" /\ Len(errch) < ErrchCap
    /\ errch' = Append(errch, srvErr) /\ srv' = "done"
    /\ UNCHANGED <<main, ctx, ready, clientErrch, perfchClosed, samples,
                   srvErr, client, tls>>

ServerStep ==
    \/ ServerListens \/ ServerAccepts \/ ServerHandshakeOK
    \/ ServerAcceptFails \/ ServerStops \/ ServerPosts

-----------------------------------------------------------------------------
(* RunNDT0Client: DialTLSContext, samples on perfch, errorch <- err, and    *)
(* close(perfch) as its last act                                           *)

ClientGoesTo(state, err) ==
    /\ cli' = state /\ cliErr' = err
    /\ UNCHANGED <<main, ctx, chans, server>>

\* The context is done before the connection is made.
ClientDialFails ==
    /\ cli = "dialing" /\ ctx = "done"
    /\ ClientGoesTo("post", "DeadlineExceeded") /\ UNCHANGED tls

\* The SYN reaches the server's stack.
ClientConnects ==
    /\ cli = "dialing" /\ ctx = "active"
    /\ L!Connect(Client) /\ ClientGoesTo("handshaking", cliErr)

ClientHandshakeOK ==
    /\ cli = "handshaking" /\ sconn[Client] = "surfaced"
    /\ ClientGoesTo("running", cliErr) /\ UNCHANGED tls

\* tlsHandshake fails: the server gave the connection up, the context is done,
\* or the deadline that tlsHandshake set on the conn passed first.
ClientHandshakeFails ==
    /\ cli = "handshaking"
    /\ \/ sconn[Client] = "closed" /\ ClientGoesTo("post", "ECONNRESET")
       \/ ctx = "done" /\ \E e \in {"DeadlineExceeded", "Timeout"} :
                              ClientGoesTo("post", e)
    /\ UNCHANGED tls

ClientStops ==
    /\ cli = "running" /\ ctx = "done"
    /\ ClientGoesTo("post", Nil) /\ UNCHANGED tls

\* errorch <- err: nobody receives while main still ranges over perfch, so the
\* send completes only into the buffer.
ClientPosts ==
    /\ cli = "post" /\ Len(clientErrch) < ClientErrchCap
    /\ clientErrch' = Append(clientErrch, cliErr) /\ cli' = "closing"
    /\ UNCHANGED <<main, ctx, ready, errch, perfchClosed, samples, server,
                   cliErr, tls>>

ClientClosesPerfch ==
    /\ cli = "closing"
    /\ perfchClosed' = TRUE /\ cli' = "done"
    /\ UNCHANGED <<main, ctx, ready, errch, clientErrch, samples, server,
                   cliErr, tls>>

\* The client's steps that need nothing from the network.
ClientStep ==
    \/ ClientDialFails \/ ClientHandshakeOK \/ ClientHandshakeFails
    \/ ClientStops \/ ClientPosts \/ ClientClosesPerfch

\* context.WithTimeout: the timer fires.
CtxExpires ==
    /\ ctx = "active" /\ ctx' = "done"
    /\ UNCHANGED <<main, chans, server, client, tls>>

-----------------------------------------------------------------------------
(* The specification *)

Init ==
    /\ tc \in {c \in TestCases : c.program \in Harnesses}
    /\ pc = 1 /\ exit = "no"
    /\ errClient = Unset /\ errServer = Unset /\ warned = Unset
    /\ ctx = "active" /\ topology = 0
    /\ ready = FALSE /\ errch = <<>> /\ clientErrch = <<>>
    /\ perfchClosed = FALSE /\ samples = 0
    /\ srv = "start" /\ srvErr = Nil /\ cli = "idle" /\ cliErr = Nil
    /\ L!Init

Next == Main \/ ServerStep \/ ClientConnects \/ ClientStep \/ CtxExpires

Spec == Init /\ [][Next]_vars

(***************************************************************************)
(* Fairness.  The three goroutines are scheduled, the timer of the context *)
(* fires, and a handshake ends as in NetListenTLS.  The network owes       *)
(* nothing: the client's SYN may never reach the server.                   *)
(***************************************************************************)
FairSpec ==
    Spec /\ WF_vars(Main) /\ WF_vars(ServerStep) /\ WF_vars(ClientStep)
         /\ WF_vars(CtxExpires)

-----------------------------------------------------------------------------
(* Properties *)

Errs == {Nil, "EINVAL", "ECONNRESET", "DeadlineExceeded", "Timeout"}

\* The type invariant: main is at a statement of its program, every channel
\* holds at most its capacity, and the listener is in a state of NetListenTLS.
TypeOK ==
    /\ tc \in TestCases /\ pc \in DOMAIN Programs[tc.program]
    /\ exit \in {"no", "returned", "panicked", "failed"}
    /\ {errClient, errServer, warned} \subseteq Errs \cup {Unset}
    /\ ctx \in {"active", "done"} /\ topology \in 0..2
    /\ ready \in BOOLEAN /\ perfchClosed \in BOOLEAN /\ samples \in 0..MaxSamples
    /\ errch \in Seq(Errs) /\ Len(errch) <= ErrchCap
    /\ clientErrch \in Seq(Errs) /\ Len(clientErrch) <= ClientErrchCap
    /\ srv \in {"start", "accept", "serve", "post", "done"}
    /\ cli \in {"idle", "dialing", "handshaking", "running", "post", "closing", "done"}
    /\ {srvErr, cliErr} \subseteq Errs
    /\ L!TypeOK

\* When main gets to its last statement (the end of the test, the Must0 calls
\* of cmd/throttle), both goroutines have finished, the listener is closed and
\* no connection is left in the accept queue or inside a handshake.
CleanReturn ==
    exit \in {"returned", "panicked"} =>
        /\ srv = "done" /\ cli = "done"
        /\ listener = "closed"
        /\ sconn[Client] \notin {"queued", "accepted"}

\* The topology outlives the goroutines that run on its stacks: when main
\* gets past its receives and calls topology.Close() (cmd/throttle, before
\* the deferred one), RunNDT0Server and RunNDT0Client have both returned, so
\* neither is left reading or writing a stack that was torn down.  Only a
\* t.Fatal closes the topology under them.
TopologyOutlivesGoroutines ==
    topology > 0 /\ exit # "failed" => srv = "done" /\ cli = "done"

\* The harness ends, whatever the network does to the client: main gets out
\* of the range over perfch and of its two receives (main.go: "make sure we
\* will eventually stop").
MainEventuallyStops == <>(exit # "no")

\* Neither goroutine is left running for ever, even when main ends early on a
\* t.Fatal: the deferred listener.Close() and cancel() release them.
GoroutinesEventuallyExit == <>(srv = "done" /\ cli = "done")

\* The warning about RunNDT0Server shows the error that RunNDT0Server
\* returned (cmd/throttle, after errServer := <-errch).
ServerWarningShowsServerError == warned # Unset => warned = errServer

=============================================================================
