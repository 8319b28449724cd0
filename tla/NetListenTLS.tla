---------------------------- MODULE NetListenTLS ----------------------------
(***************************************************************************)
(* The listening half of the host network facade: Net.ListenTLS and the    *)
(* netListenerTLS it returns (Accept, Close).                              *)
(*                                                                         *)
(* Accept takes one connection from the stack's listener and runs the      *)
(* server side of the TLS handshake before it returns, under a ten second  *)
(* ceiling.  The accept loop of a server is therefore serial: while one    *)
(* client is being handshaken, the clients behind it wait in the stack's   *)
(* accept queue.                                                           *)
(*                                                                         *)
(* Actors: the goroutines that call Accept in a loop (Acceptors), the      *)
(* clients that connect (Clients), and whoever closes the listener.        *)
(***************************************************************************)
EXTENDS Naturals, Sequences, FiniteSets

CONSTANTS
    Clients,    \* the peers that connect to the listener
    Acceptors,  \* the goroutines that call Accept
    None        \* no client

ASSUME /\ Clients # {} /\ IsFiniteSet(Clients)
       /\ Acceptors # {} /\ IsFiniteSet(Acceptors)
       /\ None \notin Clients

(***************************************************************************)
(* How a client behaves once its connection is established:                *)
(*   "prompt"  it completes the handshake within the ceiling;              *)
(*   "bad"     it makes the handshake fail (wrong protocol, reset);        *)
(*   "silent"  it sends nothing, or what it sends is dropped on the link.  *)
(***************************************************************************)
Kinds == {"prompt", "bad", "silent"}

VARIABLES
    listener,   \* lw.listener: "none", "open", "closed", or "failed" to listen
    backlog,    \* the stack's accept queue: established, not yet accepted
    kind,       \* how each client behaves
    sconn,      \* the server side of each client's connection
    acc,        \* where each acceptor is
    cur         \* the client whose connection an acceptor is handshaking

vars == <<listener, backlog, kind, sconn, acc, cur>>

-----------------------------------------------------------------------------
(* Net.ListenTLS *)

\* n.ListenTCP succeeds: the TCP listener is wrapped.
ListenTLS ==
    /\ listener = "none"
    /\ listener' = "open"
    /\ UNCHANGED <<backlog, kind, sconn, acc, cur>>

\* n.ListenTCP fails: ListenTLS returns the error and there is no listener.
ListenTLSFails ==
    /\ listener = "none"
    /\ listener' = "failed"
    /\ UNCHANGED <<backlog, kind, sconn, acc, cur>>

-----------------------------------------------------------------------------
(* The clients and the stack's accept queue *)

\* A client's TCP connection is established and waits to be accepted.
Connect(c) ==
    /\ listener = "open"
    /\ sconn[c] = "none"
    /\ sconn' = [sconn EXCEPT ![c] = "queued"]
    /\ backlog' = Append(backlog, c)
    /\ UNCHANGED <<listener, kind, acc, cur>>

-----------------------------------------------------------------------------
(* netListenerTLS.Accept *)

\* lw.listener.Accept() returns a conn: tls.Server wraps it and the handshake
\* starts under context.WithTimeout(context.Background(), 10*time.Second).
AcceptConn(a) ==
    /\ listener = "open"
    /\ acc[a] = "accepting"
    /\ backlog # <<>>
    /\ cur' = [cur EXCEPT ![a] = Head(backlog)]
    /\ backlog' = Tail(backlog)
    /\ sconn' = [sconn EXCEPT ![Head(backlog)] = "accepted"]
    /\ acc' = [acc EXCEPT ![a] = "handshaking"]
    /\ UNCHANGED <<listener, kind>>

AcceptRetries(a) ==
    listener = "closed" /\ acc[a] = "accepting" /\ UNCHANGED vars

\* lw.listener.Accept() returns an error: the listener was closed.
AcceptFails(a) ==
    /\ listener = "closed"
    /\ acc[a] = "accepting"
    /\ acc' = [acc EXCEPT ![a] = "stopped"]
    /\ UNCHANGED <<listener, backlog, kind, sconn, cur>>

\* Acceptor a runs tc.HandshakeContext(ctx) with a client of kind k.
Handshaking(a, k) == acc[a] = "handshaking" /\ kind[cur[a]] = k

\* Accept returns: the acceptor's loop calls it again.
AcceptReturns(a, state) ==
    /\ sconn' = [sconn EXCEPT ![cur[a]] = state]
    /\ cur' = [cur EXCEPT ![a] = None]
    /\ acc' = [acc EXCEPT ![a] = "accepting"]
    /\ UNCHANGED <<listener, backlog, kind>>

ConnLeftOpen == "accepted"

ConnHalfClosed == "half_closed"

\* if err := tc.HandshakeContext(ctx); err != nil { conn.Close() ... }
ConnAfterFailedHandshake == "closed"

\* tc.HandshakeContext(ctx) returns nil: Accept returns tc.
HandshakeSucceeds(a) ==
    /\ Handshaking(a, "prompt")
    /\ AcceptReturns(a, "surfaced")

\* tc.HandshakeContext(ctx) returns the peer's failure.
HandshakeFails(a) ==
    /\ Handshaking(a, "bad")
    /\ AcceptReturns(a, ConnAfterFailedHandshake)

NoCeiling(a) == FALSE

\* The ten seconds pass with the handshake unanswered: HandshakeContext
\* returns the deadline error.
HandshakeTimesOut(a) ==
    /\ Handshaking(a, "silent")
    /\ AcceptReturns(a, ConnAfterFailedHandshake)

-----------------------------------------------------------------------------
(* netListenerTLS.Close *)

\* lw.listener.Close(): the stack releases the connections nobody accepted.
\* A handshake that Accept is running is not touched.
Close ==
    /\ listener = "open"
    /\ listener' = "closed"
    /\ sconn' = [c \in Clients |-> IF sconn[c] = "queued" THEN "closed" ELSE sconn[c]]
    /\ backlog' = <<>>
    /\ UNCHANGED <<kind, acc, cur>>

-----------------------------------------------------------------------------
(* The specification *)

Init ==
    /\ listener = "none"
    /\ backlog = <<>>
    /\ kind \in [Clients -> Kinds]
    /\ sconn = [c \in Clients |-> "none"]
    /\ acc = [a \in Acceptors |-> "accepting"]
    /\ cur = [a \in Acceptors |-> None]

Accept(a) ==
    \/ AcceptConn(a)
    \/ AcceptFails(a)
    \/ HandshakeSucceeds(a)
    \/ HandshakeFails(a)
    \/ HandshakeTimesOut(a)

Next ==
    \/ ListenTLS
    \/ ListenTLSFails
    \/ \E c \in Clients : Connect(c)
    \/ \E a \in Acceptors : Accept(a)
    \/ Close

Spec == Init /\ [][Next]_vars

(***************************************************************************)
(* Fairness.  An acceptor is a goroutine of the server: when it can take a *)
(* step it eventually does.  A handshake with a prompt or a bad client     *)
(* ends because the client acts within the ceiling, one with a silent      *)
(* client because the ceiling's timer fires.  Clients need not connect and *)
(* nobody needs to close the listener.                                     *)
(***************************************************************************)
FairSpec == Spec /\ \A a \in Acceptors : WF_vars(Accept(a))

-----------------------------------------------------------------------------
(* Properties *)

\* The type invariant: the listener, the accept queue, every connection and
\* every acceptor of Accept's loop are in one of their named states.
TypeOK ==
    /\ listener \in {"none", "open", "closed", "failed"}
    /\ backlog \in Seq(Clients)
    /\ kind \in [Clients -> Kinds]
    /\ sconn \in [Clients -> {"none", "queued", "accepted", "surfaced", "closed"}]
    /\ acc \in [Acceptors -> {"accepting", "handshaking", "stopped"}]
    /\ cur \in [Acceptors -> Clients \cup {None}]

\* Partial success never leaks on the server side: a connection that Accept
\* took from the stack and did not return to its caller is closed.  At any
\* time, a connection in the accepted state is the one some acceptor is
\* handshaking right now; the connections waiting in the accept queue are
\* exactly the queued ones, so that Close can release them.
NoAcceptedConnLeak ==
    /\ \A c \in Clients :
        sconn[c] = "accepted" =>
            \E a \in Acceptors : acc[a] = "handshaking" /\ cur[a] = c
    /\ \A c \in Clients :
        sconn[c] = "queued" <=> \E i \in DOMAIN backlog : backlog[i] = c

\* The ten second ceiling bounds head-of-line blocking: a client that
\* completes its handshake promptly is eventually returned by Accept (or
\* released by Close), however many silent or failing clients connected
\* before it and hold the serial accept loop.
PromptClientsAreServed ==
    \A c \in Clients :
        (kind[c] = "prompt" /\ sconn[c] = "queued")
            ~> (sconn[c] \in {"surfaced", "closed"} \/ listener = "closed")

\* Close does not reach into Accept: it closes the inner listener only, and
\* a handshake that is running when Close lands goes on under its own
\* context.  The listener still winds down: every accept loop comes to see
\* the closed listener and stops, and no connection stays in the hands of
\* Accept, though the client it is handshaking with may never say a word.
ClosedListenerWindsDown ==
    listener = "closed"
        ~> /\ \A a \in Acceptors : acc[a] = "stopped"
           /\ \A c \in Clients : sconn[c] \notin {"queued", "accepted"}

=============================================================================
