------------------------------ MODULE NetDial ------------------------------
(***************************************************************************)
(* The dialling half of the host network facade: Net.DialContext,          *)
(* Net.DialTLSContext, Net.tlsHandshake and Net.LookupHost.                *)
(*                                                                         *)
(* One behaviour is one call.  Three actors take steps:                    *)
(*   - the caller, which runs DialContext / DialTLSContext;                *)
(*   - the background goroutine that tlsHandshake starts to run            *)
(*     tc.HandshakeContext and to post its result on errch;                *)
(*   - the environment: the owner of the context (cancel), the clock (the  *)
(*     deadline arrives, the context's timer fires) and the peer (the      *)
(*     handshake is answered, or never is).                                *)
(* The underlying stack is called synchronously by the caller; what it     *)
(* returns is a nondeterministic choice constrained by the context.        *)
(***************************************************************************)
EXTENDS Naturals, Sequences, SequencesExt

CONSTANTS
    Addrs       \* the IP addresses a name may resolve to

ASSUME Addrs # {}

VARIABLES
    req,            \* the call: which method, which kind of address, which context
    pc,             \* where the caller is
    ctx,            \* the context: "active", "canceled" or "deadlineExceeded"
    deadlinePassed, \* the clock has reached the context's deadline
    addresses,      \* DialContext's addresses
    next,           \* index of the address the loop of DialContext tries next
    errlist,        \* DialContext's errlist.Errors
    conn,           \* the net.Conn the stack returned, and the address it goes to
    deadlineSet,    \* tc carries the context's deadline (tc.SetDeadline)
    errch,          \* tlsHandshake's errch
    bg,             \* the background goroutine: "none", "handshaking", "sending", "exited"
    bgErr,          \* what tc.HandshakeContext returned to the goroutine
    result,         \* what the call returned
    stackCalls      \* history: number of calls made into the underlying stack

env    == <<req, ctx, deadlinePassed>>
loop   == <<addresses, next, errlist>>
caller == <<pc, loop, result>>
gor    == <<errch, bg, bgErr>>
vars   == <<env, caller, conn, deadlineSet, gor, stackCalls>>

-----------------------------------------------------------------------------
(* Values *)

Nil == "nil"

\* The errors the facade can surface (the aggregate is "ErrDial").
Errors == {"AddressParse", "Resolution", "ECONNREFUSED", "Canceled",
           "DeadlineExceeded", "Timeout", "HandshakeFailure", "ErrClosed"}

\* One entry of ErrDial.Errors: fmt.Errorf("%s: %w", endpoint, err).
ErrEntry == [endpoint : Addrs, err : Errors]

NoConn   == [state |-> "none", addr |-> Nil]
NoResult == [ok |-> FALSE, err |-> "pending", errors |-> <<>>]

\* The address DialContext uses when the host part is an IP literal.
LiteralIP == CHOOSE a \in Addrs : TRUE

Requests == [tls : BOOLEAN, form : {"malformed", "literal", "domain"},
             hasDeadline : BOOLEAN, ctx0 : {"active", "canceled"}]

CtxDone == ctx # "active"

\* ctx.Err()
CtxErr == IF ctx = "canceled" THEN "Canceled" ELSE "DeadlineExceeded"

\* ErrDial.Is: the aggregate matches a target when any child does; any other
\* error matches itself.
Is(res, target) ==
    \/ res.err = target
    \/ res.err = "ErrDial" /\ \E i \in DOMAIN res.errors : res.errors[i].err = target

-----------------------------------------------------------------------------
(* The underlying stack, as the facade consumes it *)

\* Stack.GetaddrinfoLookupANY: a context that is done ends the call with the
\* context's error; otherwise the resolver fails or returns a list of
\* addresses, which nothing prevents from being empty.
LookupOutcomes ==
    IF CtxDone THEN {[addrs |-> <<>>, err |-> CtxErr]}
    ELSE {[addrs |-> <<>>, err |-> "Resolution"]}
            \cup {[addrs |-> l, err |-> Nil] : l \in SetToAllKPermutations(Addrs)}

\* Stack.DialContext for one endpoint.
DialOutcomes == IF CtxDone THEN {CtxErr} ELSE {Nil, "ECONNREFUSED"}

-----------------------------------------------------------------------------
(* errch := make(chan error, 1), with Go's channel semantics for any capacity *)

ErrchUnbuffered == 0

ErrchCap == 1

\* A send completes when the buffer has room.
CanSend == Len(errch) < ErrchCap

\* A receive completes on a buffered value, or, on an unbuffered channel, by
\* meeting the sender that waits.
CanRecv == errch # <<>> \/ (ErrchCap = 0 /\ bg = "sending")

RecvValue == IF errch # <<>> THEN Head(errch) ELSE bgErr

-----------------------------------------------------------------------------
(* The caller *)

Return(ok, err, errors) ==
    /\ pc' = "returned"
    /\ result' = [ok |-> ok, err |-> err, errors |-> errors]

\* net.SplitHostPort fails, in DialTLSContext or in DialContext.
SplitHostPortFails ==
    /\ pc = "start"
    /\ req.form = "malformed"
    /\ Return(FALSE, "AddressParse", <<>>)
    /\ UNCHANGED <<env, loop, conn, deadlineSet, gor, stackCalls>>

\* net.ParseIP(domain) # nil: the literal is the only address.
UseLiteralIP ==
    /\ pc = "start"
    /\ req.form = "literal"
    /\ addresses' = <<LiteralIP>>
    /\ pc' = "dial"
    /\ UNCHANGED <<env, next, errlist, conn, deadlineSet, gor, result, stackCalls>>

\* n.LookupHost(ctx, domain) returns an error, which DialContext returns.
LookupHostFails ==
    /\ pc = "start"
    /\ req.form = "domain"
    /\ \E r \in LookupOutcomes :
        /\ r.err # Nil
        /\ Return(FALSE, r.err, <<>>)
    /\ stackCalls' = stackCalls + 1
    /\ UNCHANGED <<env, loop, conn, deadlineSet, gor>>

\* n.LookupHost(ctx, domain) returns addresses.
LookupHostSucceeds ==
    /\ pc = "start"
    /\ req.form = "domain"
    /\ \E r \in LookupOutcomes :
        /\ r.err = Nil
        /\ addresses' = r.addrs
    /\ pc' = "dial"
    /\ stackCalls' = stackCalls + 1
    /\ UNCHANGED <<env, next, errlist, conn, deadlineSet, gor, result>>

ForgetEarlierFailures(ip, err) == <<[endpoint |-> ip, err |-> err]>>

RecordUnresolvedName(ip, err) == Append(errlist, [endpoint |-> req.form, err |-> err])

\* errlist.Errors = append(errlist.Errors, fmt.Errorf("%s: %w", endpoint, err))
RecordFailure(ip, err) == Append(errlist, [endpoint |-> ip, err |-> err])

\* One turn of the loop whose n.Stack.DialContext fails: record and continue.
DialFails ==
    /\ pc = "dial"
    /\ next <= Len(addresses)
    /\ \E e \in DialOutcomes \ {Nil} : errlist' = RecordFailure(addresses[next], e)
    /\ next' = next + 1
    /\ stackCalls' = stackCalls + 1
    /\ UNCHANGED <<env, pc, addresses, conn, deadlineSet, gor, result>>

\* One turn of the loop whose n.Stack.DialContext succeeds: DialContext
\* returns the conn; DialTLSContext goes on to the handshake.
DialSucceeds ==
    /\ pc = "dial"
    /\ next <= Len(addresses)
    /\ Nil \in DialOutcomes
    /\ conn' = [state |-> "open", addr |-> addresses[next]]
    /\ IF req.tls THEN pc' = "handshake" /\ UNCHANGED result
                  ELSE Return(TRUE, Nil, <<>>)
    /\ stackCalls' = stackCalls + 1
    /\ UNCHANGED <<env, loop, deadlineSet, gor>>

\* The loop ran out of addresses: return nil, errlist.
DialExhausted ==
    /\ pc = "dial"
    /\ next > Len(addresses)
    /\ Return(FALSE, "ErrDial", errlist)
    /\ UNCHANGED <<env, loop, conn, deadlineSet, gor, stackCalls>>

\* tls.Client(conn, config) and the head of tlsHandshake: the conn takes the
\* context's deadline if there is one, and the goroutine is started.
StartHandshake ==
    /\ pc = "handshake"
    /\ deadlineSet' = req.hasDeadline
    /\ bg' = "handshaking"
    /\ pc' = "select"
    /\ UNCHANGED <<env, loop, conn, errch, bgErr, result, stackCalls>>

DeadlineLeftOnConn == deadlineSet

\* defer tc.SetDeadline(time.Time{})
DeadlineAfterHandshake == FALSE

LeftOpen(err) == conn

ClosedEitherWay(err) == [conn EXCEPT !.state = "closed"]

\* if err := n.tlsHandshake(ctx, tc); err != nil { conn.Close() ... }
ConnAfterHandshake(err) ==
    IF err = Nil THEN conn ELSE [conn EXCEPT !.state = "closed"]

\* What the caller does once the select has given it err: the deferred reset
\* of the deadline, then DialTLSContext's close-on-error and return.
FinishHandshake(err) ==
    /\ deadlineSet' = DeadlineAfterHandshake
    /\ conn' = ConnAfterHandshake(err)
    /\ Return(err = Nil, err, <<>>)

CtxDoneCaseMissing == FALSE

\* case <-ctx.Done(): return ctx.Err()
SelectCtxDone ==
    /\ pc = "select"
    /\ CtxDone
    /\ FinishHandshake(CtxErr)
    /\ UNCHANGED <<env, loop, gor, stackCalls>>

\* case err := <-errch: return err
SelectErrch ==
    /\ pc = "select"
    /\ CanRecv
    /\ FinishHandshake(RecvValue)
    /\ errch' = IF errch # <<>> THEN Tail(errch) ELSE errch
    /\ bg' = IF errch # <<>> THEN bg ELSE "exited"
    /\ UNCHANGED <<env, loop, bgErr, stackCalls>>

Caller ==
    \/ SplitHostPortFails
    \/ UseLiteralIP
    \/ LookupHostFails
    \/ LookupHostSucceeds
    \/ DialFails
    \/ DialSucceeds
    \/ DialExhausted
    \/ StartHandshake
    \/ SelectCtxDone
    \/ SelectErrch

-----------------------------------------------------------------------------
(* The background goroutine: errch <- tc.HandshakeContext(ctx) *)

HandshakeReturns(err) ==
    /\ bg = "handshaking"
    /\ bgErr' = err
    /\ bg' = "sending"
    /\ UNCHANGED <<env, caller, deadlineSet, errch, stackCalls>>

\* The peer completes the handshake, or fails it.
HandshakeAnswered ==
    /\ conn.state = "open"
    /\ \E e \in {Nil, "HandshakeFailure"} : HandshakeReturns(e)
    /\ UNCHANGED conn

\* The TLS library notices that the context is done: it closes the conn under
\* the handshake and returns the context's error.
HandshakeInterrupted ==
    /\ CtxDone
    /\ HandshakeReturns(CtxErr)
    /\ conn' = [conn EXCEPT !.state = "closed"]

\* The conn was closed under the handshake (DialTLSContext's conn.Close()).
HandshakeOnClosedConn ==
    /\ conn.state = "closed"
    /\ HandshakeReturns("ErrClosed")
    /\ UNCHANGED conn

\* The deadline that tlsHandshake set on the conn expires under the handshake.
HandshakeTimesOut ==
    /\ conn.state = "open"
    /\ deadlineSet
    /\ deadlinePassed
    /\ HandshakeReturns("Timeout")
    /\ UNCHANGED conn

\* errch <- err
SendResult ==
    /\ bg = "sending"
    /\ CanSend
    /\ errch' = Append(errch, bgErr)
    /\ bg' = "exited"
    /\ UNCHANGED <<env, caller, conn, deadlineSet, bgErr, stackCalls>>

-----------------------------------------------------------------------------
(* The environment *)

\* The owner of the context cancels it.
CtxCancel ==
    /\ ctx = "active"
    /\ ctx' = "canceled"
    /\ UNCHANGED <<req, deadlinePassed, caller, conn, deadlineSet, gor, stackCalls>>

\* Time reaches the deadline of the context.
DeadlineArrives ==
    /\ req.hasDeadline
    /\ ~deadlinePassed
    /\ deadlinePassed' = TRUE
    /\ UNCHANGED <<req, ctx, caller, conn, deadlineSet, gor, stackCalls>>

\* The timer of the context fires.
CtxExpires ==
    /\ deadlinePassed
    /\ ctx = "active"
    /\ ctx' = "deadlineExceeded"
    /\ UNCHANGED <<req, deadlinePassed, caller, conn, deadlineSet, gor, stackCalls>>

-----------------------------------------------------------------------------
(* The specification *)

Init ==
    /\ req \in Requests
    /\ pc = "start"
    /\ ctx = req.ctx0
    /\ deadlinePassed = FALSE
    /\ addresses = <<>>
    /\ next = 1
    /\ errlist = <<>>
    /\ conn = NoConn
    /\ deadlineSet = FALSE
    /\ errch = <<>>
    /\ bg = "none"
    /\ bgErr = Nil
    /\ result = NoResult
    /\ stackCalls = 0

Next ==
    \/ Caller
    \/ HandshakeAnswered
    \/ HandshakeInterrupted
    \/ HandshakeOnClosedConn
    \/ HandshakeTimesOut
    \/ SendResult
    \/ CtxCancel
    \/ DeadlineArrives
    \/ CtxExpires

Spec == Init /\ [][Next]_vars

(***************************************************************************)
(* Fairness.  A runnable goroutine is scheduled, and a call into the stack *)
(* returns (the stack's dial and lookup have timeouts of their own), so    *)
(* the caller's steps are weakly fair.  A read on a closed conn and a read *)
(* past its deadline return; a send on a channel with room completes; time *)
(* passes and timers fire.  Nothing is assumed of the peer, of the owner   *)
(* of the context, or of the TLS library's own watch on the context.       *)
(***************************************************************************)
Fairness ==
    /\ WF_vars(Caller)
    /\ WF_vars(HandshakeOnClosedConn)
    /\ WF_vars(HandshakeTimesOut)
    /\ WF_vars(SendResult)
    /\ WF_vars(DeadlineArrives)
    /\ WF_vars(CtxExpires)

FairSpec == Spec /\ Fairness

-----------------------------------------------------------------------------
(* Properties *)

Returned == pc = "returned"

\* The type invariant: every variable of the call holds a value of its kind;
\* in particular every entry of errlist.Errors is tagged with an endpoint the
\* loop of DialContext really tried, and the stack is called at most once for
\* the lookup and once per address.
TypeOK ==
    /\ req \in Requests
    /\ pc \in {"start", "dial", "handshake", "select", "returned"}
    /\ ctx \in {"active", "canceled", "deadlineExceeded"}
    /\ deadlinePassed \in BOOLEAN
    /\ addresses \in SetToAllKPermutations(Addrs)
    /\ next \in 1..(Len(addresses) + 1)
    /\ errlist \in Seq(ErrEntry)
    /\ conn \in [state : {"none", "open", "closed"}, addr : Addrs \cup {Nil}]
    /\ deadlineSet \in BOOLEAN
    /\ errch \in Seq(Errors \cup {Nil})
    /\ bg \in {"none", "handshaking", "sending", "exited"}
    /\ bgErr \in Errors \cup {Nil}
    /\ result \in [ok : BOOLEAN, err : Errors \cup {Nil, "pending", "ErrDial"},
                   errors : Seq(ErrEntry)]
    /\ stackCalls \in 0..(1 + Len(addresses))

\* Partial success never leaks: when DialContext or DialTLSContext returns an
\* error, no connection is left open.  The hard case is DialTLSContext losing
\* the race of its select: the handshake may have failed, succeeded or still be
\* running when the context's Done case is taken.
NoHalfOpenLeak ==
    Returned /\ ~result.ok => conn.state # "open"

\* A connection that DialTLSContext or DialContext returns is usable: it is
\* open, it goes to the first address whose dial succeeded (every earlier
\* address has its failure recorded), it no longer carries the deadline of the
\* dial's context, and for DialTLSContext the goroutine has delivered a
\* completed handshake and is gone.
ReturnedConnIsReady ==
    Returned /\ result.ok =>
        /\ conn.state = "open"
        /\ conn.addr = addresses[Len(errlist) + 1]
        /\ ~deadlineSet
        /\ req.tls => bg = "exited" /\ bgErr = Nil

\* The aggregate error of DialContext carries one error per address, in the
\* order in which the resolver gave the addresses, each tagged with its
\* endpoint; and once the context is done before the dials begin, the caller
\* can recognise the context's error in what it gets.
AggregateMatchesAttempts ==
    Returned /\ result.err = "ErrDial" =>
        /\ Len(result.errors) = Len(addresses)
        /\ \A i \in DOMAIN addresses : result.errors[i].endpoint = addresses[i]
        /\ (req.ctx0 = "canceled" /\ addresses # <<>>) => Is(result, "Canceled")

\* The call as its caller sees it, for DialCall: what it returned, and the
\* connection that the stack gave it.
Outcome ==
    CASE ~Returned -> "pending"
      [] result.ok -> "ok"
      [] OTHER     -> result.err

Contract == INSTANCE DialCall WITH
    ErrorKinds <- Errors \cup {"ErrDial"}, outcome <- Outcome, socket <- conn.state

\* DialContext and DialTLSContext implement DialCall: every step of the
\* caller, of the goroutine of tlsHandshake and of the environment is a step
\* of the contract or leaves what the caller sees unchanged.  In particular
\* the goroutine, which may still be inside HandshakeContext when the select
\* returns, never closes a connection that was returned, and the result of
\* the call is settled once.
ImplementsDialCall == Contract!Spec

\* The goroutine started by tlsHandshake never outlives the call for good:
\* whichever case of the select returned, the goroutine gets out of
\* HandshakeContext and out of its send on errch.
NoGoroutineLeak ==
    Returned ~> bg \in {"none", "exited"}

\* Every blocking operation honours the context: once the context is done,
\* by cancellation or by its deadline, the call returns, even if the peer
\* never answers the handshake.
ReturnsOnceCtxDone ==
    CtxDone ~> Returned

\* What section 8 of the specification requires of an empty resolver result:
\* the facade surfaces a Resolution error, never an aggregate without errors.
AggregateIsNeverEmpty ==
    Returned /\ result.err = "ErrDial" => result.errors # <<>>

\* What section 8 of the specification requires when the context is cancelled
\* before the first dial attempt: Cancelled is returned and the stack is not
\* called at all.
CancelledCallNeverReachesStack ==
    req.ctx0 = "canceled" => stackCalls = 0

=============================================================================
