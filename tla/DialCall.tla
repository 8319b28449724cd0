------------------------------ MODULE DialCall ------------------------------
(***************************************************************************)
(* What one call of Net.DialContext or Net.DialTLSContext promises its     *)
(* caller, whatever happens inside: the call returns once, with a          *)
(* connection or with one error of a documented kind; a connection is      *)
(* returned open; an error leaves no connection open; and once the call    *)
(* has returned, nothing it started touches the connection again.          *)
(***************************************************************************)
CONSTANTS
    ErrorKinds      \* the errors a dial may return

VARIABLES
    outcome,        \* Pending, "ok", or the error returned
    socket          \* the connection of the call: "none", "open" or "closed"

vars == <<outcome, socket>>

Pending == "pending"

ASSUME {Pending, "ok"} \cap ErrorKinds = {}

Init == outcome = Pending /\ socket = "none"

\* The stack gives the call a connection.
Connect ==
    /\ outcome = Pending /\ socket = "none"
    /\ socket' = "open" /\ UNCHANGED outcome

\* The call gives its connection up, and has yet to return.
Abandon ==
    /\ outcome = Pending /\ socket = "open"
    /\ socket' = "closed" /\ UNCHANGED outcome

\* The call returns the connection, which it may have obtained just now.
Succeed ==
    /\ outcome = Pending /\ socket # "closed"
    /\ outcome' = "ok" /\ socket' = "open"

\* The call returns an error, closing the connection if it holds one.
Fail(e) ==
    /\ outcome = Pending
    /\ outcome' = e
    /\ socket' = IF socket = "open" THEN "closed" ELSE socket

Next == Connect \/ Abandon \/ Succeed \/ \E e \in ErrorKinds : Fail(e)

Spec == Init /\ [][Next]_vars

=============================================================================
