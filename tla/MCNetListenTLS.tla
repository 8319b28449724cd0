--------------------------- MODULE MCNetListenTLS ---------------------------
(***************************************************************************)
(* NetListenTLS for TLC.  Three clients and two acceptors are the least    *)
(* that put a prompt client behind as many silent clients as there are     *)
(* acceptors, which is the case the ceiling on the handshake is for.       *)
(***************************************************************************)
EXTENDS NetListenTLS

CONSTANTS c1, c2, c3, a1, a2

MCClients   == {c1, c2, c3}
MCAcceptors == {a1, a2}

=============================================================================
