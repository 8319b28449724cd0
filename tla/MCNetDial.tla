----------------------------- MODULE MCNetDial -----------------------------
(***************************************************************************)
(* NetDial for TLC: a name that resolves to at most two addresses, the two *)
(* hosts of the repository's topologies.                                   *)
(***************************************************************************)
EXTENDS NetDial

MCAddrs == {"10.0.0.1", "10.0.0.2"}

=============================================================================
