--------------------------- MODULE MCDPIThrottle ----------------------------
(***************************************************************************)
(* DPIThrottle for TLC: one address pair (a TCP and a UDP flow in each     *)
(* direction), two server names, two frames from each stack, and a link    *)
(* that delays every frame by one tick and loses nothing of its own, or    *)
(* only on the return path.                                                *)
(***************************************************************************)
EXTENDS DPIThrottle

MCConns == {"c1"}

MCSNIs == {"ndt0.local", "ndt0.xyz"}

MCOffendingOnly == {"ndt0.local"}

MCLinkDelay == [d \in Directions |-> 1]

MCNoLoss == [d \in Directions |-> 0]

\* RightToLeftPLR: 0.1, and nothing for the other direction.
MCReturnPathLoss ==
    [d \in Directions |-> IF d = DPIDirectionServerToClient THEN 10 ELSE 0]

=============================================================================
