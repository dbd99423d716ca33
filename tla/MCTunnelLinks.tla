---------------------------- MODULE MCTunnelLinks ----------------------------
(* The instance of TunnelLinks for TLC.                                     *)
EXTENDS TunnelLinks

CONSTANTS c1, l1, l2, l3, s1

Links3 == {l1, l2, l3}
=============================================================================
