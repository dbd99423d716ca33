-------------------------- MODULE MCTunnelSession ---------------------------
(* Values of TunnelSession's Chunks: how much each socket may produce.     *)
EXTENDS TunnelSession

Chunks10 == [edge |-> 1, connector |-> 0]
Chunks60 == [edge |-> 6, connector |-> 0]
Chunks71 == [edge |-> 7, connector |-> 1]
=============================================================================
