----------------------------- MODULE MCPktSpace -----------------------------
(* Enough packets for a full set of ranges, and enough ACK frames for two key *)
(* updates.                                                                   *)
EXTENDS PktSpace

MCBounds == {[pkts |-> 8, own |-> 1, gen |-> 1], [pkts |-> 5, own |-> 2, gen |-> 2]}
=============================================================================
