----------------------------- MODULE MCRecovery -----------------------------
(* Constants of the TLC runs of Recovery. *)
EXTENDS Recovery

CONSTANT AppPkts

Pkts == [e \in Epochs |-> IF e = "Application" THEN AppPkts ELSE 1]
SpaceKinds == [e \in Epochs |-> CASE e = "Initial" -> {"eliciting", "ack"}
                                   [] e = "Handshake" -> {"eliciting"}
                                   [] e = "Application" -> {"eliciting", "mtu_probe"}]
Estimates == {[rtt |-> 1, loss_delay |-> 1, pto |-> 2]}
LongestEstimate == [rtt |-> 1, loss_delay |-> 1, pto |-> 2]
=============================================================================
