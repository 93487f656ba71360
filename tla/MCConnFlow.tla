----------------------------- MODULE MCConnFlow -----------------------------
(* Constants of the TLC runs of ConnFlow. *)
EXTENDS ConnFlow, TLC

CONSTANTS s1, s2

OneStream == {s1}
TwoStreams == {s1, s2}

\* What the application writes on each stream.
LongStream == s1 :> 4
TwoLengths == s1 :> 4 @@ s2 :> 1
=============================================================================
