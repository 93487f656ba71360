---------------------------- MODULE MCSendStream ----------------------------
(* Constants of the TLC runs of SendStream. *)
EXTENDS SendStream

OneLimit == <<MaxLen>>
TwoLimits == <<MaxLen - 1, MaxLen>>
=============================================================================
