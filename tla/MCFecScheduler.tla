--------------------------- MODULE MCFecScheduler ---------------------------
(* Constants of the TLC runs of FecScheduler. *)
EXTENDS FecScheduler

CONSTANTS s1, s2

LossInfo == {NoInfo, 1}
=============================================================================
