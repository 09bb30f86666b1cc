------------------------- MODULE MCWorkersProcessor -------------------------
(* Instances of WorkersProcessor for TLC.                                  *)
EXTENDS WorkersProcessor

CONSTANTS w1, w2
=============================================================================
