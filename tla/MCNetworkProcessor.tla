------------------------- MODULE MCNetworkProcessor -------------------------
(* Instances of NetworkProcessor for TLC.                                  *)
EXTENDS NetworkProcessor

CONSTANTS c1, c2
=============================================================================
