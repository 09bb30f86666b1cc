------------------------------- MODULE MCFlood -------------------------------
(* Instances of Flood for TLC.                                              *)
EXTENDS Flood

CONSTANTS n1, n2, n3, n4
=============================================================================
