------------------------------- MODULE MCNode -------------------------------
(* Instances of Node for TLC.                                              *)
EXTENDS Node

CONSTANTS i1, i2, r1, f1, s1
=============================================================================
