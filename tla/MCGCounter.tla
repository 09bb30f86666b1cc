----------------------------- MODULE MCGCounter -----------------------------
(* Instances of GCounter for TLC.                                          *)
EXTENDS GCounter

CONSTANTS n1, n2, a1, a2, a3, a4, r1, r2

(* Two adds race on one node, with an add of 0, and another runs on        *)
(* another node; two reads are on the first.                               *)
AtOf == [x \in Add \cup Read |-> IF x = a3 THEN n2 ELSE n1]

DeltaOf == [a \in Add |-> CASE a = a2 -> 2 [] a = a4 -> 0 [] OTHER -> 1]
=============================================================================
