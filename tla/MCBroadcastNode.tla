-------------------------- MODULE MCBroadcastNode --------------------------
(* Instances of BroadcastNode for TLC.                                     *)
EXTENDS BroadcastNode

CONSTANTS v1, v2

(* Clients send each value to one node, again and again, so that batches   *)
(* with one value and with both come to be.                                *)
Two == {<<0, v1>>, <<1, v2>>}
=============================================================================
