------------------------------ MODULE MCKafka ------------------------------
(* Instances of Kafka for TLC.                                             *)
EXTENDS Kafka

CONSTANTS n1, n2, k1, k2, m1, m2, m3, t1, t2, c1

(* Sends race to one log from two nodes, and the consumer polls a node.    *)
AtOf == [x \in Send \cup Consumer |-> IF x \in {m2} THEN n2 ELSE n1]

KeyOfSend == [m \in Send |-> IF m = m3 THEN k2 ELSE k1]
=============================================================================
