---------------------------- MODULE GossipProofs ----------------------------
(***************************************************************************)
(* Theorems about Gossip, for every set of nodes, of values and every      *)
(* choice of whom they notify.                                             *)
(***************************************************************************)
EXTENDS Gossip, TLAPS

(* The batches of a step are batches: what a node hands to a target is a   *)
(* part of what it knows (distributor.cpp:47-50).                          *)
LEMMA NewBatchesType ==
  ASSUME TypeOK, NEW n \in Node
  PROVE  /\ NewBatches(n) \subseteq Batch
         /\ \A b \in NewBatches(n) : b.values \subseteq known[n] /\ b.from = n
<1>1. Untold(n) \subseteq Node
  BY DEF Untold, Targets
<1>2. /\ known[n] \in SUBSET Value
      /\ \A t \in Node : told[n][t] \in SUBSET Value
  BY DEF TypeOK
<1> QED
  BY <1>1, <1>2 DEF NewBatches, Batch

(* Every variable keeps its type.                                          *)
THEOREM TypeCorrect == Spec => []TypeOK
<1>1. Init => TypeOK
  BY DEF Init, TypeOK
<1>2. TypeOK /\ [Next]_vars => TypeOK'
  <2> SUFFICES ASSUME TypeOK, [Next]_vars PROVE TypeOK'
    OBVIOUS
  <2>1. ASSUME NEW n \in Node, NEW v \in Value, Broadcast(n, v) PROVE TypeOK'
    BY <2>1 DEF Broadcast, TypeOK
  <2>2. ASSUME NEW n \in Node, Distribute(n) PROVE TypeOK'
    BY <2>2, NewBatchesType DEF Distribute, TypeOK
  <2>3. ASSUME NEW b \in waiting, Retransmit(b) PROVE TypeOK'
    BY <2>3 DEF Retransmit, TypeOK
  <2>4. ASSUME NEW b \in inFlight, HandleBulk(b) PROVE TypeOK'
    <3>1. b \in Batch /\ b.values \subseteq Value
      BY DEF TypeOK, Batch
    <3> QED
      BY <2>4, <3>1 DEF HandleBulk, TypeOK
  <2>5. ASSUME NEW b \in acks, ReceiveAck(b) PROVE TypeOK'
    BY <2>5 DEF ReceiveAck, TypeOK
  <2>6. ASSUME NEW b \in inFlight \cup acks, Lose(b) PROVE TypeOK'
    BY <2>6 DEF Lose, TypeOK
  <2>7. CASE UNCHANGED vars
    BY <2>7 DEF vars, TypeOK
  <2> QED
    BY <2>1, <2>2, <2>3, <2>4, <2>5, <2>6, <2>7 DEF Next
<1> QED
  BY <1>1, <1>2, PTL DEF Spec

(* What is told is known or being resent, what is acknowledged is known,   *)
(* and what is known was broadcast, in every reachable state.              *)
THEOREM GossipInvCorrect == Spec => []GossipInv
<1>1. Init => GossipInv
  BY DEF Init, GossipInv, NothingLost, NothingInvented, Targets
<1>2. TypeOK /\ GossipInv /\ [Next]_vars => GossipInv'
  <2> SUFFICES ASSUME TypeOK, GossipInv, [Next]_vars PROVE GossipInv'
    OBVIOUS
  <2> USE DEF GossipInv, NothingLost, NothingInvented, Targets
  <2>1. ASSUME NEW n \in Node, NEW v \in Value, Broadcast(n, v)
        PROVE  GossipInv'
    BY <2>1 DEF Broadcast, TypeOK, Batch
  <2>2. ASSUME NEW n \in Node, Distribute(n) PROVE GossipInv'
    <3>1. /\ waiting' = waiting \cup NewBatches(n)
          /\ inFlight' = inFlight \cup NewBatches(n)
          /\ UNCHANGED <<accepted, known, acks>>
      BY <2>2 DEF Distribute
    <3>2. \A b \in waiting' \cup inFlight' : b.values \subseteq known[b.from]
      BY <3>1, NewBatchesType
    <3>3. NothingLost'
      <4> SUFFICES ASSUME NEW m \in Node, NEW t \in Targets(m), NEW v,
                          v \in told'[m][t], v \notin known[t]
                   PROVE  \E b \in waiting' :
                            b.from = m /\ b.to = t /\ v \in b.values
        BY <3>1
      <4>1. CASE v \in told[m][t]
        BY <3>1, <4>1
      <4>2. CASE v \notin told[m][t]
        <5>1. m = n /\ v \in known[n]
          BY <2>2, <4>2 DEF Distribute, TypeOK
        <5> DEFINE b == [from |-> n, to |-> t, values |-> known[n] \ told[n][t]]
        <5>2. b \in NewBatches(n)
          BY <4>2, <5>1 DEF NewBatches, Untold
        <5> QED
          BY <3>1, <4>2, <5>1, <5>2
      <4> QED
        BY <4>1, <4>2
    <3> QED
      BY <3>1, <3>2, <3>3
  <2>3. ASSUME NEW b \in waiting, Retransmit(b) PROVE GossipInv'
    BY <2>3 DEF Retransmit
  <2>4. ASSUME NEW b \in inFlight, HandleBulk(b) PROVE GossipInv'
    <3>1. b \in Batch /\ b.values \subseteq accepted
      BY DEF TypeOK, Batch
    <3>2. /\ \A n \in Node : known[n] \subseteq known'[n]
          /\ b.values \subseteq known'[b.to]
          /\ \A n \in Node : known'[n] \subseteq known[n] \cup b.values
      BY <2>4, <3>1 DEF HandleBulk, TypeOK, Batch
    <3>3. /\ UNCHANGED <<accepted, told, waiting>>
          /\ inFlight' \subseteq inFlight /\ acks' = acks \cup {b}
      BY <2>4 DEF HandleBulk
    <3>4. waiting \cup inFlight \cup acks \subseteq Batch
      BY DEF TypeOK
    <3> QED
      BY <3>1, <3>2, <3>3, <3>4 DEF Batch
  <2>5. ASSUME NEW b \in acks, ReceiveAck(b) PROVE GossipInv'
    BY <2>5 DEF ReceiveAck
  <2>6. ASSUME NEW b \in inFlight \cup acks, Lose(b) PROVE GossipInv'
    BY <2>6 DEF Lose
  <2>7. CASE UNCHANGED vars
    BY <2>7 DEF vars
  <2> QED
    BY <2>1, <2>2, <2>3, <2>4, <2>5, <2>6, <2>7 DEF Next
<1> QED
  BY <1>1, <1>2, TypeCorrect, PTL DEF Spec

(* No value that a node has counted as told to a target is ever written    *)
(* off, whatever the network loses.                                        *)
THEOREM NothingLostCorrect == Spec => []NothingLost
<1>1. GossipInv => NothingLost
  BY DEF GossipInv
<1> QED
  BY <1>1, GossipInvCorrect, PTL

(* Once nothing is resent and nobody is behind, knowledge has crossed      *)
(* every edge of the target graph.                                         *)
THEOREM QuietMeansSpreadCorrect == Spec => []QuietMeansSpread
<1>1. TypeOK /\ GossipInv => QuietMeansSpread
  BY DEF TypeOK, GossipInv, NothingLost, QuietMeansSpread, Quiet, Untold,
         Targets
<1> QED
  BY <1>1, TypeCorrect, GossipInvCorrect, PTL
=============================================================================
