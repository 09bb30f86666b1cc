------------------------------- MODULE Gossip -------------------------------
(***************************************************************************)
(* How the broadcast tasks 4 and 5 spread values, with everything ordered  *)
(* left out: each node has a set of values, remembers for each target      *)
(* which of them it has counted as told, and hands the rest over in        *)
(* batches that are resent until acknowledged.  BroadcastNode implements   *)
(* this with vectors and offsets; the theorems are about this module.      *)
(***************************************************************************)
EXTENDS Naturals, FiniteSets

CONSTANTS
  Node,     \* the nodes of the cluster
  Value,    \* the values clients broadcast
  Notifies  \* the pairs <<n, t>> of a node and one that it notifies

Targets(n) == {t \in Node : <<n, t>> \in Notifies}

VARIABLES
  accepted,  \* the values clients have handed to some node
  known,     \* the values each node has
  told,      \* the values each node counts as told to each of its targets
  waiting,   \* the batches that are resent until they are acknowledged
  inFlight,  \* the batches on their way
  acks       \* the acknowledgements on their way

vars == <<accepted, known, told, waiting, inFlight, acks>>

Batch == [from : Node, to : Node, values : SUBSET Value]

TypeOK ==
  /\ accepted \in SUBSET Value
  /\ known \in [Node -> SUBSET Value]
  /\ told \in [Node -> [Node -> SUBSET Value]]
  /\ waiting \in SUBSET Batch
  /\ inFlight \in SUBSET Batch
  /\ acks \in SUBSET Batch

Init ==
  /\ accepted = {}
  /\ known = [n \in Node |-> {}]
  /\ told = [n \in Node |-> [t \in Node |-> {}]]
  /\ waiting = {}
  /\ inFlight = {}
  /\ acks = {}

(* A client hands v to n *)
Broadcast(n, v) ==
  /\ accepted' = accepted \cup {v}
  /\ known' = [known EXCEPT ![n] = @ \cup {v}]
  /\ UNCHANGED <<told, waiting, inFlight, acks>>

Untold(n) == {t \in Targets(n) : told[n][t] # known[n]}

NewBatches(n) ==
  {[from |-> n, to |-> t, values |-> known[n] \ told[n][t]] : t \in Untold(n)}

(* n tells all its targets what it has not counted as told yet *)
Distribute(n) ==
  /\ Untold(n) # {}
  /\ told' = [told EXCEPT ![n] =
               [t \in Node |-> IF t \in Targets(n) THEN known[n]
                                                   ELSE told[n][t]]]
  /\ waiting' = waiting \cup NewBatches(n)
  /\ inFlight' = inFlight \cup NewBatches(n)
  /\ UNCHANGED <<accepted, known, acks>>

Retransmit(b) ==
  /\ b \in waiting
  /\ inFlight' = inFlight \cup {b}
  /\ UNCHANGED <<accepted, known, told, waiting, acks>>

(* b arrives, perhaps not for the last time, and is acknowledged *)
HandleBulk(b) ==
  /\ b \in inFlight
  /\ inFlight' \in {inFlight, inFlight \ {b}}
  /\ known' = [known EXCEPT ![b.to] = @ \cup b.values]
  /\ acks' = acks \cup {b}
  /\ UNCHANGED <<accepted, told, waiting>>

ReceiveAck(b) ==
  /\ b \in acks
  /\ acks' \in {acks, acks \ {b}}
  /\ waiting' = waiting \ {b}
  /\ UNCHANGED <<accepted, known, told, inFlight>>

Lose(b) ==
  /\ \/ b \in inFlight /\ inFlight' = inFlight \ {b} /\ UNCHANGED acks
     \/ b \in acks     /\ acks' = acks \ {b}         /\ UNCHANGED inFlight
  /\ UNCHANGED <<accepted, known, told, waiting>>

Next ==
  \/ \E n \in Node, v \in Value : Broadcast(n, v)
  \/ \E n \in Node : Distribute(n)
  \/ \E b \in waiting  : Retransmit(b)
  \/ \E b \in inFlight : HandleBulk(b)
  \/ \E b \in acks     : ReceiveAck(b)
  \/ \E b \in inFlight \cup acks : Lose(b)

Spec == Init /\ [][Next]_vars

-----------------------------------------------------------------------------

(* What an edge has counted as told is known at its far end or still       *)
(* being resent: a value dropped by the network is never written off.      *)
NothingLost ==
  \A n \in Node : \A t \in Targets(n) :
    told[n][t] \subseteq
      known[t] \cup UNION {b.values : b \in {w \in waiting : w.from = n /\ w.to = t}}

(* Nodes only ever know values that clients have broadcast.                *)
NothingInvented == \A n \in Node : known[n] \subseteq accepted

(* When nothing is being resent and nothing is left to tell, every node    *)
(* knows at least what those that notify it know.                          *)
Quiet == waiting = {} /\ \A n \in Node : Untold(n) = {}

QuietMeansSpread ==
  Quiet => \A n \in Node : \A t \in Targets(n) : known[n] \subseteq known[t]

(* The strengthening the three rest on: an acknowledgement on its way      *)
(* means the values have arrived, and a batch holds only known values.     *)
GossipInv ==
  /\ \A b \in acks : b.values \subseteq known[b.to]
  /\ \A b \in waiting \cup inFlight : b.values \subseteq known[b.from]
  /\ NothingLost
  /\ NothingInvented
=============================================================================
