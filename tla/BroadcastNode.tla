--------------------------- MODULE BroadcastNode ---------------------------
(***************************************************************************)
(* The nodes of the broadcast tasks 4 and 5: BroadcastHandler,             *)
(* BroadcastBulkHandler and DistributorWorker over the shared State, whose *)
(* storage is guarded by one mutex, so that each of the three is a step.   *)
(*                                                                         *)
(* A batch goes out through Session::SendAtLeastOnce.  Of that call this   *)
(* module keeps what NetworkProcessor shows of it: the request is resent   *)
(* until a response to it arrives; requests and responses may be lost,     *)
(* delayed and repeated; the first response may even be thrown away, which *)
(* here is a lost one.                                                     *)
(***************************************************************************)
EXTENDS Naturals, Sequences, FiniteSets, DistributorRing

CONSTANTS
  NodesCount,     \* available_node_ids.size(); the nodes are 0, 1, ...
  kMaxPathLength, \* 3 in part4, 6 in part5
  Value,          \* the numbers clients broadcast
  Clients,        \* the <<node, number>> pairs that clients may send
  MaxInFlight,    \* bound: resend only while fewer messages are on their way
  MaxNodes        \* bound: the largest cluster RingReachesAll looks at

ASSUME BroadcastAssumption ==
  /\ NodesCount \in Nat \ {0} /\ kMaxPathLength \in Nat \ {0}
  /\ Clients \subseteq (0 .. NodesCount - 1) \X Value /\ MaxInFlight \in Nat
  /\ IsFiniteSet(Value) /\ MaxNodes \in Nat

Node == 0 .. NodesCount - 1

VARIABLES
  accepted,      \* the values clients have handed to some node
  nums,          \* storage.nums: the values of a node, in order of arrival
  uniqueNums,    \* storage.unique_nums: the same values as a set
  maybeUnknown,  \* storage.maybe_unknown: offset of what a target may lack
  waiting,       \* the batches whose SendAtLeastOnce has not been answered
  inFlight,      \* the batches on their way
  acks           \* the responses on their way

storage == <<nums, uniqueNums, maybeUnknown>>
vars == <<accepted, storage, waiting, inFlight, acks>>

Elements(s) == {s[i] : i \in DOMAIN s}

(* A BroadcastBulk call: the offset tells the calls of two nodes apart,    *)
(* as their message ids do in the code.                                    *)
Batch == [from : Node, to : Node, offset : Nat, messages : Seq(Value)]

TypeOK ==
  /\ accepted \in SUBSET Value
  /\ nums \in [Node -> Seq(Value)]
  /\ uniqueNums \in [Node -> SUBSET Value]
  /\ maybeUnknown \in [Node -> [Node -> 0 .. Cardinality(Value)]]
  /\ waiting \subseteq Batch
  /\ inFlight \subseteq Batch
  /\ acks \subseteq Batch

Init ==
  /\ accepted = {}
  /\ nums = [n \in Node |-> <<>>]
  /\ uniqueNums = [n \in Node |-> {}]
  /\ maybeUnknown = [n \in Node |-> [t \in Node |-> 0]]
  /\ waiting = {}
  /\ inFlight = {}
  /\ acks = {}

(* A value the storage does not have is pushed and marked *)
InsertOne(s, v) ==
  IF v \in s.uniqueNums
  THEN s
  ELSE [nums |-> Append(s.nums, v), uniqueNums |-> s.uniqueNums \cup {v}]

(* The storage of n after the loop over the messages *)
Inserted(n, messages) ==
  LET inserted[i \in 0 .. Len(messages)] ==
        IF i = 0 THEN [nums |-> nums[n], uniqueNums |-> uniqueNums[n]]
                 ELSE InsertOne(inserted[i - 1], messages[i])
  IN inserted[Len(messages)]

(* Faulty variants, here and below, are wrong on purpose: README.md says   *)
(* which property notices each of them.                                    *)
InsertAlways(n, messages) ==
  /\ nums' = [nums EXCEPT ![n] = @ \o messages]
  /\ uniqueNums' = [uniqueNums EXCEPT ![n] = @ \cup Elements(messages)]
  /\ UNCHANGED maybeUnknown

InsertUnmarked(n, messages) ==
  /\ nums' = [nums EXCEPT ![n] = Inserted(n, messages).nums]
  /\ uniqueNums' = [uniqueNums EXCEPT ![n] =
       IF Len(messages) = 1 THEN Inserted(n, messages).uniqueNums ELSE @]
  /\ UNCHANGED maybeUnknown

Insert(n, messages) ==
  /\ nums' = [nums EXCEPT ![n] = Inserted(n, messages).nums]
  /\ uniqueNums' = [uniqueNums EXCEPT ![n] = Inserted(n, messages).uniqueNums]
  /\ UNCHANGED maybeUnknown

(* BroadcastHandler::Handle *)
Broadcast(n, v) ==
  /\ <<n, v>> \in Clients
  /\ Insert(n, <<v>>)
  /\ accepted' = accepted \cup {v}
  /\ UNCHANGED <<waiting, inFlight, acks>>

(* ReadHandler::Handle changes nothing; this is its answer.                *)
Messages(n) == uniqueNums[n]

(* DistributorWorker::node_ids_for_notify_ *)
Targets ==
  [n \in Node |-> NodeIdsForNotify(n, NodesCount, kMaxPathLength)]

Behind(n) == {t \in Targets[n] : maybeUnknown[n][t] # Len(nums[n])}

BulkFromStart(n, t) == nums[n]

(* What t may lack: the values from its offset on *)
Bulk(n, t) == SubSeq(nums[n], maybeUnknown[n][t] + 1, Len(nums[n]))

OffsetNotAdvanced(n, t) == maybeUnknown[n][t]

NewOffset(n, t) == Len(nums[n])

(* DistributorWorker::Process, which holds storage.mtx throughout.  A pass *)
(* that finds nobody behind changes nothing.                               *)
Distribute(n) ==
  /\ Behind(n) # {}
  /\ LET bulks == {[from |-> n, to |-> t, offset |-> maybeUnknown[n][t],
                    messages |-> Bulk(n, t)] : t \in Behind(n)}
     IN waiting' = waiting \cup bulks /\ inFlight' = inFlight \cup bulks
  /\ maybeUnknown' = [maybeUnknown EXCEPT ![n] =
       [t \in Node |-> IF t \in Targets[n] THEN NewOffset(n, t) ELSE @[t]]]
  /\ UNCHANGED <<accepted, nums, uniqueNums, acks>>

(* NetworkProcessor::UpdateAtLeastOnce resends the copy it kept *)
Retransmit(b) ==
  /\ b \in waiting
  /\ Cardinality(inFlight) + Cardinality(acks) < MaxInFlight
  /\ inFlight' = inFlight \cup {b}
  /\ UNCHANGED <<accepted, storage, waiting, acks>>

(* BroadcastBulkHandler::Handle *)
HandleBulk(b) ==
  /\ b \in inFlight
  /\ inFlight' = inFlight \ {b}
  /\ Insert(b.to, b.messages)
  /\ acks' = acks \cup {b}
  /\ UNCHANGED <<accepted, waiting>>

(* NetworkProcessor::Process erases the waiter, if it is still there *)
ReceiveAck(b) ==
  /\ b \in acks
  /\ acks' = acks \ {b}
  /\ waiting' = waiting \ {b}
  /\ UNCHANGED <<accepted, storage, inFlight>>

Lose(b) ==
  /\ \/ b \in inFlight /\ inFlight' = inFlight \ {b} /\ UNCHANGED acks
     \/ b \in acks     /\ acks' = acks \ {b}         /\ UNCHANGED inFlight
  /\ UNCHANGED <<accepted, storage, waiting>>

Next ==
  \/ \E n \in Node, v \in Value : Broadcast(n, v)
  \/ \E n \in Node : Distribute(n)
  \/ \E b \in waiting  : Retransmit(b)
  \/ \E b \in inFlight : HandleBulk(b)
  \/ \E b \in acks     : ReceiveAck(b)
  \/ \E b \in inFlight \cup acks : Lose(b)

Spec == Init /\ [][Next]_vars

(* Workers run periodically and the assistant of NetworkProcessor resends  *)
(* for ever; of all that is sent for ever, something arrives.  That is     *)
(* enough, since what arrives and is answered is not sent again.           *)
Fairness ==
  /\ WF_vars(\E n \in Node : Distribute(n))
  /\ WF_vars(\E b \in waiting : Retransmit(b))
  /\ SF_vars(\E b \in inFlight : HandleBulk(b))
  /\ SF_vars(\E b \in acks : ReceiveAck(b))

FairSpec == Spec /\ Fairness

-----------------------------------------------------------------------------

(* The vector and the set hold the same values, each of them once, however *)
(* batches are repeated and whichever way a value comes (broadcast.cpp:16, *)
(* 36), and no offset passes the end of the vector, where building a batch *)
(* from iterators would be undefined (distributor.cpp:48-50): an offset    *)
(* counts the values a target was told.                                    *)
OffsetsCountValues ==
  \A n \in Node :
    /\ Elements(nums[n]) = uniqueNums[n]
    /\ Len(nums[n]) = Cardinality(uniqueNums[n])
    /\ \A t \in Node : maybeUnknown[n][t] <= Len(nums[n])

(* Two calls on their way between the same nodes carry different values:   *)
(* advancing the offset before the answer makes a value the business of    *)
(* one call (distributor.cpp:54).                                          *)
BatchesDisjoint ==
  \A b1, b2 \in waiting :
    b1 # b2 /\ b1.from = b2.from /\ b1.to = b2.to
      => Elements(b1.messages) \cap Elements(b2.messages) = {}

(* What the two rest on.  The vector has no value twice, ...               *)
Distinct(s) == \A i, j \in DOMAIN s : s[i] = s[j] => i = j

StorageInv ==
  \A n \in Node :
    /\ Elements(nums[n]) = uniqueNums[n] /\ Distinct(nums[n])
    /\ \A t \in Node : maybeUnknown[n][t] <= Len(nums[n])

(* ... a batch is a part of it in front of the offset, ...                 *)
Batches == waiting \cup inFlight \cup acks

BatchInv ==
  \A b \in Batches :
    /\ Len(b.messages) > 0
    /\ b.offset + Len(b.messages) <= maybeUnknown[b.from][b.to]
    /\ \A i \in DOMAIN b.messages : b.messages[i] = nums[b.from][b.offset + i]

(* ... and two batches between the same nodes are different parts.         *)
Precedes(b1, b2) == b1.offset + Len(b1.messages) <= b2.offset

PartsInv ==
  \A b1, b2 \in Batches :
    b1 # b2 /\ b1.from = b2.from /\ b1.to = b2.to
      => Precedes(b1, b2) \/ Precedes(b2, b1)

BroadcastInv == TypeOK /\ StorageInv /\ BatchInv /\ PartsInv

(* What a node has told a target, according to its offset *)
ToldTo(n, t) == Elements(SubSeq(nums[n], 1, maybeUnknown[n][t]))

Abstract(bs) ==
  {[from |-> b.from, to |-> b.to, values |-> Elements(b.messages)] : b \in bs}

Told == [n \in Node |-> [t \in Node |-> ToldTo(n, t)]]

GossipOfNodes == INSTANCE Gossip WITH
  Notifies <- {p \in Node \X Node : p[2] \in Targets[p[1]]},
  known    <- uniqueNums,
  told     <- Told,
  waiting  <- Abstract(waiting),
  inFlight <- Abstract(inFlight),
  acks     <- Abstract(acks)

(* The vectors and offsets implement the gossip on sets.                   *)
ImplementsGossip == GossipOfNodes!Spec

(* Every value a node was sent is read from every node in the end,         *)
(* whatever the network loses (read.cpp:16).                               *)
Converges ==
  \A v \in Value, n \in Node : v \in accepted ~> v \in Messages(n)

(* In clusters of up to MaxNodes nodes, and with the path lengths of both  *)
(* tasks, a value reaches every node from every node in kMaxPathLength     *)
(* hops, also when the last batch is shorter (distributor.cpp:17-29).      *)
(* Nothing here depends on the state: the first one is enough to check it. *)
RingReachesAll == accepted = {} => ReachesAll(MaxNodes, {3, 6})

AtRest == waiting = {} /\ \A n \in Node : Behind(n) = {}

(* Resending comes to an end: clients have finitely many values, and each  *)
(* call is answered at last.                                               *)
ComesToRest == <>[]AtRest

(* And then there is nothing left to do: whenever no call is open and no   *)
(* target is behind, every node reads all the values clients have handed   *)
(* to any of them, and no others (read.cpp:16).                            *)
RestMeansRead == AtRest => \A n \in Node : Messages(n) = accepted

(* A value that was accepted is somewhere.                                 *)
AcceptedStored == accepted \subseteq UNION {uniqueNums[n] : n \in Node}
=============================================================================
