-------------------------- MODULE DistributorRing --------------------------
(***************************************************************************)
(* Whom a node of the broadcast tasks 4 and 5 notifies:                    *)
(* DistributorWorker::Start.  The nodes n0, n1, ... are cut into batches   *)
(* of equal size and every node notifies the batch that follows its own.   *)
(***************************************************************************)
EXTENDS Naturals

(* Rounded up, so that kMaxPathLength batches hold all the nodes *)
BatchSize(nodesCount, kMaxPathLength) ==
  (nodesCount + kMaxPathLength - 1) \div kMaxPathLength

(* Faulty variants of the targets, for the checks of README.md *)
OwnBatch(from, nodesCount, kMaxPathLength) ==
  LET batchSize == BatchSize(nodesCount, kMaxPathLength)
  IN {((from \div batchSize) * batchSize + i) % nodesCount : i \in 0 .. batchSize - 1}

NextBatchCut(from, nodesCount, kMaxPathLength) ==
  LET batchSize == BatchSize(nodesCount, kMaxPathLength)
  IN {((from \div batchSize + 1) * batchSize + i) % nodesCount : i \in 0 .. batchSize - 2}

NodeIdsForNotify(from, nodesCount, kMaxPathLength) ==
  LET batchSize  == BatchSize(nodesCount, kMaxPathLength)
      batchIndex == from \div batchSize
  IN {((batchIndex + 1) * batchSize + i) % nodesCount : i \in 0 .. batchSize - 1}

-----------------------------------------------------------------------------
(* The nodes that have a value some hops after the first one got it *)
Reached(first, nodesCount, kMaxPathLength) ==
  LET reached[hops \in 0 .. kMaxPathLength] ==
        IF hops = 0 THEN {first}
        ELSE reached[hops - 1] \cup
             UNION {NodeIdsForNotify(n, nodesCount, kMaxPathLength) :
                      n \in reached[hops - 1]}
  IN reached[kMaxPathLength]

(* A value has reached every node after kMaxPathLength hops, whichever     *)
(* node it started from and also when the last batch is shorter than the   *)
(* others and the targets wrap around (distributor.cpp:17-29).             *)
ReachesAll(maxNodes, pathLengths) ==
  \A nodesCount \in 1 .. maxNodes, kMaxPathLength \in pathLengths :
    \A first \in 0 .. nodesCount - 1 :
      Reached(first, nodesCount, kMaxPathLength) = 0 .. nodesCount - 1
=============================================================================
