------------------------------ MODULE GCounter ------------------------------
(***************************************************************************)
(* The grow-only counter (tasks/gcounter): AddHandler, ReadHandler with    *)
(* its cache, and OrdererWorker, over the sequentially consistent          *)
(* key-value service seq-kv.  Each node adds to the cell of its own name.  *)
(*                                                                         *)
(* A handler runs up to its next co_await, so a step here is a request     *)
(* being served and the handler going on with the answer; requests of      *)
(* handlers that run at the same time are served in any order.             *)
(***************************************************************************)
EXTENDS Naturals, Sequences, FiniteSets, Functions

CONSTANTS
  Node,         \* the nodes, and the keys of their cells
  Add,          \* the add requests
  Read,         \* the read requests
  At,           \* the node each request is sent to
  Delta,        \* the delta of each add request
  MaxRequests,  \* bound: how many of the requests are sent
  Missing       \* a cell that does not exist

ASSUME GCounterAssumption ==
  /\ At \in [Add \cup Read -> Node]
  /\ Delta \in [Add -> Nat]
  /\ MaxRequests \in Nat
  /\ Missing \notin Nat
  /\ IsFiniteSet(Node) /\ IsFiniteSet(Add)

VARIABLES
  versions,    \* seq-kv: all the versions of the cells, the last is current
  seen,        \* seq-kv: the version each node has seen
  local,       \* local.value of each node
  addPc,       \* what an AddHandler awaits
  guess,       \* its guess of the cell's value
  readPc,      \* what a ReadHandler awaits
  results,     \* the cells a ReadHandler has got, as far as answered
  reply,       \* the value a read request was answered with
  floor,       \* the acknowledged adds of a node when it started to read
  cacheValid,  \* cache.valid_to has a value that has not passed
  cacheValue   \* cache.value

kvVars   == <<versions, seen>>
addVars  == <<local, addPc, guess>>
readVars == <<readPc, results, reply, floor>>
cacheVars == <<cacheValid, cacheValue>>
vars == <<kvVars, addVars, readVars, cacheVars>>

INSTANCE KeyValueStorage WITH Client <- Node, Key <- Node

Cell == Nat \cup {Missing}

TypeOK ==
  /\ KvTypeOK(Nat)
  /\ local \in [Node -> Nat]
  /\ addPc \in [Add -> {"idle", "cas", "read", "thrown", "done"}]
  /\ guess \in [Add -> Nat]
  /\ readPc \in [Read -> {"idle", "reading", "cached", "done"}]
  /\ DOMAIN results = Read
  /\ \A r \in Read : results[r] \in [DOMAIN results[r] -> Cell]
                     /\ DOMAIN results[r] \subseteq Node
  /\ reply \in [Read -> Nat]
  /\ floor \in [Read -> Nat]
  /\ cacheValid \in [Node -> BOOLEAN]
  /\ cacheValue \in [Node -> Nat]

Init ==
  /\ KvInit
  /\ local = [n \in Node |-> 0]
  /\ addPc = [a \in Add |-> "idle"]
  /\ guess = [a \in Add |-> 0]
  /\ readPc = [r \in Read |-> "idle"]
  /\ results = [r \in Read |-> <<>>]
  /\ reply = [r \in Read |-> 0]
  /\ floor = [r \in Read |-> 0]
  /\ cacheValid = [n \in Node |-> FALSE]
  /\ cacheValue = [n \in Node |-> 0]

MayRequest ==
  Cardinality({a \in Add : addPc[a] # "idle"})
    + Cardinality({r \in Read : readPc[r] # "idle"}) < MaxRequests

-----------------------------------------------------------------------------
(* AddHandler::Handle.                                                     *)

(* Faulty variants, here and below, are wrong on purpose: README.md says   *)
(* which property notices each of them.                                    *)
LocalMinus(a) == local[At[a]] - Delta[a]

(* fetch_add leaves this in local.value *)
LocalPlus(a) == local[At[a]] + Delta[a]

(* fetch_add on local.value, then the first CompareAndSwap is sent *)
StartAdd(a) ==
  /\ addPc[a] = "idle" /\ MayRequest
  /\ addPc' = [addPc EXCEPT ![a] = "cas"]
  /\ guess' = [guess EXCEPT ![a] = local[At[a]]]
  /\ local' = [local EXCEPT ![At[a]] = LocalPlus(a)]
  /\ UNCHANGED <<kvVars, readVars, cacheVars>>

DeltaOnly(a) == Delta[a]

(* What the swap puts in the place of the guess *)
Swapped(a) == guess[a] + Delta[a]

(* The swap succeeds, the client gets its answer and the guess is gone *)
AddSucceeds(a) ==
  /\ addPc[a] = "cas"
  /\ \/ CasSucceeds(At[a], At[a], guess[a], Swapped(a))
     \/ CasKeeps(At[a], At[a], guess[a], Swapped(a))
  /\ addPc' = [addPc EXCEPT ![a] = "done"]
  /\ guess' = [guess EXCEPT ![a] = 0]
  /\ UNCHANGED <<local, readVars, cacheVars>>

(* It fails and the cell is read *)
AddFails(a) ==
  /\ addPc[a] = "cas"
  /\ CasFails(At[a], At[a], guess[a])
  /\ addPc' = [addPc EXCEPT ![a] = "read"]
  /\ UNCHANGED <<local, guess, readVars, cacheVars>>

(* .value() of the answer is the new guess; it throws if that is an error *)
AddReads(a) ==
  /\ addPc[a] = "read"
  /\ \E i \in DOMAIN versions :
       /\ ServedAt(At[a], i)
       /\ IF versions[i][At[a]] = Missing
          THEN addPc' = [addPc EXCEPT ![a] = "thrown"] /\ UNCHANGED guess
          ELSE /\ addPc' = [addPc EXCEPT ![a] = "cas"]
               /\ guess' = [guess EXCEPT ![a] = versions[i][At[a]]]
  /\ UNCHANGED <<local, readVars, cacheVars>>

-----------------------------------------------------------------------------
(* ReadHandler::Handle and ReadHandler::Read.                              *)

AckedAt(n) ==
  SumFunctionOnSet(Delta, {a \in Add : At[a] = n /\ addPc[a] = "done"})

(* A value in the cache is the answer *)
ReadCached(r) ==
  /\ readPc[r] = "idle" /\ MayRequest
  /\ cacheValid[At[r]]
  /\ readPc' = [readPc EXCEPT ![r] = "cached"]
  /\ reply' = [reply EXCEPT ![r] = cacheValue[At[r]]]
  /\ UNCHANGED <<kvVars, addVars, results, floor, cacheVars>>

(* Otherwise every cell is read, in any order *)
StartRead(r) ==
  /\ readPc[r] = "idle" /\ MayRequest
  /\ ~cacheValid[At[r]]
  /\ readPc' = [readPc EXCEPT ![r] = "reading"]
  /\ floor' = [floor EXCEPT ![r] = AckedAt(At[r])]
  /\ UNCHANGED <<kvVars, addVars, results, reply, cacheVars>>

ReadCell(r, key) ==
  /\ readPc[r] = "reading"
  /\ key \notin DOMAIN results[r]
  /\ \E i \in DOMAIN versions :
       /\ ServedAt(At[r], i)
       /\ results' = [results EXCEPT ![r] =
            [k \in DOMAIN @ \cup {key} |-> IF k = key THEN versions[i][key]
                                                      ELSE @[k]]]
  /\ UNCHANGED <<addVars, readPc, reply, floor, cacheVars>>

(* A missing cell counts as 0 *)
Counted(cell) == IF cell = Missing THEN 0 ELSE cell

Total(cells) == SumFunction([k \in DOMAIN cells |-> Counted(cells[k])])

SumOnCache(r) == Total(results[r]) + cacheValue[At[r]]

SumOfCells(r) == Total(results[r])

(* WhenAll has all the cells; their sum is cached and returned. *)
FinishRead(r) ==
  /\ readPc[r] = "reading"
  /\ DOMAIN results[r] = Node
  /\ readPc' = [readPc EXCEPT ![r] = "done"]
  /\ results' = [results EXCEPT ![r] = <<>>]
  /\ reply' = [reply EXCEPT ![r] = SumOfCells(r)]
  /\ cacheValue' = [cacheValue EXCEPT ![At[r]] = SumOfCells(r)]
  /\ cacheValid' = [cacheValid EXCEPT ![At[r]] = TRUE]
  /\ UNCHANGED <<kvVars, addVars, floor>>

(* kCacheInvalidationTimeout passes *)
ExpireCache(n) ==
  /\ cacheValid[n]
  /\ cacheValid' = [cacheValid EXCEPT ![n] = FALSE]
  /\ UNCHANGED <<kvVars, addVars, readVars, cacheValue>>

-----------------------------------------------------------------------------
(* OrdererWorker::Process swaps 0 for 0 in every cell, which creates the   *)
(* cell if it is missing.  The requests are served independently.          *)
Order(n, key) ==
  \/ Last[key] = Missing /\ CasSucceeds(n, key, 0, 0)
  \/ \E i \in DOMAIN versions : ServedAt(n, i) /\ versions[i][key] # Missing

Orderer ==
  /\ \E n \in Node, key \in Node : Order(n, key)
  /\ UNCHANGED <<addVars, readVars, cacheVars>>

-----------------------------------------------------------------------------
AddStep(a) == StartAdd(a) \/ AddSucceeds(a) \/ AddFails(a) \/ AddReads(a)

ReadStep(r) ==
  \/ ReadCached(r) \/ StartRead(r) \/ FinishRead(r)
  \/ \E key \in Node : ReadCell(r, key)

Next ==
  \/ \E a \in Add : AddStep(a)
  \/ \E r \in Read : ReadStep(r)
  \/ \E n \in Node : ExpireCache(n)
  \/ Orderer

Spec == Init /\ [][Next]_vars

(* Requests are served, in the end, and handlers go on when they are.      *)
FairSpec == Spec /\ \A a \in Add : WF_vars(AddStep(a) /\ addPc[a] # "idle")

-----------------------------------------------------------------------------

CurrentTotal == Total(Last)

(* An acknowledged add is in its node's cell for good, also when other     *)
(* adds of the node raced with it and the orderer created the cell in      *)
(* between (operations.cpp:29-37, 111).                                    *)
AckedAddsCounted == \A n \in Node : AckedAt(n) <= Counted(Last[n])

(* A node that reads the cells sees all the adds it had acknowledged when  *)
(* it started (operations.cpp:57, 82-93).                                  *)
ReadsOwnAdds == \A r \in Read : readPc[r] = "done" => reply[r] >= floor[r]

(* Neither an answer nor the cache is ever ahead of the counter, although  *)
(* the cells are read at different versions (operations.cpp:57-63, 82-93). *)
NeverAhead ==
  /\ \A r \in Read : readPc[r] \in {"cached", "done"} => reply[r] <= CurrentTotal
  /\ \A n \in Node : cacheValid[n] => cacheValue[n] <= CurrentTotal

(* What makes these inductive.  A cell never shrinks and never goes away   *)
(* again, so what a node has seen of it stays a lower bound.               *)
CellsGrow ==
  \A i, j \in DOMAIN versions :
    i <= j => \A k \in Node :
      versions[i][k] # Missing => /\ versions[j][k] # Missing
                                  /\ versions[i][k] <= versions[j][k]

(* The adds a node has acknowledged are in the version it has seen: its    *)
(* swap took it there.                                                     *)
OwnAddsSeen == \A n \in Node : AckedAt(n) <= Counted(versions[seen[n]][n])

(* A read in the loop of an add finds the cell, and does not throw.        *)
CellFound ==
  \A a \in Add : /\ addPc[a] # "thrown"
                 /\ addPc[a] = "read" => versions[seen[At[a]]][At[a]] # Missing

(* A read that is under way has the adds of its own node, and no cell of   *)
(* its results is ahead of the store.                                      *)
ResultsBetween ==
  \A r \in Read :
    /\ readPc[r] # "reading" => DOMAIN results[r] = {}
    /\ readPc[r] = "reading" =>
         /\ floor[r] <= AckedAt(At[r])
         /\ At[r] \in DOMAIN results[r] =>
              floor[r] <= Counted(results[r][At[r]])
    /\ \A k \in DOMAIN results[r] : Counted(results[r][k]) <= Counted(Last[k])

(* Also a value whose time has passed, or an answer not given yet.         *)
AllBehind ==
  /\ \A r \in Read : reply[r] <= CurrentTotal
  /\ \A n \in Node : cacheValue[n] <= CurrentTotal

CounterInv ==
  TypeOK /\ CellsGrow /\ OwnAddsSeen /\ CellFound /\ ResultsBetween
    /\ AllBehind /\ ReadsOwnAdds

(* Every add is acknowledged in the end: a swap only fails because the     *)
(* node has learnt of another add, and the .value() on the answer of the   *)
(* read in the loop never throws, since the node does not go back to       *)
(* before the cell existed (operations.cpp:31-35).                         *)
AddsAnswered == \A a \in Add : addPc[a] = "cas" ~> addPc[a] = "done"

StartedAt(n) ==
  SumFunctionOnSet(Delta, {a \in Add : At[a] = n /\ addPc[a] # "idle"})

(* tasks/gcounter/README.md, line 4: an add increases the counter by the   *)
(* delta it got.  An add whose guess already counts another one can create *)
(* the cell before that one's swap is served; the other then counts its    *)
(* delta again (operations.cpp:29-35).                                     *)
CountedOnce == \A n \in Node : Counted(Last[n]) <= StartedAt(n)
=============================================================================
