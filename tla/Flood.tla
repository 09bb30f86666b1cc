-------------------------------- MODULE Flood --------------------------------
(***************************************************************************)
(* Broadcast by flooding, parts 2 and 3 of the broadcast task: a node      *)
(* stores a number and passes it on to its neighbours, with the list of    *)
(* the nodes that need not get it any more.  Part 2 sends each message     *)
(* once; part 3 repeats it until it is answered.                           *)
(*                                                                         *)
(* One number is enough, the handlers never relate two.  How often a node  *)
(* stores it (it does so for each message) is left out.                    *)
(***************************************************************************)
EXTENDS Naturals, FiniteSets

CONSTANTS
  Node,
  Origin,       \* the nodes a client may send the number to
  MaxEdges,     \* bound on the topology
  MaxInFlight,  \* bound on messages in flight before another is repeated
  Copies        \* bound on equal calls that are out at a time

ASSUME FloodAssumption == Origin \subseteq Node

Edges == {{m, n} : m, n \in Node}

Call == [from: Node, to: Node, visited: SUBSET Node, copy: 1..Copies]

VARIABLES
  part,      \* 2 or 3
  topology,  \* the edges, as sets of two nodes
  known,     \* the nodes whose topology has a value
  stored,    \* the nodes with the number in nums
  accepted,  \* the client was answered
  requests,  \* requests on their way
  answers,   \* answers of part 3 on their way
  waiting,   \* at_least_once_ of NetworkProcessor, of all nodes
  healed     \* no message is lost any more

vars == <<part, topology, known, stored, accepted, requests, answers,
          waiting, healed>>

TypeOK ==
  /\ part \in {2, 3}
  /\ topology \subseteq Edges
  /\ known \subseteq Node /\ stored \subseteq Node
  /\ accepted \in BOOLEAN /\ healed \in BOOLEAN
  /\ requests \subseteq Call /\ answers \subseteq Call /\ waiting \subseteq Call
  /\ \A c \in requests : c.from \in c.visited /\ c.from # c.to

Connected(edges) ==
  \A S \in (SUBSET Node) \ {{}, Node} :
    \E m \in S, n \in Node \ S : {m, n} \in edges

Init ==
  /\ part \in {2, 3}
  /\ topology \in {E \in SUBSET Edges :
                     /\ \A e \in E : Cardinality(e) = 2
                     /\ Cardinality(E) <= MaxEdges
                     /\ Connected(E)}
  /\ known = {} /\ stored = {} /\ accepted = FALSE
  /\ requests = {} /\ answers = {} /\ waiting = {}
  /\ healed = (part = 2)

-----------------------------------------------------------------------------

(* TopologyHandler *)
Topology(n) ==
  /\ known' = known \cup {n}
  /\ UNCHANGED <<part, topology, stored, accepted, requests, answers, waiting,
                 healed>>

(* Faulty variants, here and below, are wrong on purpose: README.md says   *)
(* which property notices each of them.                                    *)
NeighboursAndMe(n) == {m \in Node : {m, n} \in topology} \cup {n}

Neighbours(n) == {m \in Node : {m, n} \in topology}

VisitedByMe(n, visited) == {n}

(* The list that goes along: part 2 counts its neighbours as visited *)
NextVisited(n, visited) ==
  visited \cup {n} \cup IF part = 2 THEN Neighbours(n) ELSE {}

(* TopologyHandler has run *)
HasTopology(n) == n \in known

(* DoSpreading: n sends the number to its neighbours; without a topology   *)
(* it throws instead.  Equal calls differ in id, so each gets a copy       *)
(* number of which there is no trace left.                                 *)
Spread(n, visited, others) ==
  IF HasTopology(n)
  THEN \E copy \in [Neighbours(n) \ visited -> 1..Copies] :
         LET calls == {[from |-> n, to |-> m, copy |-> copy[m],
                        visited |-> NextVisited(n, visited)] :
                         m \in Neighbours(n) \ visited}
         IN /\ calls \cap (requests \cup answers \cup waiting) = {}
            /\ requests' = others \cup calls
            /\ waiting' = IF part = 3 THEN waiting \cup calls ELSE waiting
  ELSE requests' = others /\ UNCHANGED waiting

(* BroadcastHandler::Handle for the client's request.  Nothing repeats a   *)
(* message in part 2: there it is assumed that all nodes have a topology   *)
(* by then, as Maelstrom sees to.                                          *)
Broadcast(n) ==
  /\ stored = {}
  /\ part = 2 => known = Node
  /\ stored' = {n}
  /\ Spread(n, {}, requests)
  /\ accepted' = HasTopology(n)
  /\ UNCHANGED <<part, topology, known, answers, healed>>

AnswersAlways(n) == part = 3

(* Nobody waits for an answer in part 2, and after an exception there is none *)
Answers(n) == part = 3 /\ HasTopology(n)

(* The same for a request of a node *)
Handle(c) ==
  /\ c \in requests
  /\ stored' = stored \cup {c.to}
  /\ Spread(c.to, c.visited, requests \ {c})
  /\ answers' = IF Answers(c.to) THEN answers \cup {c} ELSE answers
  /\ UNCHANGED <<part, topology, known, accepted, healed>>

(* NetworkProcessor takes the waiter *)
Receive(c) ==
  /\ c \in answers
  /\ answers' = answers \ {c}
  /\ waiting' = waiting \ {c}
  /\ UNCHANGED <<part, topology, known, stored, accepted, requests, healed>>

(* NetworkProcessor repeats an unanswered call.  It does so late enough    *)
(* for an answer to come back in time, when messages are not lost.         *)
Retransmit(c) ==
  /\ c \in waiting \ requests
  /\ IF healed THEN c \notin answers
                ELSE Cardinality(requests \cup answers) < MaxInFlight
  /\ requests' = requests \cup {c}
  /\ UNCHANGED <<part, topology, known, stored, accepted, answers, waiting,
                 healed>>

-----------------------------------------------------------------------------
(* The network of part 3, until the partition ends.                        *)

LoseRequest(c) ==
  /\ ~healed
  /\ c \in requests
  /\ requests' = requests \ {c}
  /\ UNCHANGED <<part, topology, known, stored, accepted, answers, waiting,
                 healed>>

LoseAnswer(c) ==
  /\ ~healed
  /\ c \in answers
  /\ answers' = answers \ {c}
  /\ UNCHANGED <<part, topology, known, stored, accepted, requests, waiting,
                 healed>>

Heal ==
  /\ ~healed
  /\ healed' = TRUE
  /\ UNCHANGED <<part, topology, known, stored, accepted, requests, answers,
                 waiting>>

Network == \E c \in requests \cup answers \cup waiting :
             Handle(c) \/ Receive(c) \/ Retransmit(c)

Next ==
  \/ \E n \in Node : Topology(n)
  \/ \E n \in Origin : Broadcast(n)
  \/ Network
  \/ \E c \in requests \cup answers : LoseRequest(c) \/ LoseAnswer(c)
  \/ Heal

Spec == Init /\ [][Next]_vars

(* Every node is told its topology, a partition ends, and the nodes and    *)
(* the network go on.                                                      *)
FairSpec ==
  /\ Spec
  /\ \A n \in Node : WF_vars(Topology(n))
  /\ WF_vars(Heal)
  /\ WF_vars(Network)

-----------------------------------------------------------------------------

(* The number is in the answer of ReadHandler *)
Read(n) == n \in stored

(* No message is on its way and no call is repeated any more *)
Quiet == requests = {} /\ waiting = {}

(* Flooding reaches everybody on any connected topology: when the client   *)
(* was answered and the nodes are quiet, all have the number, although     *)
(* they leave out neighbours and a node may get the number before its      *)
(* topology (part2/src/handlers.cpp:16-35, part3/include/handlers.hpp:     *)
(* 40-54).                                                                 *)
QuietMeansSpread == accepted /\ Quiet => \A n \in Node : Read(n)

(* What it rests on.  A partition is a matter of part 3, no node is its    *)
(* own neighbour, and calls go to neighbours that have not been visited.   *)
NetworkInv ==
  /\ part = 2 => healed /\ waiting = {} /\ (requests # {} => known = Node)
  /\ Connected(topology) /\ \A n \in Node : n \notin Neighbours(n)
  /\ \A c \in waiting : c.from \in c.visited /\ c.from # c.to

(* A request that is neither sent for the only time nor repeated has come  *)
(* before.  The nodes that have the number or will get it include all that *)
(* the lists leave out ...                                                 *)
Coming == IF part = 2 THEN requests ELSE waiting

Reached == stored \cup {c.to : c \in Coming}

ListInv ==
  /\ \A c \in requests : c \in Coming \/ c.to \in stored
  /\ \A c \in requests \cup waiting : c.visited \subseteq Reached

(* ... and all neighbours of a node that has passed the number on, as has  *)
(* one that has answered; any other node with the number will be asked     *)
(* again, unless a client was given an exception.                          *)
Served(n) == n \in stored /\ Neighbours(n) \subseteq Reached

SpreadInv ==
  /\ accepted => stored # {}
  /\ \A c \in answers : Served(c.to)
  /\ accepted => \A n \in stored : Served(n) \/ \E c \in Coming : c.to = n

FloodInv == TypeOK /\ NetworkInv /\ ListInv /\ SpreadInv

(* Passing a number on comes to an end: it does not go round in circles,   *)
(* and every call is answered in the end (part3/include/handlers.hpp:45).  *)
FloodEnds == <>[]Quiet
=============================================================================
