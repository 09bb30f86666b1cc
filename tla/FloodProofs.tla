----------------------------- MODULE FloodProofs -----------------------------
(***************************************************************************)
(* Theorems about Flood, for every set of nodes and every connected        *)
(* topology: flooding misses nobody, although nodes are left out of the    *)
(* passing on and messages are lost and repeated.                          *)
(***************************************************************************)
EXTENDS Flood, FiniteSetTheorems, TLAPS

(* The calls of a node with a topology that passes the number on           *)
NewCalls(n, visited, others, calls) ==
  /\ calls \subseteq Call
  /\ \A c \in calls : /\ c.from = n /\ c.to \in Neighbours(n) \ visited
                      /\ c.visited = NextVisited(n, visited)
  /\ \A m \in Neighbours(n) \ visited : \E c \in calls : c.to = m
  /\ requests' = others \cup calls
  /\ waiting' = IF part = 3 THEN waiting \cup calls ELSE waiting

LEMMA SpreadCalls ==
  ASSUME NEW n \in Node, NEW visited \in SUBSET Node, NEW others,
         HasTopology(n), Spread(n, visited, others)
  PROVE  \E calls : NewCalls(n, visited, others, calls)
<1> DEFINE call(copy, m) == [from |-> n, to |-> m, copy |-> copy[m],
                             visited |-> NextVisited(n, visited)]
           Calls(copy) == {call(copy, m) : m \in Neighbours(n) \ visited}
<1>1. PICK copy \in [Neighbours(n) \ visited -> 1..Copies] :
        /\ requests' = others \cup Calls(copy)
        /\ waiting' = IF part = 3 THEN waiting \cup Calls(copy) ELSE waiting
  BY DEF Spread
<1>2. Neighbours(n) \subseteq Node /\ NextVisited(n, visited) \in SUBSET Node
  BY DEF Neighbours, NextVisited
<1>3. ASSUME NEW m \in Neighbours(n) \ visited
      PROVE  /\ call(copy, m) \in Call /\ call(copy, m).from = n
             /\ call(copy, m).to = m
             /\ call(copy, m).visited = NextVisited(n, visited)
  <2>1. copy[m] \in 1..Copies /\ m \in Node
    BY <1>2
  <2> QED
    BY <1>2, <2>1 DEF Call
<1> HIDE DEF call
<1> DEFINE calls == Calls(copy)
<1>4. \A c \in calls : /\ c \in Call /\ c.from = n
                       /\ c.to \in Neighbours(n) \ visited
                       /\ c.visited = NextVisited(n, visited)
  BY <1>3
<1>5. \A m \in Neighbours(n) \ visited : \E c \in calls : c.to = m
  BY <1>3
<1>6. /\ requests' = others \cup calls
      /\ waiting' = IF part = 3 THEN waiting \cup calls ELSE waiting
  BY <1>1
<1> HIDE DEF calls
<1>7. NewCalls(n, visited, others, calls)
  BY <1>4, <1>5, <1>6 DEF NewCalls
<1> QED
  BY <1>7

(* What is left of the invariant when a node has the number and passes it  *)
(* on: nobody that was reached is forgotten, and the node is served.       *)
LEMMA PassedOn ==
  ASSUME FloodInv, NEW n \in Node, NEW visited \in SUBSET Node,
         NEW others \in SUBSET requests,
         \A c \in requests : c \in others \/ c.to = n,
         visited \subseteq Reached, part = 2 => known = Node,
         HasTopology(n), Spread(n, visited, others),
         stored' = stored \cup {n}, UNCHANGED <<part, topology, known, healed>>
  PROVE  /\ Reached \subseteq Reached' /\ Served(n)'
         /\ requests' \subseteq Call /\ waiting \subseteq waiting'
         /\ waiting' \subseteq Call
         /\ \A c \in requests' \cup waiting' :
              c.from \in c.visited /\ c.from # c.to
         /\ NetworkInv' /\ ListInv'
<1> USE DEF FloodInv
<1>1. PICK calls : NewCalls(n, visited, others, calls)
  BY SpreadCalls
<1>2. /\ part \in {2, 3} /\ requests \subseteq Call /\ waiting \subseteq Call
      /\ \A c \in requests : c.from \in c.visited /\ c.from # c.to
  BY DEF TypeOK
<1>3. Neighbours(n)' = Neighbours(n) /\ \A m : Neighbours(m)' = Neighbours(m)
  BY DEF Neighbours
<1>4. Reached \subseteq Reached'
  BY <1>1, <1>2 DEF Reached, Coming, NewCalls
<1>5. \A c \in calls : c \in Coming' /\ c.to \in Reached'
  BY <1>1, <1>2 DEF Reached, Coming, NewCalls
<1>6. Neighbours(n) \subseteq Reached'
  BY <1>1, <1>4, <1>5 DEF NewCalls
<1>7. Served(n)'
  BY <1>3, <1>6 DEF Served
<1>8. NextVisited(n, visited) \subseteq Reached' /\ n \in NextVisited(n, visited)
  BY <1>4, <1>6 DEF NextVisited, Reached
<1>9. n \notin Neighbours(n)
  BY DEF NetworkInv
<1>10. \A c \in calls : /\ c.from \in c.visited /\ c.from # c.to
                        /\ c.visited \subseteq Reached'
  BY <1>1, <1>8, <1>9 DEF NewCalls
<1>11. /\ requests' = others \cup calls
       /\ waiting' = IF part = 3 THEN waiting \cup calls ELSE waiting
       /\ calls \subseteq Call
  BY <1>1 DEF NewCalls
<1>12. \A c \in requests' \cup waiting' : c.from \in c.visited /\ c.from # c.to
  BY <1>2, <1>10, <1>11 DEF NetworkInv
<1>13. NetworkInv'
  BY <1>2, <1>3, <1>11, <1>12 DEF NetworkInv
<1>14. ListInv'
  <2>1. ASSUME NEW c \in requests' PROVE c \in Coming' \/ c.to \in stored'
    <3>1. CASE c \in calls
      BY <1>5, <3>1
    <3>2. CASE c \in others
      BY <1>2, <1>11, <3>2 DEF ListInv, Coming
    <3> QED
      BY <1>11, <3>1, <3>2
  <2>2. \A c \in requests' \cup waiting' : c.visited \subseteq Reached'
    BY <1>4, <1>10, <1>11 DEF ListInv
  <2> QED
    BY <2>1, <2>2 DEF ListInv
<1> QED
  BY <1>2, <1>4, <1>7, <1>11, <1>12, <1>13, <1>14

LEMMA BroadcastStep ==
  ASSUME FloodInv, NEW n \in Origin, n \in Node, Broadcast(n)
  PROVE  FloodInv'
<1> USE DEF FloodInv
<1>1. /\ stored = {} /\ stored' = {n} /\ (part = 2 => known = Node)
      /\ Spread(n, {}, requests) /\ accepted' = HasTopology(n)
      /\ UNCHANGED <<part, topology, known, answers, healed>>
  BY DEF Broadcast
<1>2. answers = {} /\ ~accepted
  BY <1>1 DEF SpreadInv, Served
<1>3. CASE HasTopology(n)
  <2>1. /\ Reached \subseteq Reached' /\ Served(n)'
        /\ requests' \subseteq Call /\ waiting' \subseteq Call
        /\ \A c \in requests' : c.from \in c.visited /\ c.from # c.to
        /\ NetworkInv' /\ ListInv'
    <3>1. stored' = stored \cup {n} /\ {} \in SUBSET Node
      BY <1>1
    <3> QED
      BY <1>1, <1>3, <3>1, PassedOn
  <2>2. SpreadInv'
    BY <1>1, <1>2, <2>1 DEF SpreadInv
  <2>3. TypeOK'
    BY <1>1, <2>1 DEF TypeOK, HasTopology
  <2> QED
    BY <2>1, <2>2, <2>3
<1>4. CASE ~HasTopology(n)
  <2>1. requests' = requests /\ waiting' = waiting /\ accepted' = FALSE
    BY <1>1, <1>4 DEF Spread
  <2>2. TypeOK'
    BY <1>1, <2>1 DEF TypeOK
  <2>3. Reached \subseteq Reached' /\ Coming' = Coming
    BY <1>1, <2>1 DEF Reached, Coming
  <2>4. NetworkInv'
    BY <1>1, <2>1 DEF NetworkInv, Neighbours
  <2>5. ListInv'
    BY <1>1, <2>1, <2>3 DEF ListInv
  <2>6. SpreadInv'
    BY <1>1, <1>2, <2>1 DEF SpreadInv
  <2> QED
    BY <2>2, <2>4, <2>5, <2>6
<1> QED
  BY <1>3, <1>4

LEMMA HandleStep ==
  ASSUME FloodInv, NEW c, Handle(c)
  PROVE  FloodInv'
<1> USE DEF FloodInv
<1>1. /\ c \in requests /\ stored' = stored \cup {c.to}
      /\ Spread(c.to, c.visited, requests \ {c})
      /\ answers' = IF Answers(c.to) THEN answers \cup {c} ELSE answers
      /\ UNCHANGED <<part, topology, known, accepted, healed>>
  BY DEF Handle
<1>2. c \in Call /\ c.to \in Node /\ c.visited \in SUBSET Node
  BY <1>1 DEF TypeOK, Call
<1>3. c.visited \subseteq Reached /\ (part = 2 => known = Node) /\ part \in {2, 3}
  BY <1>1 DEF ListInv, NetworkInv, TypeOK
<1>4. \A m : Neighbours(m)' = Neighbours(m)
  BY <1>1 DEF Neighbours
<1>5. CASE HasTopology(c.to)
  <2>1. /\ Reached \subseteq Reached' /\ Served(c.to)'
        /\ requests' \subseteq Call /\ waiting' \subseteq Call
        /\ waiting \subseteq waiting'
        /\ \A d \in requests' : d.from \in d.visited /\ d.from # d.to
        /\ NetworkInv' /\ ListInv'
    BY <1>1, <1>2, <1>3, <1>5, PassedOn
  <2>2. \A n \in Node : Served(n) => Served(n)'
    BY <1>1, <1>4, <2>1 DEF Served
  <2>3. ASSUME accepted, NEW n \in stored'
        PROVE  Served(n)' \/ \E d \in Coming' : d.to = n
    <3>1. CASE n = c.to
      BY <2>1, <3>1
    <3>2. CASE n # c.to
      <4>1. n \in stored /\ n \in Node
        BY <1>1, <3>2 DEF TypeOK
      <4>2. CASE Served(n)
        BY <2>2, <4>1, <4>2
      <4>3. ASSUME NEW d \in Coming, d.to = n PROVE d \in Coming'
        <5>1. PICK calls : NewCalls(c.to, c.visited, requests \ {c}, calls)
          BY <1>1, <1>2, <1>5, SpreadCalls
        <5> QED
          BY <1>1, <3>2, <4>3, <5>1, <2>1 DEF Coming, NewCalls
      <4> QED
        BY <2>3, <4>1, <4>2, <4>3 DEF SpreadInv
    <3> QED
      BY <3>1, <3>2
  <2>4. SpreadInv'
    <3>1. \A d \in answers' : d.to \in Node /\ Served(d.to)'
      <4>1. \A d \in answers : d.to \in Node
        BY DEF TypeOK, Call
      <4> QED
        BY <1>1, <1>2, <2>1, <2>2, <4>1 DEF SpreadInv
    <3>2. stored' # {}
      BY <1>1
    <3> QED
      BY <1>1, <2>3, <3>1, <3>2 DEF SpreadInv
  <2>5. TypeOK'
    BY <1>1, <1>2, <2>1 DEF TypeOK
  <2> QED
    BY <2>1, <2>4, <2>5
<1>6. CASE ~HasTopology(c.to)
  <2>1. part = 3
    BY <1>2, <1>3, <1>6 DEF HasTopology
  <2>2. /\ requests' = requests \ {c} /\ waiting' = waiting /\ answers' = answers
    BY <1>1, <1>6 DEF Spread, Answers
  <2>3. Reached \subseteq Reached' /\ Coming' = Coming /\ Coming = waiting
    BY <1>1, <2>1, <2>2 DEF Reached, Coming
  <2>4. \A n \in Node : Served(n) => Served(n)'
    BY <1>1, <1>4, <2>3 DEF Served
  <2>5. TypeOK'
    BY <1>1, <1>2, <2>2 DEF TypeOK
  <2>6. NetworkInv'
    BY <1>1, <1>4, <2>1, <2>2 DEF NetworkInv
  <2>7. ListInv'
    BY <1>1, <2>2, <2>3 DEF ListInv
  <2>8. SpreadInv'
    <3>1. ASSUME accepted, NEW n \in stored'
          PROVE  Served(n)' \/ \E d \in Coming' : d.to = n
      <4>1. CASE n \in stored
        <5>1. n \in Node
          BY <4>1 DEF TypeOK
        <5> QED
          BY <2>3, <2>4, <3>1, <4>1, <5>1 DEF SpreadInv
      <4>2. CASE n \notin stored
        <5>1. n = c.to
          BY <1>1, <4>2
        <5>2. c \in Coming
          BY <1>1, <4>2, <5>1 DEF ListInv
        <5> QED
          BY <2>3, <5>1, <5>2
      <4> QED
        BY <4>1, <4>2
    <3>2. \A d \in answers : d.to \in Node
      BY DEF TypeOK, Call
    <3> QED
      BY <1>1, <2>2, <2>4, <3>1, <3>2 DEF SpreadInv
  <2> QED
    BY <2>5, <2>6, <2>7, <2>8
<1> QED
  BY <1>5, <1>6

(* An answered call is not needed any more: its target has been served.    *)
LEMMA ReceiveStep ==
  ASSUME FloodInv, NEW c, Receive(c)
  PROVE  FloodInv'
<1> USE DEF FloodInv
<1>1. /\ c \in answers /\ answers' = answers \ {c} /\ waiting' = waiting \ {c}
      /\ UNCHANGED <<part, topology, known, stored, accepted, requests, healed>>
  BY DEF Receive
<1>2. c.to \in stored /\ Served(c.to)
  BY <1>1 DEF SpreadInv, Served
<1>3. Reached' = Reached /\ Coming' \subseteq Coming
      /\ \A d \in Coming : d \in Coming' \/ d = c
  BY <1>1, <1>2 DEF Reached, Coming
<1>4. \A m : Neighbours(m)' = Neighbours(m)
  BY <1>1 DEF Neighbours
<1>5. \A n : Served(n)' <=> Served(n)
  BY <1>1, <1>3, <1>4 DEF Served
<1>6. TypeOK'
  BY <1>1 DEF TypeOK
<1>7. NetworkInv'
  BY <1>1, <1>4 DEF NetworkInv
<1>8. ListInv'
  BY <1>1, <1>2, <1>3 DEF ListInv
<1>9. SpreadInv'
  BY <1>1, <1>2, <1>3, <1>5 DEF SpreadInv
<1> QED
  BY <1>6, <1>7, <1>8, <1>9

(* The steps that leave the number and the calls that are open alone       *)
LEMMA OtherSteps ==
  ASSUME FloodInv, UNCHANGED <<part, topology, stored, accepted, waiting>>,
         known \subseteq known', known' \subseteq Node,
         healed' \in BOOLEAN, healed => healed',
         answers' \subseteq answers, requests' \subseteq requests \cup waiting,
         part = 2 => requests \subseteq requests'
  PROVE  FloodInv'
<1> USE DEF FloodInv
<1>1. part \in {2, 3} /\ (part = 2 => waiting = {})
  BY DEF TypeOK, NetworkInv
<1>2. Coming' = Coming /\ Reached' = Reached
  BY <1>1 DEF Reached, Coming
<1>3. \A m : Neighbours(m)' = Neighbours(m)
  BY DEF Neighbours
<1>4. \A n : Served(n)' <=> Served(n)
  BY <1>2, <1>3 DEF Served
<1>5. TypeOK'
  BY DEF TypeOK, NetworkInv
<1>6. NetworkInv'
  BY <1>1, <1>3 DEF NetworkInv
<1>7. ListInv'
  BY <1>1, <1>2 DEF ListInv, Coming
<1>8. SpreadInv'
  BY <1>2, <1>4 DEF SpreadInv
<1> QED
  BY <1>5, <1>6, <1>7, <1>8

(* The nodes reached so far include all that the lists leave out and all   *)
(* the neighbours of a node that has passed the number on, and a node that *)
(* has it without having done that will be asked again.                    *)
THEOREM FloodInvCorrect == Spec => []FloodInv
<1>1. Init => FloodInv
  <2> SUFFICES ASSUME Init PROVE FloodInv
    OBVIOUS
  <2>1. /\ part \in {2, 3} /\ known = {} /\ stored = {} /\ accepted = FALSE
        /\ requests = {} /\ answers = {} /\ waiting = {}
        /\ healed = (part = 2)
    BY DEF Init
  <2>2. /\ topology \in SUBSET Edges
        /\ \A e \in topology : Cardinality(e) = 2
        /\ Connected(topology)
    BY DEF Init
  <2>3. ASSUME NEW n \in Node PROVE n \notin Neighbours(n)
    <3>1. {n, n} = {n}
      OBVIOUS
    <3>2. Cardinality({n}) = 1
      BY FS_Singleton
    <3> QED
      BY <2>2, <3>1, <3>2 DEF Neighbours
  <2>4. TypeOK
    BY <2>1, <2>2 DEF TypeOK
  <2>5. NetworkInv
    BY <2>1, <2>2, <2>3 DEF NetworkInv
  <2>6. ListInv /\ SpreadInv
    BY <2>1 DEF ListInv, SpreadInv
  <2> QED
    BY <2>4, <2>5, <2>6 DEF FloodInv
<1>2. FloodInv /\ [Next]_vars => FloodInv'
  <2> SUFFICES ASSUME FloodInv, [Next]_vars PROVE FloodInv'
    OBVIOUS
  <2>0. known \subseteq Node /\ healed \in BOOLEAN /\ (part = 2 => healed)
    BY DEF FloodInv, TypeOK, NetworkInv
  <2>1. ASSUME NEW n \in Node, Topology(n) PROVE FloodInv'
    BY <2>0, <2>1, OtherSteps DEF Topology
  <2>2. ASSUME NEW n \in Origin, Broadcast(n) PROVE FloodInv'
    BY <2>2, BroadcastStep, FloodAssumption DEF FloodAssumption
  <2>3. ASSUME NEW c, Handle(c) PROVE FloodInv'
    BY <2>3, HandleStep
  <2>4. ASSUME NEW c, Receive(c) PROVE FloodInv'
    BY <2>4, ReceiveStep
  <2>5. ASSUME NEW c, Retransmit(c) PROVE FloodInv'
    <3>1. c \in waiting /\ requests' = requests \cup {c}
          /\ UNCHANGED <<part, topology, known, stored, accepted, answers, waiting,
                         healed>>
      BY <2>5 DEF Retransmit
    <3> QED
      BY <2>0, <3>1, OtherSteps
  <2>6. ASSUME NEW c, LoseRequest(c) \/ LoseAnswer(c) PROVE FloodInv'
    BY <2>0, <2>6, OtherSteps DEF LoseRequest, LoseAnswer
  <2>7. CASE Heal
    BY <2>0, <2>7, OtherSteps DEF Heal
  <2>8. CASE UNCHANGED vars
    BY <2>0, <2>8, OtherSteps DEF vars
  <2> QED
    BY <2>1, <2>2, <2>3, <2>4, <2>5, <2>6, <2>7, <2>8 DEF Next, Network
<1> QED
  BY <1>1, <1>2, PTL DEF Spec

(* Every state has the types of the program's, and no node sends to        *)
(* itself.                                                                 *)
THEOREM TypeCorrect == Spec => []TypeOK
<1>1. FloodInv => TypeOK
  BY DEF FloodInv
<1> QED
  BY <1>1, FloodInvCorrect, PTL

(* When the client was answered and the nodes are quiet, all of them have  *)
(* the number: those that have it are not cut off from the others          *)
(* (part2/src/handlers.cpp:16-35, part3/include/handlers.hpp:40-54).       *)
THEOREM QuietMeansSpreadCorrect == Spec => []QuietMeansSpread
<1>1. FloodInv => QuietMeansSpread
  <2> SUFFICES ASSUME FloodInv, accepted, Quiet, stored # Node PROVE FALSE
    BY DEF QuietMeansSpread, Read, FloodInv
  <2>1. Coming = {} /\ Reached = stored
    BY DEF Quiet, Coming, Reached
  <2>2. stored # {} /\ \A n \in stored : Served(n)
    BY <2>1 DEF FloodInv, SpreadInv
  <2>3. stored \in (SUBSET Node) \ {{}, Node}
    BY <2>2 DEF FloodInv, TypeOK
  <2>4. PICK m \in stored, n \in Node \ stored : {m, n} \in topology
    BY <2>3 DEF FloodInv, NetworkInv, Connected
  <2>5. {n, m} = {m, n}
    OBVIOUS
  <2>6. n \in Neighbours(m)
    BY <2>4, <2>5 DEF Neighbours
  <2> QED
    BY <2>1, <2>2, <2>4, <2>6 DEF Served
<1> QED
  BY <1>1, FloodInvCorrect, PTL
=============================================================================
