------------------------ MODULE BroadcastNodeProofs ------------------------
(***************************************************************************)
(* Theorems about BroadcastNode, for every number of nodes, path length    *)
(* and finite set of values: vectors and offsets implement the gossip of   *)
(* sets, so what GossipProofs shows of that holds of the nodes; the ring   *)
(* of batches leads from every node to every node; and so, when nothing is *)
(* left to send, every node has every value.                               *)
(*                                                                         *)
(* The loop that inserts a batch and the hops along the ring are recursive *)
(* functions; that they have their recursion as an equation is proved      *)
(* here.                                                                   *)
(***************************************************************************)
EXTENDS BroadcastNode, FiniteSetTheorems, SequenceTheorems, TLAPS

-----------------------------------------------------------------------------
(* The loop of the handlers.                                               *)

(* Induction over numbers, as a fact about sets.                           *)
LEMMA NumberInduction ==
  ASSUME NEW Good, 0 \in Good, \A k \in Nat : k \in Good => k + 1 \in Good
  PROVE  \A k \in Nat : k \in Good
<1> DEFINE Bad == {k \in Nat : k \notin Good}
<1> SUFFICES ASSUME Bad # {}
             PROVE  FALSE
  OBVIOUS
<1>1. Bad \subseteq Nat
  OBVIOUS
<1> HIDE DEF Bad
<1>2. PICK k \in Bad : \A j \in Bad : <<j, k>> \notin OpToRel(<, Nat)
  BY <1>1, NatLessThanWellFounded, WFMin
<1> USE DEF Bad
<1>3. k - 1 \in Nat
  BY <1>1
<1>4. k - 1 \in Good
  <2> SUFFICES ASSUME k - 1 \in Bad
               PROVE  FALSE
    BY <1>3
  <2>1. <<k - 1, k>> \in OpToRel(<, Nat)
    BY <1>3 DEF OpToRel
  <2> QED
    BY <1>2, <2>1
<1> QED
  BY <1>1, <1>3, <1>4

(* The storage after each number of messages, up to k of them *)
Loop(f, start, messages, k) ==
  f = [i \in 0 .. k |-> IF i = 0 THEN start
                                 ELSE InsertOne(f[i - 1], messages[i])]

LEMMA LoopExists ==
  ASSUME NEW start, NEW messages, NEW k \in Nat
  PROVE  \E f : Loop(f, start, messages, k)
<1> DEFINE Good == {j \in Nat : \E f : Loop(f, start, messages, j)}
<1>1. 0 \in Good
  <2> DEFINE f == [i \in 0 .. 0 |-> start]
  <2>1. f = [i \in 0 .. 0 |-> IF i = 0 THEN start
                              ELSE InsertOne(f[i - 1], messages[i])]
    <3>1. \A i \in 0 .. 0 : i = 0
      OBVIOUS
    <3> QED
      BY <3>1
  <2> QED
    BY <2>1 DEF Loop
<1>2. ASSUME NEW j \in Nat, j \in Good PROVE j + 1 \in Good
  <2>1. PICK f : Loop(f, start, messages, j)
    BY <1>2
  <2> DEFINE g == [i \in 0 .. j + 1 |->
                     IF i = j + 1 THEN InsertOne(f[j], messages[i]) ELSE f[i]]
             h == [i \in 0 .. j + 1 |->
                     IF i = 0 THEN start ELSE InsertOne(g[i - 1], messages[i])]
  <2>2. ASSUME NEW i \in 0 .. j + 1 PROVE g[i] = h[i]
    <3>1. CASE i = 0
      <4>1. 0 \in 0 .. j /\ i # j + 1
        BY <3>1
      <4>2. f[0] = start
        BY <2>1, <4>1 DEF Loop
      <4> QED
        BY <3>1, <4>1, <4>2
    <3>2. CASE i \in 1 .. j
      <4>1. i \in 0 .. j /\ i # j + 1 /\ i # 0
        BY <3>2
      <4>2. i - 1 \in 0 .. j + 1 /\ i - 1 # j + 1
        BY <3>2
      <4>3. f[i] = InsertOne(f[i - 1], messages[i])
        BY <2>1, <4>1 DEF Loop
      <4>4. g[i] = f[i] /\ g[i - 1] = f[i - 1]
        BY <4>1, <4>2
      <4> QED
        BY <4>1, <4>3, <4>4
    <3>3. CASE i = j + 1
      <4>1. j \in 0 .. j + 1 /\ j # j + 1 /\ i # 0 /\ i - 1 = j
        BY <3>3
      <4>2. g[j] = f[j] /\ g[i] = InsertOne(f[j], messages[i])
        BY <3>3, <4>1
      <4> QED
        BY <4>1, <4>2
    <3> QED
      BY <3>1, <3>2, <3>3
  <2>3. g = h
    <3> HIDE DEF InsertOne
    <3> QED
      BY <2>2
  <2> HIDE DEF g
  <2> QED
    BY <2>3 DEF Loop
<1>3. \A j \in Nat : j \in Good
  <2> HIDE DEF Good
  <2> QED
    BY <1>1, <1>2, NumberInduction
<1> QED
  BY <1>3

(* What the handlers keep of a vector and its set when they insert         *)
Extends(s, old, new) ==
  /\ s.nums \in Seq(Value)
  /\ Elements(s.nums) = s.uniqueNums /\ Distinct(s.nums)
  /\ Len(old) <= Len(s.nums) /\ \A i \in DOMAIN old : s.nums[i] = old[i]
  /\ s.uniqueNums = Elements(old) \cup new

LEMMA InsertOneFacts ==
  ASSUME NEW s, NEW old \in Seq(Value), NEW new, NEW v \in Value,
         Extends(s, old, new)
  PROVE  Extends(InsertOne(s, v), old, new \cup {v})
<1>1. CASE v \in s.uniqueNums
  BY <1>1 DEF Extends, InsertOne
<1>2. CASE v \notin s.uniqueNums
  <2> DEFINE t == Append(s.nums, v)
  <2>1. s.nums \in Seq(Value) /\ Len(old) <= Len(s.nums)
    BY DEF Extends
  <2>2. /\ t \in Seq(Value) /\ Len(t) = Len(s.nums) + 1 /\ Len(s.nums) \in Nat
        /\ DOMAIN s.nums = 1 .. Len(s.nums) /\ DOMAIN t = 1 .. Len(s.nums) + 1
        /\ \A i \in 1 .. Len(s.nums) : t[i] = s.nums[i]
        /\ t[Len(s.nums) + 1] = v
        /\ DOMAIN old = 1 .. Len(old) /\ Len(old) \in Nat
    BY <2>1
  <2>3. /\ InsertOne(s, v).nums = t
        /\ InsertOne(s, v).uniqueNums = s.uniqueNums \cup {v}
    BY <1>2 DEF InsertOne
  <2> HIDE DEF t
  <2>4. \A i \in DOMAIN t : i \in DOMAIN s.nums \/ i = Len(s.nums) + 1
    BY <2>2
  <2>5. \A i \in DOMAIN s.nums : i \in DOMAIN t /\ t[i] = s.nums[i]
    BY <2>2
  <2>6. Elements(t) = Elements(s.nums) \cup {v}
    BY <2>2, <2>4, <2>5 DEF Elements
  <2>7. v \notin Elements(s.nums) /\ Distinct(s.nums)
    BY <1>2 DEF Extends
  <2>8. Distinct(t)
    BY <2>2, <2>4, <2>5, <2>7 DEF Distinct, Elements
  <2>9. /\ Len(old) <= Len(t)
        /\ \A i \in DOMAIN old : i \in DOMAIN s.nums
    BY <2>1, <2>2
  <2> QED
    BY <2>2, <2>3, <2>5, <2>6, <2>8, <2>9 DEF Extends
<1> QED
  BY <1>1, <1>2

(* After the loop the storage has what it had, in the same place, and the  *)
(* messages behind that, each of them once.                                *)
LEMMA InsertedFacts ==
  ASSUME NEW n \in Node, nums[n] \in Seq(Value),
         Elements(nums[n]) = uniqueNums[n], Distinct(nums[n]),
         NEW messages \in Seq(Value)
  PROVE  Extends(Inserted(n, messages), nums[n], Elements(messages))
<1> DEFINE start == [nums |-> nums[n], uniqueNums |-> uniqueNums[n]]
           K == Len(messages)
           f == CHOOSE g : Loop(g, start, messages, K)
           Seen(k) == {messages[i] : i \in 1 .. k}
<1>1. K \in Nat /\ DOMAIN messages = 1 .. K
  OBVIOUS
<1>2. Inserted(n, messages) = f[K]
  BY DEF Inserted, Loop
<1>3. Loop(f, start, messages, K)
  <2> HIDE DEF K, start
  <2> QED
    BY <1>1, LoopExists
<1> HIDE DEF f
<1> DEFINE Good == {k \in Nat : k <= K => Extends(f[k], nums[n], Seen(k))}
<1>4. 0 \in Good
  <2>1. f[0] = start
    BY <1>1, <1>3 DEF Loop
  <2>2. Seen(0) = {}
    OBVIOUS
  <2>3. Extends(start, nums[n], {})
    BY DEF Extends
  <2> QED
    BY <2>1, <2>2, <2>3
<1>5. ASSUME NEW k \in Nat, k \in Good PROVE k + 1 \in Good
  <2> SUFFICES ASSUME k + 1 <= K
               PROVE  Extends(f[k + 1], nums[n], Seen(k + 1))
    OBVIOUS
  <2>1. Extends(f[k], nums[n], Seen(k))
    BY <1>1, <1>5
  <2>2. k + 1 \in 0 .. K /\ k + 1 # 0 /\ (k + 1) - 1 = k /\ k + 1 \in DOMAIN messages
    BY <1>1
  <2>3. f[k + 1] = InsertOne(f[k], messages[k + 1])
    BY <1>3, <2>2 DEF Loop
  <2>4. messages[k + 1] \in Value
    BY <2>2
  <2>5. 1 .. k + 1 = (1 .. k) \cup {k + 1}
    OBVIOUS
  <2>6. Seen(k + 1) = Seen(k) \cup {messages[k + 1]}
    BY <2>5
  <2> HIDE DEF Seen
  <2> QED
    BY <2>1, <2>3, <2>4, <2>6, InsertOneFacts
<1>6. \A k \in Nat : k \in Good
  <2> HIDE DEF Good
  <2> QED
    BY <1>4, <1>5, NumberInduction
<1>7. Seen(K) = Elements(messages)
  BY <1>1 DEF Elements
<1> HIDE DEF K, Seen
<1>8. Extends(f[K], nums[n], Seen(K))
  <2>1. K \in Good /\ K <= K
    BY <1>1, <1>6
  <2> QED
    BY <2>1
<1> QED
  BY <1>2, <1>7, <1>8

-----------------------------------------------------------------------------
(* Vectors, parts of them, and targets.                                    *)

(* A sequence without repetition is as long as it has elements.            *)
LEMMA LengthCounts ==
  ASSUME NEW T, NEW s \in Seq(T), Distinct(s)
  PROVE  Len(s) = Cardinality(Elements(s))
<1>1. Len(s) \in Nat /\ DOMAIN s = 1 .. Len(s)
  OBVIOUS
<1> DEFINE f == [i \in 1 .. Len(s) |-> s[i]]
<1>2. f \in [1 .. Len(s) -> Elements(s)]
  BY <1>1 DEF Elements
<1>3. \A i, j \in 1 .. Len(s) : f[i] = f[j] => i = j
  BY <1>1 DEF Distinct
<1>4. \A x \in Elements(s) : \E i \in 1 .. Len(s) : f[i] = x
  BY <1>1 DEF Elements
<1> HIDE DEF f
<1>5. f \in Bijection(1 .. Len(s), Elements(s))
  BY <1>2, <1>3, <1>4 DEF Bijection, Injection, Surjection, IsInjective
<1>6. ExistsBijection(1 .. Len(s), Elements(s))
  BY <1>5 DEF ExistsBijection
<1> QED
  BY <1>1, <1>6, FS_CountingElements

LEMMA SubSeqFacts ==
  ASSUME NEW T, NEW s \in Seq(T), NEW m \in Nat, m <= Len(s)
  PROVE  /\ SubSeq(s, m + 1, Len(s)) \in Seq(T)
         /\ Len(SubSeq(s, m + 1, Len(s))) = Len(s) - m
         /\ \A i \in 1 .. Len(s) - m : SubSeq(s, m + 1, Len(s))[i] = s[m + i]
         /\ SubSeq(s, 1, m) \in Seq(T)
         /\ Len(SubSeq(s, 1, m)) = m
         /\ \A i \in 1 .. m : SubSeq(s, 1, m)[i] = s[i]
<1>1. Len(s) \in Nat /\ DOMAIN s = 1 .. Len(s)
  OBVIOUS
<1> DEFINE t == SubSeq(s, m + 1, Len(s))
           u == SubSeq(s, 1, m)
<1>2. \A i \in m + 1 .. Len(s) : s[i] \in T
  BY <1>1
<1>3. \A i \in 1 .. m : s[i] \in T
  BY <1>1
<1>4. /\ t \in Seq(T)
      /\ Len(t) = IF m + 1 <= Len(s) THEN Len(s) - (m + 1) + 1 ELSE 0
      /\ \A i \in 1 .. Len(s) - (m + 1) + 1 : t[i] = s[m + 1 + i - 1]
  BY <1>1, <1>2, SubSeqProperties
<1>5. /\ Len(t) = Len(s) - m
      /\ \A i \in 1 .. Len(s) - m : t[i] = s[m + i]
  <2> HIDE DEF t
  <2> DEFINE k == Len(s)
  <2>1. k \in Nat /\ k - (m + 1) + 1 = k - m
    BY <1>1
  <2>2. Len(t) = k - m
    <3>1. CASE m + 1 <= k
      BY <1>4, <2>1, <3>1
    <3>2. CASE ~(m + 1 <= k)
      <4>1. m = k
        <5>1. m <= k /\ m \in Nat
          OBVIOUS
        <5> HIDE DEF k
        <5> QED
          BY <2>1, <3>2, <5>1
      <4> QED
        BY <1>4, <2>1, <3>2, <4>1
    <3> QED
      BY <3>1, <3>2
  <2>3. ASSUME NEW i \in 1 .. k - m PROVE t[i] = s[m + i]
    <3>1. m + 1 + i - 1 = m + i
      BY <2>1
    <3>2. t[i] = s[m + 1 + i - 1]
      BY <1>4, <2>1
    <3> QED
      BY <3>1, <3>2
  <2> QED
    BY <2>2, <2>3
<1>6. /\ u \in Seq(T)
      /\ Len(u) = IF 1 <= m THEN m - 1 + 1 ELSE 0
      /\ \A i \in 1 .. m - 1 + 1 : u[i] = s[1 + i - 1]
  BY <1>3, SubSeqProperties
<1>7. /\ Len(u) = m
      /\ \A i \in 1 .. m : u[i] = s[i]
  <2> HIDE DEF u
  <2>1. m - 1 + 1 = m /\ \A i \in Int : 1 + i - 1 = i
    OBVIOUS
  <2>2. Len(u) = m
    BY <1>6
  <2> QED
    BY <1>6, <2>1, <2>2
<1> HIDE DEF t, u
<1> QED
  BY <1>4, <1>5, <1>6, <1>7 DEF t, u

(* A node notifies nodes.                                                  *)
LEMMA TargetsAreNodes ==
  ASSUME NEW n \in Node
  PROVE  Targets[n] \subseteq Node
<1> USE BroadcastAssumption DEF BroadcastAssumption
<1> DEFINE batchSize == BatchSize(NodesCount, kMaxPathLength)
<1>1. batchSize \in Nat \ {0}
  BY DEF BatchSize
<1> HIDE DEF batchSize
<1>2. n \in Nat /\ (n \div batchSize) \in Nat
  BY <1>1 DEF Node
<1> DEFINE next == (n \div batchSize + 1) * batchSize
<1>3. next \in Int
  BY <1>1, <1>2
<1> HIDE DEF next
<1>4. \A i \in 0 .. batchSize - 1 : (next + i) % NodesCount \in 0 .. NodesCount - 1
  BY <1>1, <1>3
<1>5. Targets[n] = {(next + i) % NodesCount : i \in 0 .. batchSize - 1}
  BY DEF Targets, NodeIdsForNotify, batchSize, next
<1> QED
  BY <1>4, <1>5 DEF Node

-----------------------------------------------------------------------------
(* The ring of batches: a value goes round it in kMaxPathLength hops.      *)

(* Division and products of numbers.                                       *)
LEMMA DivBounds ==
  ASSUME NEW x \in Nat, NEW b \in Nat \ {0}
  PROVE  x \div b \in Nat /\ (x \div b) * b <= x /\ x < (x \div b) * b + b
OBVIOUS

LEMMA DivIs ==
  ASSUME NEW x \in Nat, NEW b \in Nat \ {0}, NEW k \in Nat,
         k * b <= x, x < k * b + b
  PROVE  x \div b = k
OBVIOUS

LEMMA Times ==
  ASSUME NEW b \in Nat, NEW k \in Nat, NEW m \in Nat
  PROVE  /\ k * b \in Nat /\ (k + 1) * b = k * b + b
         /\ k <= m => k * b <= m * b
<1>1. k * b \in Nat /\ (k + 1) * b = k * b + b
  OBVIOUS
<1>2. ASSUME k <= m PROVE k * b <= m * b
  <2>1. PICK d \in Nat : m = k + d
    BY <1>2
  <2>2. m * b = k * b + d * b /\ d * b \in Nat
    BY <2>1
  <2> QED
    BY <1>1, <2>2
<1> QED
  BY <1>1, <1>2

(* N nodes make B batches of at most b nodes, and B is at most K.          *)
BatchesHold(N, K, b, B) ==
  /\ b \in Nat \ {0} /\ b = BatchSize(N, K) /\ b <= N
  /\ B \in Nat \ {0} /\ B <= K /\ N <= B * b /\ B * b < N + b

LEMMA BatchesExist ==
  ASSUME NEW N \in Nat \ {0}, NEW K \in Nat \ {0}
  PROVE  \E b, B : BatchesHold(N, K, b, B)
<1> DEFINE b == (N + K - 1) \div K
<1>1. N + K - 1 \in Nat
  OBVIOUS
<1>2. b \in Nat /\ b * K <= N + K - 1 /\ N + K - 1 < b * K + K
  BY <1>1, DivBounds
<1>3. b = BatchSize(N, K)
  BY DEF BatchSize
<1> HIDE DEF b
<1>4. N <= b * K /\ b * K < N + K
  BY <1>2
<1>5. b # 0
  BY <1>2, <1>4
<1>6. b <= N
  <2> SUFFICES ASSUME N + 1 <= b PROVE FALSE
    BY <1>2
  <2>1. (N + 1) * K <= b * K /\ (N + 1) * K = N * K + K
    BY <1>2, Times
  <2>2. N * K >= N
    <3>1. 1 * N <= K * N
      BY Times
    <3> QED
      BY <3>1
  <2> QED
    BY <1>2, <1>4, <2>1, <2>2
<1> DEFINE B == (N + b - 1) \div b
<1>7. N + b - 1 \in Nat
  BY <1>2
<1>8. B \in Nat /\ B * b <= N + b - 1 /\ N + b - 1 < B * b + b
  BY <1>2, <1>5, <1>7, DivBounds
<1> HIDE DEF B
<1>9. N <= B * b /\ B * b < N + b /\ B # 0
  BY <1>2, <1>8
<1>10. B <= K
  <2> SUFFICES ASSUME K + 1 <= B PROVE FALSE
    BY <1>8
  <2>1. (K + 1) * b <= B * b /\ (K + 1) * b = K * b + b
    BY <1>2, <1>8, Times
  <2>2. K * b = b * K
    BY <1>2
  <2> QED
    BY <1>2, <1>4, <1>8, <1>9, <2>1, <2>2
<1> QED
  BY <1>2, <1>3, <1>5, <1>6, <1>8, <1>9, <1>10 DEF BatchesHold

(* x is in batch k, counting on behind the last node                       *)
InBatch(x, k, b) == k * b <= x /\ x < k * b + b

(* A node notifies the batch after its own; behind the last node the count *)
(* starts again.                                                           *)
LEMMA NextBatch ==
  ASSUME NEW N \in Nat \ {0}, NEW K \in Nat \ {0},
         NEW b \in Nat \ {0}, b = BatchSize(N, K), NEW k \in Nat,
         NEW x \in 0 .. N - 1, InBatch(x, k, b), NEW y \in 0 .. N - 1,
         InBatch(y, k + 1, b) \/ InBatch(N + y, k + 1, b)
  PROVE  y \in NodeIdsForNotify(x, N, K)
<1> DEFINE next == (k + 1) * b
<1>1. x \div b = k
  <2>1. x \in Nat /\ k * b <= x /\ x < k * b + b
    BY DEF InBatch
  <2> QED
    BY <2>1, DivIs
<1>2. NodeIdsForNotify(x, N, K) = {(next + i) % N : i \in 0 .. b - 1}
  BY <1>1 DEF NodeIdsForNotify
<1>3. next \in Nat
  BY Times
<1>4. InBatch(y, k + 1, b) => next <= y /\ y < next + b
  BY DEF InBatch
<1>5. InBatch(N + y, k + 1, b) => next <= N + y /\ N + y < next + b
  BY DEF InBatch
<1> HIDE DEF next
<1>6. CASE InBatch(y, k + 1, b)
  <2>1. y - next \in 0 .. b - 1 /\ next + (y - next) = y
    BY <1>3, <1>4, <1>6
  <2>2. y % N = y
    OBVIOUS
  <2> QED
    BY <1>2, <2>1, <2>2
<1>7. CASE InBatch(N + y, k + 1, b)
  <2>1. N + y - next \in 0 .. b - 1 /\ next + (N + y - next) = N + y
    BY <1>3, <1>5, <1>7
  <2>2. (N + y) % N = y
    OBVIOUS
  <2> QED
    BY <1>2, <2>1, <2>2
<1> QED
  BY <1>6, <1>7

(* The nodes that have the value after each number of hops, up to k *)
Hops(f, first, N, K, k) ==
  f = [hops \in 0 .. k |->
         IF hops = 0 THEN {first}
         ELSE f[hops - 1] \cup
              UNION {NodeIdsForNotify(n, N, K) : n \in f[hops - 1]}]

LEMMA HopsExist ==
  ASSUME NEW first, NEW N, NEW K, NEW k \in Nat
  PROVE  \E f : Hops(f, first, N, K, k)
<1> DEFINE Hop(S) == S \cup UNION {NodeIdsForNotify(n, N, K) : n \in S}
           Is(f, j) == f = [h \in 0 .. j |-> IF h = 0 THEN {first}
                                             ELSE Hop(f[h - 1])]
           Good == {j \in Nat : \E f : Is(f, j)}
<1>0. \A f, j : Is(f, j) <=> Hops(f, first, N, K, j)
  BY DEF Hops
<1> HIDE DEF Hop
<1>1. 0 \in Good
  <2> DEFINE f == [h \in 0 .. 0 |-> {first}]
  <2>1. f = [h \in 0 .. 0 |-> IF h = 0 THEN {first} ELSE Hop(f[h - 1])]
    <3>1. \A h \in 0 .. 0 : h = 0
      OBVIOUS
    <3> QED
      BY <3>1
  <2> QED
    BY <2>1
<1>2. ASSUME NEW j \in Nat, j \in Good PROVE j + 1 \in Good
  <2>1. PICK f : Is(f, j)
    BY <1>2
  <2> DEFINE g == [h \in 0 .. j + 1 |-> IF h = j + 1 THEN Hop(f[j]) ELSE f[h]]
             r == [h \in 0 .. j + 1 |-> IF h = 0 THEN {first} ELSE Hop(g[h - 1])]
  <2>2. ASSUME NEW h \in 0 .. j + 1 PROVE g[h] = r[h]
    <3>1. CASE h = 0
      <4>1. 0 \in 0 .. j /\ h # j + 1
        BY <3>1
      <4>2. f[0] = {first}
        BY <2>1, <4>1
      <4> QED
        BY <3>1, <4>1, <4>2
    <3>2. CASE h \in 1 .. j
      <4>1. h \in 0 .. j /\ h # j + 1 /\ h # 0
        BY <3>2
      <4>2. h - 1 \in 0 .. j + 1 /\ h - 1 # j + 1
        BY <3>2
      <4>3. f[h] = Hop(f[h - 1])
        BY <2>1, <4>1
      <4>4. g[h] = f[h] /\ g[h - 1] = f[h - 1]
        BY <4>1, <4>2
      <4> QED
        BY <4>1, <4>3, <4>4
    <3>3. CASE h = j + 1
      <4>1. j \in 0 .. j + 1 /\ j # j + 1 /\ h # 0 /\ h - 1 = j
        BY <3>3
      <4>2. g[j] = f[j] /\ g[h] = Hop(f[j])
        BY <3>3, <4>1
      <4> QED
        BY <4>1, <4>2
    <3> QED
      BY <3>1, <3>2, <3>3
  <2>3. g = r
    BY <2>2
  <2> HIDE DEF g
  <2> QED
    BY <2>3
<1>3. \A j \in Nat : j \in Good
  <2> HIDE DEF Good
  <2> QED
    BY <1>1, <1>2, NumberInduction
<1>4. \E f : Is(f, k)
  BY <1>3
<1> QED
  BY <1>0, <1>4

(* What is kept from a node to those it notifies holds of all it reaches.  *)
LEMMA ReachedInduction ==
  ASSUME NEW N \in Nat \ {0}, NEW K \in Nat \ {0}, NEW first, NEW Good,
         first \in Good, \A n \in Good : NodeIdsForNotify(n, N, K) \subseteq Good
  PROVE  Reached(first, N, K) \subseteq Good
<1> DEFINE f == CHOOSE g : Hops(g, first, N, K, K)
<1>1. Reached(first, N, K) = f[K]
  BY DEF Reached, Hops
<1>2. Hops(f, first, N, K, K)
  <2>1. K \in Nat
    OBVIOUS
  <2> QED
    BY <2>1, HopsExist
<1> HIDE DEF f
<1> DEFINE Kept == {h \in Nat : h <= K => f[h] \subseteq Good}
<1>3. 0 \in Kept
  <2>1. f[0] = {first}
    BY <1>2 DEF Hops
  <2> QED
    BY <2>1
<1>4. ASSUME NEW h \in Nat, h \in Kept PROVE h + 1 \in Kept
  <2> SUFFICES ASSUME h + 1 <= K PROVE f[h + 1] \subseteq Good
    OBVIOUS
  <2>1. h + 1 \in 0 .. K /\ h + 1 # 0 /\ (h + 1) - 1 = h /\ h <= K
    OBVIOUS
  <2>2. f[h + 1] = f[h] \cup UNION {NodeIdsForNotify(n, N, K) : n \in f[h]}
    BY <1>2, <2>1 DEF Hops
  <2>3. f[h] \subseteq Good
    BY <1>4, <2>1
  <2> QED
    BY <2>2, <2>3
<1>5. \A h \in Nat : h \in Kept
  <2> HIDE DEF Kept
  <2> QED
    BY <1>3, <1>4, NumberInduction
<1>6. K \in Nat /\ K <= K
  OBVIOUS
<1> QED
  BY <1>1, <1>5, <1>6

(* A value has reached every node after K hops, whichever node it started  *)
(* from, for every number of nodes and every path length: from the batch   *)
(* of the first node it moves on a batch with each hop; of the first batch *)
(* the last one reaches only the nodes from w on, so that what is left of  *)
(* it gets the value from the last batch but one (distributor.cpp:17-29).  *)
THEOREM EveryNodeReached ==
  ASSUME NEW N \in Nat \ {0}, NEW K \in Nat \ {0}, NEW first \in 0 .. N - 1
  PROVE  Reached(first, N, K) = 0 .. N - 1
<1> DEFINE f == CHOOSE g : Hops(g, first, N, K, K)
           All == 0 .. N - 1
<1>1. Reached(first, N, K) = f[K]
  BY DEF Reached, Hops
<1>2. Hops(f, first, N, K, K)
  <2>1. K \in Nat
    OBVIOUS
  <2> QED
    BY <2>1, HopsExist
<1> HIDE DEF f
<1>3. /\ f[0] = {first}
      /\ \A h \in 1 .. K : f[h] = f[h - 1] \cup
                UNION {NodeIdsForNotify(n, N, K) : n \in f[h - 1]}
  BY <1>2 DEF Hops
<1>4. PICK b, B : BatchesHold(N, K, b, B)
  BY BatchesExist
<1> DEFINE Hit(k, h) == \E x \in f[h] : InBatch(x, k, b)
<1>5. /\ b \in Nat \ {0} /\ b = BatchSize(N, K) /\ b <= N
      /\ B \in Nat \ {0} /\ B <= K /\ B * b \in Nat
      /\ N <= B * b /\ B * b < N + b
  BY <1>4, Times DEF BatchesHold
(* Nodes reach nodes, and once reached they stay.                          *)
<1>6. ASSUME NEW h \in Nat, h + 1 <= K
      PROVE  /\ f[h] \subseteq f[h + 1]
             /\ \A n \in f[h] : NodeIdsForNotify(n, N, K) \subseteq f[h + 1]
             /\ \A t \in f[h + 1] :
                  t \in f[h] \/ \E n \in f[h] : t \in NodeIdsForNotify(n, N, K)
  <2>1. h + 1 \in 1 .. K /\ (h + 1) - 1 = h
    BY <1>6
  <2>2. f[h + 1] = f[h] \cup UNION {NodeIdsForNotify(n, N, K) : n \in f[h]}
    BY <1>3, <2>1
  <2> QED
    BY <2>2
<1>7. \A h \in 0 .. K : f[h] \subseteq All
  <2> DEFINE Good == {h \in Nat : h <= K => f[h] \subseteq All}
  <2>1. 0 \in Good
    BY <1>3
  <2>2. ASSUME NEW h \in Nat, h \in Good PROVE h + 1 \in Good
    <3> SUFFICES ASSUME h + 1 <= K, NEW t \in f[h + 1] PROVE t \in All
      OBVIOUS
    <3>1. h <= K /\ f[h] \subseteq All
      BY <2>2
    <3>2. CASE t \in f[h]
      BY <3>1, <3>2
    <3>3. ASSUME NEW n \in f[h], t \in NodeIdsForNotify(n, N, K) PROVE t \in All
      <4>1. n \in Nat
        BY <3>1
      <4>2. (n \div b + 1) * b \in Nat
        BY <1>5, <4>1, DivBounds, Times
      <4>3. \E i \in 0 .. b - 1 : t = ((n \div b + 1) * b + i) % N
        BY <1>5, <3>3 DEF NodeIdsForNotify
      <4> QED
        BY <1>5, <4>2, <4>3
    <3> QED
      BY <1>6, <3>2, <3>3
  <2>3. \A h \in Nat : h \in Good
    <3> HIDE DEF Good
    <3> QED
      BY <2>1, <2>2, NumberInduction
  <2> QED
    BY <2>3
<1>8. ASSUME NEW h \in 0 .. K PROVE f[h] \subseteq f[K]
  <2> DEFINE Good == {d \in Nat : h + d <= K => f[h] \subseteq f[h + d]}
  <2>1. 0 \in Good
    BY <1>8
  <2>2. ASSUME NEW d \in Nat, d \in Good PROVE d + 1 \in Good
    <3> SUFFICES ASSUME h + (d + 1) <= K PROVE f[h] \subseteq f[h + (d + 1)]
      OBVIOUS
    <3>1. h + d \in Nat /\ h + d <= K /\ (h + d) + 1 <= K /\ (h + d) + 1 = h + (d + 1)
      BY <1>8
    <3>2. f[h] \subseteq f[h + d] /\ f[h + d] \subseteq f[(h + d) + 1]
      BY <1>6, <2>2, <3>1
    <3> QED
      BY <3>1, <3>2
  <2>3. \A d \in Nat : d \in Good
    <3> HIDE DEF Good
    <3> QED
      BY <2>1, <2>2, NumberInduction
  <2>4. K - h \in Nat /\ h + (K - h) = K
    BY <1>8
  <2>5. K - h \in Good
    BY <2>3, <2>4
  <2> QED
    BY <2>4, <2>5
(* One hop further, the batch after one that has the value has it.         *)
<1>9. ASSUME NEW k \in Nat, NEW h \in Nat, h + 1 <= K, Hit(k, h),
             NEW y \in All, InBatch(y, k + 1, b) \/ InBatch(N + y, k + 1, b)
      PROVE  y \in f[h + 1]
  <2>1. PICK x \in f[h] : InBatch(x, k, b)
    BY <1>9
  <2>2. h \in 0 .. K
    BY <1>9
  <2>3. x \in 0 .. N - 1
    BY <1>7, <2>1, <2>2
  <2>4. y \in NodeIdsForNotify(x, N, K)
    BY <1>5, <1>9, <2>1, <2>3, NextBatch
  <2> QED
    BY <1>6, <1>9, <2>1, <2>4
<1>10. ASSUME NEW k \in Nat, k + 1 <= B - 1, NEW h \in Nat, h + 1 <= K, Hit(k, h)
       PROVE  Hit(k + 1, h + 1)
  <2> DEFINE y == (k + 1) * b
  <2>1. y \in Nat /\ y + b = (k + 2) * b /\ (k + 2) * b <= B * b
    <3>1. /\ k + 1 \in Nat /\ k + 2 \in Nat /\ (k + 1) + 1 = k + 2
          /\ k + 2 <= B /\ b \in Nat /\ B \in Nat
      BY <1>5, <1>10
    <3> QED
      BY <3>1, Times
  <2>2. InBatch(y, k + 1, b)
    BY <1>5, <2>1 DEF InBatch
  <2> HIDE DEF y
  <2>3. y \in All
    BY <1>5, <2>1
  <2>4. y \in f[h + 1]
    BY <1>9, <1>10, <2>2, <2>3
  <2> QED
    BY <2>2, <2>4
(* From the batch of the first node on to the last, ...                    *)
<1> DEFINE q == first \div b
<1>11. q \in Nat /\ InBatch(first, q, b) /\ q <= B - 1
  <2>1. first \in Nat /\ q \in Nat /\ q * b <= first /\ first < q * b + b
    <3>1. first \in Nat /\ b \in Nat \ {0}
      BY <1>5
    <3> QED
      BY <3>1, DivBounds
  <2> HIDE DEF q
  <2>2. q <= B - 1
    <3> SUFFICES ASSUME B <= q PROVE FALSE
      BY <1>5, <2>1
    <3>1. B * b <= q * b
      BY <1>5, <2>1, Times
    <3>2. q * b \in Nat
      BY <1>5, <2>1, Times
    <3> QED
      BY <1>5, <2>1, <3>1, <3>2
  <2> QED
    BY <2>1, <2>2 DEF InBatch
<1> HIDE DEF q
<1>12. \A j \in Nat : q + j <= B - 1 => Hit(q + j, j)
  <2> DEFINE Good == {j \in Nat : q + j <= B - 1 => Hit(q + j, j)}
  <2>1. 0 \in Good
    <3>1. q + 0 = q /\ first \in f[0]
      BY <1>3, <1>11
    <3> QED
      BY <1>11, <3>1
  <2>2. ASSUME NEW j \in Nat, j \in Good PROVE j + 1 \in Good
    <3> SUFFICES ASSUME q + (j + 1) <= B - 1 PROVE Hit(q + (j + 1), j + 1)
      OBVIOUS
    <3>1. /\ q + j \in Nat /\ (q + j) + 1 = q + (j + 1) /\ q + j <= B - 1
          /\ (q + j) + 1 <= B - 1 /\ j + 1 <= K
      BY <1>5, <1>11
    <3>2. Hit(q + j, j)
      BY <2>2, <3>1
    <3> HIDE DEF Hit
    <3>3. Hit((q + j) + 1, j + 1)
      BY <1>10, <3>1, <3>2
    <3> QED
      BY <3>1, <3>3
  <2>3. \A j \in Nat : j \in Good
    <3> HIDE DEF Good
    <3> QED
      BY <2>1, <2>2, NumberInduction
  <2> HIDE DEF Hit
  <2> QED
    BY <2>3
(* ... and behind that from the first one on again.                        *)
<1> DEFINE w == B * b - N
           e == B - 1 - q
<1>13. /\ w \in Nat /\ w < b /\ e \in Nat /\ e + q = B - 1 /\ q + e = B - 1
       /\ Hit(B - 1, e) /\ w + N = B * b
  <2>1. w \in Nat /\ w < b /\ w + N = B * b
    <3> DEFINE p == B * b
    <3>1. p \in Nat /\ N <= p /\ p < N + b
      BY <1>5
    <3> HIDE DEF p
    <3>2. p - N \in Nat /\ p - N < b /\ (p - N) + N = p
      BY <1>5, <3>1
    <3> QED
      BY <3>2 DEF p
  <2>2. e \in Nat /\ e + q = B - 1 /\ q + e = B - 1 /\ q + e <= B - 1
    BY <1>5, <1>11
  <2> HIDE DEF w, e, Hit
  <2>3. Hit(q + e, e)
    BY <1>12, <2>2
  <2> QED
    BY <2>1, <2>2, <2>3
<1> HIDE DEF w, e
<1>14. ASSUME NEW y \in All, InBatch(y, B, b) \/ InBatch(N + y, B, b)
       PROVE  y \in f[e + 1]
  <2>1. B - 1 \in Nat /\ (B - 1) + 1 = B /\ e + 1 <= K
    BY <1>5, <1>11, <1>13
  <2> HIDE DEF Hit
  <2> QED
    BY <1>9, <1>13, <1>14, <2>1
<1>15. \A k \in Nat : k <= B - 1 /\ e + 1 + k <= K => Hit(k, e + 1 + k)
  <2> DEFINE Good == {k \in Nat : k <= B - 1 /\ e + 1 + k <= K => Hit(k, e + 1 + k)}
  <2>1. 0 \in Good
    <3>1. w \in All /\ 0 * b = 0 /\ B * b <= N + w /\ N + w < B * b + b
      BY <1>5, <1>13
    <3>2. InBatch(w, 0, b) /\ InBatch(N + w, B, b)
      BY <1>5, <1>13, <3>1 DEF InBatch
    <3>3. w \in f[e + 1] /\ e + 1 + 0 = e + 1
      BY <1>13, <1>14, <3>1, <3>2
    <3> QED
      BY <3>2, <3>3
  <2>2. ASSUME NEW k \in Nat, k \in Good PROVE k + 1 \in Good
    <3> SUFFICES ASSUME k + 1 <= B - 1, e + 1 + (k + 1) <= K
                 PROVE  Hit(k + 1, e + 1 + (k + 1))
      OBVIOUS
    <3>1. /\ k <= B - 1 /\ e + 1 + k <= K /\ e + 1 + k \in Nat
          /\ (e + 1 + k) + 1 <= K /\ (e + 1 + k) + 1 = e + 1 + (k + 1)
      BY <1>5, <1>13
    <3>2. Hit(k, e + 1 + k)
      BY <2>2, <3>1
    <3> HIDE DEF Hit
    <3>3. Hit(k + 1, (e + 1 + k) + 1)
      BY <1>10, <3>1, <3>2
    <3> QED
      BY <3>1, <3>3
  <2>3. \A k \in Nat : k \in Good
    <3> HIDE DEF Good
    <3> QED
      BY <2>1, <2>2, NumberInduction
  <2> HIDE DEF Hit
  <2> QED
    BY <2>3
(* So a batch has the value in time: one before the last node ...          *)
<1> HIDE DEF Hit
<1>16. ASSUME NEW k \in Nat, k <= B - 1, NEW y \in All, InBatch(y, k, b)
       PROVE  k = 0 \/ y \in f[K]
  <2> SUFFICES ASSUME k # 0 PROVE y \in f[K]
    OBVIOUS
  <2>1. k - 1 \in Nat /\ (k - 1) + 1 = k /\ k - 1 <= B - 1
    BY <1>5, <1>16
  <2>2. CASE q < k
    <3> DEFINE j == k - 1 - q
    <3>1. /\ j \in Nat /\ q + j = k - 1 /\ q + j <= B - 1 /\ j + 1 <= K
          /\ j + 1 \in 0 .. K
      BY <1>5, <1>11, <1>16, <2>2
    <3> HIDE DEF j
    <3>2. Hit(k - 1, j)
      BY <1>12, <3>1
    <3>3. y \in f[j + 1]
      BY <1>9, <1>16, <2>1, <3>1, <3>2
    <3> QED
      BY <1>8, <3>1, <3>3
  <2>3. CASE k <= q
    <3> DEFINE h == e + 1 + (k - 1)
    <3>1. h \in Nat /\ h <= K /\ h + 1 <= K /\ h + 1 \in 0 .. K
      <4>1. /\ e \in Nat /\ q \in Nat /\ e + q = B - 1 /\ k \in Nat \ {0}
            /\ B \in Nat /\ B <= K /\ k <= q
        BY <1>5, <1>11, <1>13, <1>16, <2>1, <2>3
      <4> QED
        BY <4>1
    <3>2. Hit(k - 1, h)
      BY <1>15, <2>1, <3>1
    <3> HIDE DEF h
    <3>3. y \in f[h + 1]
      BY <1>9, <1>16, <2>1, <3>1, <3>2
    <3> QED
      BY <1>8, <3>1, <3>3
  <2> QED
    BY <1>11, <1>16, <2>2, <2>3
(* ... and the first one, whose nodes the last two batches notify.         *)
<1>17. ASSUME NEW y \in All, InBatch(y, 0, b)
       PROVE  y \in f[K]
  <2>0. 0 <= y /\ y < b
    <3>1. y \in Nat /\ b \in Nat /\ 0 * b = 0 /\ 0 * b <= y /\ y < 0 * b + b
      BY <1>5, <1>17 DEF InBatch
    <3> QED
      BY <3>1
  <2>1. CASE w <= y
    <3>1. B * b <= N + y /\ N + y < B * b + b
      BY <1>5, <1>13, <2>0, <2>1
    <3>2. InBatch(N + y, B, b)
      BY <3>1 DEF InBatch
    <3>3. y \in f[e + 1] /\ e + 1 \in 0 .. K
      BY <1>5, <1>11, <1>13, <1>14, <3>2
    <3> QED
      BY <1>8, <3>3
  <2>2. CASE y < w
    <3>1. B # 1
      <4> SUFFICES ASSUME B = 1 PROVE FALSE
        OBVIOUS
      <4>1. B * b = b
        BY <1>5
      <4> QED
        BY <1>5, <1>13, <2>0, <2>2, <4>1
    <3>2. B - 2 \in Nat /\ (B - 2) + 1 = B - 1 /\ B - 1 \in Nat
      BY <1>5, <3>1
    <3>3. B * b = (B - 1) * b + b /\ (B - 1) * b \in Nat
      <4>1. (B - 1) + 1 = B
        BY <1>5
      <4> QED
        BY <1>5, <3>2, <4>1, Times
    <3>4. (B - 1) * b <= N + y /\ N + y < (B - 1) * b + b
      BY <1>5, <1>13, <2>0, <2>2, <3>3
    <3>5. InBatch(N + y, (B - 2) + 1, b)
      BY <3>2, <3>4 DEF InBatch
    <3>6. CASE q <= B - 2
      <4> DEFINE j == B - 2 - q
      <4>1. /\ j \in Nat /\ q + j = B - 2 /\ q + j <= B - 1 /\ j + 1 <= K
            /\ j + 1 \in 0 .. K
        BY <1>5, <1>11, <3>2, <3>6
      <4> HIDE DEF j
      <4>2. Hit(B - 2, j)
        BY <1>12, <4>1
      <4>3. y \in f[j + 1]
        BY <1>9, <3>2, <3>5, <4>1, <4>2
      <4> QED
        BY <1>8, <4>1, <4>3
    <3>7. CASE q = B - 1
      <4> DEFINE h == e + 1 + (B - 2)
      <4>1. e = 0
        BY <1>5, <1>13, <3>7
      <4>2. h \in Nat /\ h <= K /\ h + 1 <= K /\ h + 1 \in 0 .. K /\ B - 2 <= B - 1
        BY <1>5, <3>2, <4>1
      <4>3. Hit(B - 2, h)
        BY <1>15, <3>2, <4>2
      <4> HIDE DEF h
      <4>4. y \in f[h + 1]
        BY <1>9, <3>2, <3>5, <4>2, <4>3
      <4> QED
        BY <1>8, <4>2, <4>4
    <3> QED
      BY <1>5, <1>11, <3>2, <3>6, <3>7
  <2> QED
    BY <1>13, <2>0, <2>1, <2>2
<1>18. ASSUME NEW y \in All PROVE y \in f[K]
  <2> DEFINE k == y \div b
  <2>1. y \in Nat /\ k \in Nat /\ k * b <= y /\ y < k * b + b
    <3>1. y \in Nat /\ b \in Nat \ {0}
      BY <1>5
    <3> QED
      BY <3>1, DivBounds
  <2> HIDE DEF k
  <2>2. k <= B - 1
    <3> SUFFICES ASSUME B <= k PROVE FALSE
      BY <1>5, <2>1
    <3>1. B * b <= k * b /\ k * b \in Nat
      BY <1>5, <2>1, Times
    <3> QED
      BY <1>5, <2>1, <3>1
  <2>3. InBatch(y, k, b)
    BY <2>1 DEF InBatch
  <2> QED
    BY <1>16, <1>17, <2>1, <2>2, <2>3
<1>19. K \in 0 .. K
  OBVIOUS
<1> QED
  BY <1>1, <1>7, <1>18, <1>19

-----------------------------------------------------------------------------
(* What a step does to the vectors and the offsets.                        *)

(* The vectors of the nodes grow *)
Grow ==
  /\ nums' \in [Node -> Seq(Value)]
  /\ \A n \in Node :
       /\ Elements(nums'[n]) = uniqueNums'[n] /\ Distinct(nums'[n])
       /\ Len(nums[n]) <= Len(nums'[n])
       /\ \A i \in DOMAIN nums[n] : nums'[n][i] = nums[n][i]

LEMMA InsertStep ==
  ASSUME TypeOK, StorageInv, NEW n \in Node, NEW messages \in Seq(Value),
         Insert(n, messages)
  PROVE  /\ Grow
         /\ uniqueNums' = [uniqueNums EXCEPT ![n] = @ \cup Elements(messages)]
         /\ UNCHANGED maybeUnknown
<1> DEFINE s == Inserted(n, messages)
<1>1. /\ nums \in [Node -> Seq(Value)] /\ uniqueNums \in [Node -> SUBSET Value]
  BY DEF TypeOK
<1>2. \A k \in Node : Elements(nums[k]) = uniqueNums[k] /\ Distinct(nums[k])
  BY DEF StorageInv
<1>3. nums[n] \in Seq(Value)
  BY <1>1
<1>4. Extends(s, nums[n], Elements(messages))
  BY <1>2, <1>3, InsertedFacts
<1>5. /\ nums' = [nums EXCEPT ![n] = s.nums]
      /\ uniqueNums' = [uniqueNums EXCEPT ![n] = s.uniqueNums]
      /\ UNCHANGED maybeUnknown
  BY DEF Insert
<1> HIDE DEF s
<1>6. /\ s.nums \in Seq(Value)
      /\ Elements(s.nums) = s.uniqueNums /\ Distinct(s.nums)
      /\ Len(nums[n]) <= Len(s.nums)
      /\ \A i \in DOMAIN nums[n] : s.nums[i] = nums[n][i]
      /\ s.uniqueNums = uniqueNums[n] \cup Elements(messages)
  BY <1>2, <1>4 DEF Extends
<1>7. nums' \in [Node -> Seq(Value)]
  BY <1>1, <1>5, <1>6
<1>8. \A k \in Node :
        /\ nums'[k] = IF k = n THEN s.nums ELSE nums[k]
        /\ uniqueNums'[k] = IF k = n THEN s.uniqueNums ELSE uniqueNums[k]
  BY <1>1, <1>5
<1>9. ASSUME NEW k \in Node
      PROVE  /\ Elements(nums'[k]) = uniqueNums'[k] /\ Distinct(nums'[k])
             /\ Len(nums[k]) <= Len(nums'[k])
             /\ \A i \in DOMAIN nums[k] : nums'[k][i] = nums[k][i]
  <2>1. CASE k = n
    <3>1. nums'[k] = s.nums /\ uniqueNums'[k] = s.uniqueNums
      BY <1>8, <2>1
    <3> QED
      BY <1>6, <2>1, <3>1
  <2>2. CASE k # n
    <3>1. nums'[k] = nums[k] /\ uniqueNums'[k] = uniqueNums[k]
      BY <1>8, <2>2
    <3>2. Len(nums[k]) \in Nat
      BY <1>1
    <3> QED
      BY <1>2, <3>1, <3>2
  <2> QED
    BY <2>1, <2>2
<1>10. uniqueNums' = [uniqueNums EXCEPT ![n] = @ \cup Elements(messages)]
  BY <1>5, <1>6
<1> QED
  BY <1>5, <1>7, <1>9, <1>10 DEF Grow

LEMMA NoInsertGrows ==
  ASSUME TypeOK, StorageInv, UNCHANGED <<nums, uniqueNums>>
  PROVE  Grow
<1>1. \A n \in Node : Len(nums[n]) \in Nat /\ Len(nums[n]) <= Len(nums[n])
  BY DEF TypeOK
<1> QED
  BY <1>1 DEF Grow, StorageInv, TypeOK

(* The batches a node hands out *)
Handed(n) ==
  {[from |-> n, to |-> t, offset |-> maybeUnknown[n][t],
    messages |-> Bulk(n, t)] : t \in Behind(n)}

LEMMA HandedFacts ==
  ASSUME TypeOK, StorageInv, NEW n \in Node, NEW b \in Handed(n)
  PROVE  /\ b \in Batch /\ b.from = n /\ b.to \in Behind(n)
         /\ b.offset = maybeUnknown[n][b.to] /\ b.messages = Bulk(n, b.to)
         /\ Len(b.messages) > 0
         /\ b.offset + Len(b.messages) = Len(nums[n])
         /\ \A i \in DOMAIN b.messages : b.messages[i] = nums[n][b.offset + i]
<1>1. PICK t \in Behind(n) :
        b = [from |-> n, to |-> t, offset |-> maybeUnknown[n][t],
             messages |-> Bulk(n, t)]
  BY DEF Handed
<1> DEFINE m == maybeUnknown[n][t]
           s == nums[n]
<1>2. t \in Node /\ m # Len(s)
  BY TargetsAreNodes DEF Behind
<1>3. s \in Seq(Value) /\ maybeUnknown[n] \in [Node -> 0 .. Cardinality(Value)]
  BY DEF TypeOK
<1>4. m \in 0 .. Cardinality(Value)
  BY <1>2, <1>3
<1>5. m \in Nat
  BY <1>4
<1>6. m <= Len(s) /\ Len(s) \in Nat
  BY <1>2, <1>3 DEF StorageInv
<1>7. /\ b.from = n /\ b.to = t /\ b.offset = m
      /\ b.messages = SubSeq(s, m + 1, Len(s)) /\ b.messages = Bulk(n, t)
  BY <1>1 DEF Bulk
<1>8. /\ b.messages \in Seq(Value) /\ Len(b.messages) = Len(s) - m
      /\ \A i \in 1 .. Len(s) - m : b.messages[i] = s[m + i]
  <2> HIDE DEF m, s
  <2> QED
    BY <1>3, <1>5, <1>6, <1>7, SubSeqFacts
<1>9. b \in Batch
  BY <1>1, <1>2, <1>5, <1>7, <1>8 DEF Batch
<1>10. DOMAIN b.messages = 1 .. Len(s) - m
  BY <1>8
<1> HIDE DEF m, s
<1>11. Len(b.messages) > 0 /\ b.offset + Len(b.messages) = Len(s)
  BY <1>2, <1>5, <1>6, <1>7, <1>8 DEF m, s
<1> QED
  BY <1>7, <1>8, <1>9, <1>10, <1>11 DEF m, s

(* Distribute hands out a batch to each target that is behind, and no      *)
(* target is behind after it.                                              *)
LEMMA DistributeFacts ==
  ASSUME TypeOK, StorageInv, NEW n \in Node, Distribute(n)
  PROVE  /\ waiting' = waiting \cup Handed(n)
         /\ inFlight' = inFlight \cup Handed(n)
         /\ UNCHANGED <<accepted, nums, uniqueNums, acks>>
         /\ maybeUnknown' \in [Node -> [Node -> Nat]]
         /\ \A k, t \in Node :
              maybeUnknown'[k][t] = IF k = n /\ t \in Targets[n]
                                    THEN Len(nums[n]) ELSE maybeUnknown[k][t]
<1> DEFINE row == [t \in Node |-> IF t \in Targets[n] THEN Len(nums[n])
                                  ELSE maybeUnknown[n][t]]
<1>1. maybeUnknown \in [Node -> [Node -> Nat]] /\ Len(nums[n]) \in Nat
  <2>1. maybeUnknown \in [Node -> [Node -> 0 .. Cardinality(Value)]]
    BY DEF TypeOK
  <2>2. \A k, t \in Node : maybeUnknown[k][t] \in Nat
    <3>1. \A x \in 0 .. Cardinality(Value) : x \in Nat
      OBVIOUS
    <3> QED
      BY <2>1, <3>1
  <2> QED
    BY <2>1, <2>2 DEF TypeOK
<1>2. maybeUnknown' = [maybeUnknown EXCEPT ![n] = row]
  BY DEF Distribute, NewOffset
<1>3. row \in [Node -> Nat]
  BY <1>1
<1>4. maybeUnknown'[n] = row /\ \A k \in Node : k # n => maybeUnknown'[k] = maybeUnknown[k]
  <2> HIDE DEF row
  <2> QED
    BY <1>1, <1>2
<1>5. maybeUnknown' \in [Node -> [Node -> Nat]]
  <2> HIDE DEF row
  <2> QED
    BY <1>1, <1>2, <1>3
<1>6. \A k, t \in Node :
        maybeUnknown'[k][t] = IF k = n /\ t \in Targets[n]
                              THEN Len(nums[n]) ELSE maybeUnknown[k][t]
  BY <1>4
<1>7. /\ waiting' = waiting \cup Handed(n)
      /\ inFlight' = inFlight \cup Handed(n)
      /\ UNCHANGED <<accepted, nums, uniqueNums, acks>>
  BY DEF Distribute, Handed
<1> QED
  BY <1>5, <1>6, <1>7

LEMMA StepGrows ==
  ASSUME TypeOK, StorageInv, [Next]_vars
  PROVE  /\ Grow
         /\ maybeUnknown' \in [Node -> [Node -> Nat]]
         /\ \A n, t \in Node : /\ maybeUnknown[n][t] <= maybeUnknown'[n][t]
                               /\ maybeUnknown'[n][t] <= Len(nums'[n])
<1> DEFINE Up == /\ maybeUnknown' \in [Node -> [Node -> Nat]]
                 /\ \A n, t \in Node :
                      /\ maybeUnknown[n][t] <= maybeUnknown'[n][t]
                      /\ maybeUnknown'[n][t] <= Len(nums'[n])
<1>1. /\ maybeUnknown \in [Node -> [Node -> Nat]]
      /\ \A n \in Node : Len(nums[n]) \in Nat
      /\ \A n, t \in Node : maybeUnknown[n][t] <= Len(nums[n])
  <2>1. maybeUnknown \in [Node -> [Node -> 0 .. Cardinality(Value)]]
    BY DEF TypeOK
  <2>2. \A k, t \in Node : maybeUnknown[k][t] \in Nat
    <3>1. \A x \in 0 .. Cardinality(Value) : x \in Nat
      OBVIOUS
    <3> QED
      BY <2>1, <3>1
  <2> QED
    BY <2>1, <2>2 DEF TypeOK, StorageInv
<1>2. ASSUME Grow, UNCHANGED maybeUnknown PROVE Up
  <2>1. \A n \in Node : Len(nums[n]) <= Len(nums'[n]) /\ Len(nums'[n]) \in Nat
    BY <1>2 DEF Grow
  <2>2. ASSUME NEW n \in Node, NEW t \in Node
        PROVE  /\ maybeUnknown[n][t] <= maybeUnknown'[n][t]
               /\ maybeUnknown'[n][t] <= Len(nums'[n])
    <3>1. maybeUnknown[n][t] \in Nat /\ Len(nums[n]) \in Nat /\ Len(nums'[n]) \in Nat
      BY <1>1, <2>1
    <3>2. maybeUnknown'[n][t] = maybeUnknown[n][t]
      BY <1>2
    <3>3. maybeUnknown[n][t] <= Len(nums[n]) /\ Len(nums[n]) <= Len(nums'[n])
      BY <1>1, <2>1
    <3> QED
      BY <3>1, <3>2, <3>3
  <2> QED
    BY <1>1, <1>2, <2>2
<1>3. ASSUME NEW n \in Node, NEW v \in Value, Broadcast(n, v) PROVE Grow /\ Up
  <2>1. <<v>> \in Seq(Value) /\ Insert(n, <<v>>)
    BY <1>3 DEF Broadcast
  <2> QED
    BY <1>2, <2>1, InsertStep
<1>4. ASSUME NEW b \in inFlight, HandleBulk(b) PROVE Grow /\ Up
  <2>1. b.to \in Node /\ b.messages \in Seq(Value) /\ Insert(b.to, b.messages)
    BY <1>4 DEF HandleBulk, TypeOK, Batch
  <2> QED
    BY <1>2, <2>1, InsertStep
<1>5. ASSUME NEW n \in Node, Distribute(n) PROVE Grow /\ Up
  <2>1. UNCHANGED <<nums, uniqueNums>>
    BY <1>5, DistributeFacts
  <2>2. Grow
    BY <2>1, NoInsertGrows
  <2>3. maybeUnknown' \in [Node -> [Node -> Nat]]
    BY <1>5, DistributeFacts
  <2>4. ASSUME NEW k \in Node, NEW t \in Node
        PROVE  /\ maybeUnknown[k][t] <= maybeUnknown'[k][t]
               /\ maybeUnknown'[k][t] <= Len(nums'[k])
    <3>1. maybeUnknown'[k][t] = IF k = n /\ t \in Targets[n]
                                THEN Len(nums[n]) ELSE maybeUnknown[k][t]
      BY <1>5, DistributeFacts
    <3>2. /\ maybeUnknown[k][t] \in Nat /\ Len(nums[k]) \in Nat
          /\ maybeUnknown[k][t] <= Len(nums[k])
      BY <1>1
    <3>3. nums'[k] = nums[k]
      BY <2>1
    <3>4. CASE k = n /\ t \in Targets[n]
      <4>1. maybeUnknown'[k][t] = Len(nums[k])
        BY <3>1, <3>4
      <4> QED
        BY <3>2, <3>3, <4>1
    <3>5. CASE ~(k = n /\ t \in Targets[n])
      <4>1. maybeUnknown'[k][t] = maybeUnknown[k][t]
        BY <3>1, <3>5
      <4> QED
        BY <3>2, <3>3, <4>1
    <3> QED
      BY <3>4, <3>5
  <2> QED
    BY <2>2, <2>3, <2>4
<1>6. ASSUME UNCHANGED storage PROVE Grow /\ Up
  BY <1>2, <1>6, NoInsertGrows DEF storage
<1>7. ASSUME \/ \E b \in waiting : Retransmit(b)
             \/ \E b \in acks : ReceiveAck(b)
             \/ \E b \in inFlight \cup acks : Lose(b)
             \/ UNCHANGED vars
      PROVE  UNCHANGED storage
  BY <1>7 DEF Retransmit, ReceiveAck, Lose, vars
<1> HIDE DEF Up
<1>8. Grow /\ Up
  BY <1>3, <1>4, <1>5, <1>6, <1>7 DEF Next
<1> QED
  BY <1>8 DEF Up

(* A batch that was not on its way is handed out.                          *)
LEMMA BatchSteps ==
  ASSUME TypeOK, StorageInv, [Next]_vars
  PROVE  /\ \A b \in Batches' :
              b \in Batches \/ \E n \in Node : Distribute(n) /\ b \in Handed(n)
         /\ waiting' \cup inFlight' \cup acks' = Batches'
<1>1. ASSUME NEW n \in Node, Distribute(n)
      PROVE  \A b \in Batches' : b \in Batches \/ b \in Handed(n)
  BY <1>1, DistributeFacts DEF Batches
<1>2. ASSUME \/ \E n \in Node, v \in Value : Broadcast(n, v)
             \/ \E b \in waiting : Retransmit(b)
             \/ \E b \in inFlight : HandleBulk(b)
             \/ \E b \in acks : ReceiveAck(b)
             \/ \E b \in inFlight \cup acks : Lose(b)
             \/ UNCHANGED vars
      PROVE  Batches' \subseteq Batches
  BY <1>2 DEF Broadcast, Retransmit, HandleBulk, ReceiveAck, Lose, vars, Batches
<1>3. waiting' \cup inFlight' \cup acks' = Batches'
  BY DEF Batches
<1> QED
  BY <1>1, <1>2, <1>3 DEF Next

-----------------------------------------------------------------------------
(* The inductive invariant.                                                *)

LEMMA TypeCorrectStep ==
  ASSUME TypeOK, StorageInv, [Next]_vars
  PROVE  TypeOK'
<1> USE BroadcastAssumption DEF BroadcastAssumption
<1>1. nums' \in [Node -> Seq(Value)]
  BY StepGrows DEF Grow
<1>2. ASSUME NEW n \in Node
      PROVE  /\ Elements(nums'[n]) \subseteq Value
             /\ Len(nums'[n]) <= Cardinality(Value)
             /\ Len(nums'[n]) \in Nat /\ Cardinality(Value) \in Nat
  <2>1. nums'[n] \in Seq(Value) /\ Distinct(nums'[n])
    BY StepGrows DEF Grow
  <2>2. Elements(nums'[n]) \subseteq Value
    BY <2>1 DEF Elements
  <2>3. Cardinality(Elements(nums'[n])) <= Cardinality(Value)
    BY <2>2, FS_Subset
  <2>4. Len(nums'[n]) = Cardinality(Elements(nums'[n]))
    BY <2>1, LengthCounts
  <2> QED
    BY <2>1, <2>2, <2>3, <2>4, FS_CardinalityType
<1>3. maybeUnknown' \in [Node -> [Node -> 0 .. Cardinality(Value)]]
  <2>1. ASSUME NEW n \in Node, NEW t \in Node
        PROVE  maybeUnknown'[n][t] \in 0 .. Cardinality(Value)
    <3>1. maybeUnknown'[n][t] \in Nat /\ maybeUnknown'[n][t] <= Len(nums'[n])
      BY StepGrows
    <3> QED
      BY <1>2, <3>1
  <2> QED
    BY <2>1, StepGrows
<1>4. uniqueNums' \in [Node -> SUBSET Value]
  <2>1. ASSUME NEW n \in Node, NEW messages \in Seq(Value), Insert(n, messages)
        PROVE  uniqueNums' \in [Node -> SUBSET Value]
    <3>1. Elements(messages) \subseteq Value
      BY DEF Elements
    <3>2. uniqueNums' = [uniqueNums EXCEPT ![n] = @ \cup Elements(messages)]
      BY <2>1, InsertStep
    <3> QED
      BY <3>1, <3>2 DEF TypeOK
  <2>2. ASSUME NEW n \in Node, NEW v \in Value, Broadcast(n, v)
        PROVE  uniqueNums' \in [Node -> SUBSET Value]
    <3>1. <<v>> \in Seq(Value) /\ Insert(n, <<v>>)
      BY <2>2 DEF Broadcast
    <3> QED
      BY <2>1, <3>1
  <2>3. ASSUME NEW b \in inFlight, HandleBulk(b)
        PROVE  uniqueNums' \in [Node -> SUBSET Value]
    <3>1. b.to \in Node /\ b.messages \in Seq(Value) /\ Insert(b.to, b.messages)
      BY <2>3 DEF HandleBulk, TypeOK, Batch
    <3> QED
      BY <2>1, <3>1
  <2>4. ASSUME \/ \E n \in Node : Distribute(n)
               \/ \E b \in waiting : Retransmit(b)
               \/ \E b \in acks : ReceiveAck(b)
               \/ \E b \in inFlight \cup acks : Lose(b)
               \/ UNCHANGED vars
        PROVE  uniqueNums' = uniqueNums
    BY <2>4 DEF Distribute, Retransmit, ReceiveAck, Lose, vars, storage
  <2> QED
    BY <2>2, <2>3, <2>4 DEF Next, TypeOK
<1>5. Batches' \subseteq Batch
  <2>1. Batches \subseteq Batch
    BY DEF Batches, TypeOK
  <2> QED
    BY <2>1, BatchSteps, HandedFacts
<1>6. accepted' \in SUBSET Value
  BY DEF TypeOK, Next, Broadcast, Distribute, Retransmit, HandleBulk, ReceiveAck,
     Lose, vars
<1> QED
  BY <1>1, <1>3, <1>4, <1>5, <1>6 DEF TypeOK, Batches

LEMMA StorageStep ==
  ASSUME TypeOK, StorageInv, [Next]_vars
  PROVE  StorageInv'
BY StepGrows DEF Grow, StorageInv

LEMMA BatchStep ==
  ASSUME TypeOK, StorageInv, BatchInv, [Next]_vars
  PROVE  BatchInv'
<1>1. ASSUME NEW b \in Batches,
             Len(b.messages) > 0,
             b.offset + Len(b.messages) <= maybeUnknown[b.from][b.to]
      PROVE  /\ b.offset + Len(b.messages) <= maybeUnknown'[b.from][b.to]
             /\ \A i \in DOMAIN b.messages :
                  nums'[b.from][b.offset + i] = nums[b.from][b.offset + i]
  <2> DEFINE n == b.from
             t == b.to
             len == Len(b.messages)
  <2>1. /\ n \in Node /\ t \in Node /\ b.offset \in Nat /\ len \in Nat
        /\ DOMAIN b.messages = 1 .. len
    BY DEF Batches, TypeOK, Batch
  <2>2. /\ maybeUnknown[n][t] <= maybeUnknown'[n][t]
        /\ maybeUnknown'[n][t] \in Nat
        /\ \A i \in DOMAIN nums[n] : nums'[n][i] = nums[n][i]
    BY <2>1, StepGrows DEF Grow
  <2>3. /\ maybeUnknown[n][t] <= Len(nums[n])
        /\ maybeUnknown[n][t] \in 0 .. Cardinality(Value)
        /\ nums[n] \in Seq(Value)
    BY <2>1 DEF StorageInv, TypeOK
  <2>4. maybeUnknown[n][t] \in Nat /\ Len(nums[n]) \in Nat
        /\ DOMAIN nums[n] = 1 .. Len(nums[n])
    BY <2>3
  <2> HIDE DEF n, t, len
  <2>5. b.offset + len <= maybeUnknown[n][t]
    BY <1>1 DEF n, t, len
  <2>6. b.offset + len <= maybeUnknown'[n][t]
    BY <2>1, <2>2, <2>4, <2>5
  <2>7. \A i \in 1 .. len : b.offset + i \in DOMAIN nums[n]
    BY <2>1, <2>3, <2>4, <2>5
  <2> QED
    BY <2>1, <2>2, <2>6, <2>7 DEF n, t, len
<1>2. ASSUME NEW b \in Batches
      PROVE  /\ Len(b.messages) > 0
             /\ b.offset + Len(b.messages) <= maybeUnknown'[b.from][b.to]
             /\ \A i \in DOMAIN b.messages :
                  b.messages[i] = nums'[b.from][b.offset + i]
  BY <1>1 DEF BatchInv
<1>3. ASSUME NEW n \in Node, Distribute(n), NEW b \in Handed(n)
      PROVE  /\ Len(b.messages) > 0
             /\ b.offset + Len(b.messages) <= maybeUnknown'[b.from][b.to]
             /\ \A i \in DOMAIN b.messages :
                  b.messages[i] = nums'[b.from][b.offset + i]
  <2>1. /\ b.from = n /\ b.to \in Targets[n] /\ b.to \in Node
        /\ Len(b.messages) > 0
        /\ b.offset + Len(b.messages) = Len(nums[n])
        /\ \A i \in DOMAIN b.messages : b.messages[i] = nums[n][b.offset + i]
    BY HandedFacts, TargetsAreNodes DEF Behind
  <2>2. maybeUnknown'[n][b.to] = Len(nums[n]) /\ nums' = nums
    BY <1>3, <2>1, DistributeFacts
  <2>3. Len(nums[n]) \in Nat
    BY DEF TypeOK
  <2> QED
    BY <2>1, <2>2, <2>3
<1> QED
  BY <1>2, <1>3, BatchSteps DEF BatchInv

LEMMA PartsStep ==
  ASSUME TypeOK, StorageInv, BatchInv, PartsInv, [Next]_vars
  PROVE  PartsInv'
<1>1. ASSUME NEW n \in Node, NEW b1 \in Batches, NEW b2 \in Handed(n),
             b1.from = b2.from, b1.to = b2.to
      PROVE  Precedes(b1, b2)
  <2>1. b2.from = n /\ b2.offset = maybeUnknown[n][b2.to]
    BY HandedFacts
  <2> QED
    BY <1>1, <2>1 DEF BatchInv, Precedes
<1>2. ASSUME NEW n \in Node, NEW b1 \in Handed(n), NEW b2 \in Handed(n),
             b1.to = b2.to
      PROVE  b1 = b2
  BY <1>2 DEF Handed
<1>3. ASSUME NEW n \in Node, NEW b \in Handed(n) PROVE b.from = n
  BY HandedFacts
<1> SUFFICES ASSUME NEW b1 \in Batches', NEW b2 \in Batches', b1 # b2,
                    b1.from = b2.from, b1.to = b2.to
             PROVE  Precedes(b1, b2) \/ Precedes(b2, b1)
  BY DEF PartsInv, Precedes
<1>4. CASE b1 \in Batches /\ b2 \in Batches
  BY <1>4 DEF PartsInv
<1>5. ASSUME NEW n \in Node, b1 \in Batches, b2 \in Handed(n)
      PROVE  Precedes(b1, b2)
  BY <1>1, <1>5
<1>6. ASSUME NEW n \in Node, b1 \in Handed(n), b2 \in Batches
      PROVE  Precedes(b2, b1)
  BY <1>1, <1>6
<1>7. ASSUME NEW n \in Node, NEW k \in Node, b1 \in Handed(n), b2 \in Handed(k)
      PROVE  FALSE
  BY <1>2, <1>3, <1>7
<1> QED
  BY <1>4, <1>5, <1>6, <1>7, BatchSteps

LEMMA BroadcastInvInit == Init => BroadcastInv
<1> SUFFICES ASSUME Init PROVE BroadcastInv
  OBVIOUS
<1> USE BroadcastAssumption DEF BroadcastAssumption
<1>1. /\ DOMAIN <<>> = {} /\ Len(<<>>) = 0 /\ <<>> \in Seq(Value)
      /\ Cardinality(Value) \in Nat
  BY FS_CardinalityType
<1>2. Elements(<<>>) = {} /\ Distinct(<<>>)
  BY <1>1 DEF Elements, Distinct
<1>3. /\ nums = [n \in Node |-> <<>>] /\ uniqueNums = [n \in Node |-> {}]
      /\ maybeUnknown = [n \in Node |-> [t \in Node |-> 0]]
      /\ waiting = {} /\ inFlight = {} /\ acks = {} /\ accepted = {}
  BY DEF Init
<1>4. 0 \in 0 .. Cardinality(Value)
  BY <1>1
<1>5. maybeUnknown \in [Node -> [Node -> 0 .. Cardinality(Value)]]
  BY <1>3, <1>4
<1>6. TypeOK
  BY <1>1, <1>3, <1>5 DEF TypeOK
<1>7. StorageInv
  BY <1>1, <1>2, <1>3 DEF StorageInv
<1>8. Batches = {}
  BY <1>3 DEF Batches
<1> QED
  BY <1>6, <1>7, <1>8 DEF BroadcastInv, BatchInv, PartsInv

LEMMA BroadcastInvStep == BroadcastInv /\ [Next]_vars => BroadcastInv'
BY TypeCorrectStep, StorageStep, BatchStep, PartsStep DEF BroadcastInv

(* The inductive invariant: vector and set agree, offsets stay within the  *)
(* vector, and the batches between two nodes are different parts of it     *)
(* (broadcast.cpp:32-41, distributor.cpp:36-57).                           *)
THEOREM BroadcastInvCorrect == Spec => []BroadcastInv
BY BroadcastInvInit, BroadcastInvStep, PTL DEF Spec

(* Every variable keeps its type; an offset never passes the number of     *)
(* values.                                                                 *)
THEOREM TypeCorrect == Spec => []TypeOK
<1>1. BroadcastInv => TypeOK
  BY DEF BroadcastInv
<1> QED
  BY <1>1, BroadcastInvCorrect, PTL

(* The vector and the set hold the same values, each of them once, and no  *)
(* offset passes the end of the vector (broadcast.cpp:16, 36,              *)
(* distributor.cpp:48-50).                                                 *)
THEOREM OffsetsCountValuesCorrect == Spec => []OffsetsCountValues
<1>1. BroadcastInv => OffsetsCountValues
  <2> SUFFICES ASSUME BroadcastInv, NEW n \in Node
               PROVE  /\ Elements(nums[n]) = uniqueNums[n]
                      /\ Len(nums[n]) = Cardinality(uniqueNums[n])
                      /\ \A t \in Node : maybeUnknown[n][t] <= Len(nums[n])
    BY DEF OffsetsCountValues
  <2>1. /\ nums[n] \in Seq(Value) /\ Elements(nums[n]) = uniqueNums[n]
        /\ Distinct(nums[n])
        /\ \A t \in Node : maybeUnknown[n][t] <= Len(nums[n])
    BY DEF BroadcastInv, TypeOK, StorageInv
  <2> QED
    BY <2>1, LengthCounts
<1> QED
  BY <1>1, BroadcastInvCorrect, PTL

(* Batches between the same nodes that are not the same have no value in   *)
(* common, and none is empty.                                              *)
LEMMA PartsDisjoint ==
  ASSUME BroadcastInv, NEW b1 \in Batches, NEW b2 \in Batches,
         b1.from = b2.from, b1.to = b2.to
  PROVE  /\ Elements(b1.messages) # {}
         /\ b1 # b2 => Elements(b1.messages) \cap Elements(b2.messages) = {}
<1> DEFINE s == nums[b1.from]
           l1 == Len(b1.messages)
           l2 == Len(b2.messages)
<1>1. /\ b1.from \in Node /\ b1.to \in Node
      /\ b1.offset \in Nat /\ b2.offset \in Nat
      /\ b1.messages \in Seq(Value) /\ b2.messages \in Seq(Value)
  BY DEF BroadcastInv, TypeOK, Batches, Batch
<1>2. /\ l1 \in Nat /\ l2 \in Nat
      /\ DOMAIN b1.messages = 1 .. l1 /\ DOMAIN b2.messages = 1 .. l2
      /\ s \in Seq(Value) /\ Distinct(s)
      /\ DOMAIN s = 1 .. Len(s) /\ Len(s) \in Nat
  BY <1>1 DEF BroadcastInv, TypeOK, StorageInv
<1>3. /\ maybeUnknown[b1.from][b1.to] <= Len(s)
      /\ maybeUnknown[b1.from][b1.to] \in 0 .. Cardinality(Value)
  BY <1>1 DEF BroadcastInv, TypeOK, StorageInv
<1>4. /\ maybeUnknown[b1.from][b1.to] \in Nat
      /\ l1 > 0 /\ b1.offset + l1 <= maybeUnknown[b1.from][b1.to]
      /\ \A i \in 1 .. l1 : b1.messages[i] = s[b1.offset + i]
      /\ l2 > 0 /\ b2.offset + l2 <= maybeUnknown[b1.from][b1.to]
      /\ \A i \in 1 .. l2 : b2.messages[i] = s[b2.offset + i]
  BY <1>2, <1>3 DEF BroadcastInv, BatchInv
<1>5. Elements(b1.messages) # {}
  <2>1. 1 \in DOMAIN b1.messages
    BY <1>2, <1>4
  <2> QED
    BY <2>1 DEF Elements
<1>6. ASSUME b1 # b2, NEW x \in Elements(b1.messages) \cap Elements(b2.messages)
      PROVE  FALSE
  <2>1. PICK i \in 1 .. l1 : x = b1.messages[i]
    BY <1>2, <1>6 DEF Elements
  <2>2. PICK j \in 1 .. l2 : x = b2.messages[j]
    BY <1>2, <1>6 DEF Elements
  <2>3. s[b1.offset + i] = s[b2.offset + j]
    BY <1>4, <2>1, <2>2
  <2>4. b1.offset + l1 <= b2.offset \/ b2.offset + l2 <= b1.offset
    BY <1>6 DEF BroadcastInv, PartsInv, Precedes
  <2> HIDE DEF s, l1, l2
  <2>5. b1.offset + i \in DOMAIN s /\ b2.offset + j \in DOMAIN s
    <3> DEFINE m == maybeUnknown[b1.from][b1.to]
    <3>1. m \in Nat /\ m <= Len(s) /\ b1.offset + l1 <= m /\ b2.offset + l2 <= m
      BY <1>3, <1>4
    <3>2. /\ DOMAIN s = 1 .. Len(s) /\ Len(s) \in Nat /\ l1 \in Nat /\ l2 \in Nat
          /\ b1.offset \in Nat /\ b2.offset \in Nat
      BY <1>1, <1>2
    <3> HIDE DEF m
    <3>3. b1.offset + i \in 1 .. Len(s)
      BY <3>1, <3>2
    <3>4. b2.offset + j \in 1 .. Len(s)
      BY <3>1, <3>2
    <3> QED
      BY <3>2, <3>3, <3>4
  <2>6. b1.offset + i = b2.offset + j
    BY <1>2, <2>3, <2>5 DEF Distinct
  <2> QED
    BY <1>1, <1>2, <2>4, <2>6
<1> QED
  BY <1>5, <1>6

(* Two calls on their way between the same nodes carry different values    *)
(* (distributor.cpp:54).                                                   *)
THEOREM BatchesDisjointCorrect == Spec => []BatchesDisjoint
<1>1. BroadcastInv => BatchesDisjoint
  BY PartsDisjoint DEF BatchesDisjoint, Batches
<1> QED
  BY <1>1, BroadcastInvCorrect, PTL

-----------------------------------------------------------------------------
(* The refinement.                                                         *)

(* What is in front of an offset and what is behind it.                    *)
LEMMA PartElements ==
  ASSUME NEW s \in Seq(Value), Distinct(s), NEW m \in Nat, m <= Len(s)
  PROVE  /\ Elements(SubSeq(s, 1, m)) = {s[i] : i \in 1 .. m}
         /\ Elements(SubSeq(s, m + 1, Len(s)))
              = Elements(s) \ Elements(SubSeq(s, 1, m))
         /\ m = Len(s) <=> Elements(SubSeq(s, 1, m)) = Elements(s)
<1> DEFINE u == SubSeq(s, 1, m)
           t == SubSeq(s, m + 1, Len(s))
           n == Len(s)
<1>1. /\ t \in Seq(Value) /\ Len(t) = n - m
      /\ \A i \in 1 .. n - m : t[i] = s[m + i]
      /\ u \in Seq(Value) /\ Len(u) = m
      /\ \A i \in 1 .. m : u[i] = s[i]
  BY SubSeqFacts
<1>2. n \in Nat /\ DOMAIN s = 1 .. n /\ m <= n
  OBVIOUS
<1> HIDE DEF u, t, n
<1>3. DOMAIN t = 1 .. n - m /\ DOMAIN u = 1 .. m
  BY <1>1
<1>4. Elements(u) = {s[i] : i \in 1 .. m}
  <2>1. {u[i] : i \in 1 .. m} = {s[i] : i \in 1 .. m}
    BY <1>1
  <2>2. Elements(u) = {u[i] : i \in 1 .. m}
    BY <1>3 DEF Elements
  <2> QED
    BY <2>1, <2>2
<1>5. \A i \in 1 .. n - m : m + i \in m + 1 .. n
  BY <1>2
<1>6. \A j \in m + 1 .. n : j - m \in 1 .. n - m /\ m + (j - m) = j
  BY <1>2
<1>7. Elements(t) = {s[j] : j \in m + 1 .. n}
  <2>1. Elements(t) = {t[i] : i \in 1 .. n - m}
    BY <1>3 DEF Elements
  <2>2. \A j \in m + 1 .. n : j - m \in 1 .. n - m /\ s[j] = t[j - m]
    BY <1>1, <1>6
  <2>3. \A i \in 1 .. n - m : m + i \in m + 1 .. n /\ t[i] = s[m + i]
    BY <1>1, <1>5
  <2>4. {t[i] : i \in 1 .. n - m} = {s[j] : j \in m + 1 .. n}
    BY <2>2, <2>3
  <2> QED
    BY <2>1, <2>4
<1>8. 1 .. n = (1 .. m) \cup (m + 1 .. n)
  BY <1>2
<1>9. ASSUME NEW i \in 1 .. m, NEW j \in m + 1 .. n PROVE s[i] # s[j]
  <2>1. i \in 1 .. n /\ j \in 1 .. n /\ i # j
    BY <1>2
  <2> QED
    BY <1>2, <2>1 DEF Distinct
<1>10. Elements(t) = Elements(s) \ Elements(u)
  BY <1>2, <1>4, <1>7, <1>8, <1>9 DEF Elements
<1>11. ASSUME m = n PROVE Elements(u) = Elements(s)
  BY <1>2, <1>4, <1>11 DEF Elements
<1>12. ASSUME m # n PROVE Elements(u) # Elements(s)
  <2>1. n \in m + 1 .. n /\ n \in 1 .. n
    BY <1>2, <1>12
  <2>2. s[n] \in Elements(s) /\ s[n] \notin Elements(u)
    BY <1>2, <1>4, <1>9, <2>1 DEF Elements
  <2> QED
    BY <2>2
<1> QED
  BY <1>4, <1>10, <1>11, <1>12 DEF u, t, n

(* What a node counts as told only changes with the offset.                *)
LEMMA ToldStays ==
  ASSUME BroadcastInv, [Next]_vars, NEW n \in Node, NEW t \in Node,
         maybeUnknown'[n][t] = maybeUnknown[n][t]
  PROVE  ToldTo(n, t)' = ToldTo(n, t)
<1> DEFINE m == maybeUnknown[n][t]
<1>1. TypeOK /\ StorageInv
  BY DEF BroadcastInv
<1>2. /\ nums[n] \in Seq(Value) /\ Distinct(nums[n]) /\ m <= Len(nums[n])
      /\ m \in 0 .. Cardinality(Value)
  BY <1>1 DEF TypeOK, StorageInv
<1>3. /\ nums'[n] \in Seq(Value) /\ Distinct(nums'[n])
      /\ maybeUnknown'[n][t] <= Len(nums'[n])
      /\ \A i \in DOMAIN nums[n] : nums'[n][i] = nums[n][i]
  BY <1>1, StepGrows DEF Grow
<1>4. m \in Nat /\ m <= Len(nums'[n])
  BY <1>2, <1>3
<1>5. \A i \in 1 .. m : nums'[n][i] = nums[n][i]
  <2>1. DOMAIN nums[n] = 1 .. Len(nums[n]) /\ Len(nums[n]) \in Nat
    BY <1>2
  <2>2. \A i \in 1 .. m : i \in DOMAIN nums[n]
    BY <1>2, <1>4, <2>1
  <2> QED
    BY <1>3, <2>2
<1> HIDE DEF m
<1>6. Elements(SubSeq(nums[n], 1, m)) = {nums[n][i] : i \in 1 .. m}
  BY <1>2, <1>4, PartElements DEF m
<1>7. Elements(SubSeq(nums'[n], 1, m)) = {nums'[n][i] : i \in 1 .. m}
  BY <1>3, <1>4, PartElements
<1>8. Elements(SubSeq(nums'[n], 1, m)) = Elements(SubSeq(nums[n], 1, m))
  BY <1>5, <1>6, <1>7
<1> QED
  BY <1>8 DEF ToldTo, m

LEMMA ToldUnchanged ==
  ASSUME BroadcastInv, [Next]_vars, UNCHANGED maybeUnknown
  PROVE  Told' = Told
BY ToldStays DEF Told

(* Batches are different as sets if they are different.                    *)
Shape(b) == [from |-> b.from, to |-> b.to, values |-> Elements(b.messages)]

LEMMA ShapeDiffers ==
  ASSUME BroadcastInv, NEW b1 \in Batches, NEW b2 \in Batches,
         Shape(b1) = Shape(b2)
  PROVE  b1 = b2
<1>1. /\ b1.from = b2.from /\ b1.to = b2.to
      /\ Elements(b1.messages) = Elements(b2.messages)
  BY DEF Shape
<1> QED
  BY <1>1, PartsDisjoint

LEMMA AbstractFacts ==
  /\ \A S : Abstract(S) = {Shape(b) : b \in S}
  /\ \A S, T : Abstract(S \cup T) = Abstract(S) \cup Abstract(T)
  /\ \A S, b : Abstract(S \cup {b}) = Abstract(S) \cup {Shape(b)}
  /\ \A S, b : b \in S => Shape(b) \in Abstract(S)
  /\ \A S, b : Abstract(S \ {b}) \in {Abstract(S), Abstract(S) \ {Shape(b)}}
<1>1. \A S : Abstract(S) = {Shape(b) : b \in S}
  BY DEF Abstract, Shape
<1>2. ASSUME NEW S, NEW b
      PROVE  Abstract(S \ {b}) \in {Abstract(S), Abstract(S) \ {Shape(b)}}
  <2>1. CASE \E c \in S \ {b} : Shape(c) = Shape(b)
    <3>1. {Shape(c) : c \in S \ {b}} = {Shape(c) : c \in S}
      BY <2>1
    <3> QED
      BY <1>1, <3>1
  <2>2. CASE \A c \in S \ {b} : Shape(c) # Shape(b)
    <3>1. {Shape(c) : c \in S \ {b}} = {Shape(c) : c \in S} \ {Shape(b)}
      BY <2>2
    <3> QED
      BY <1>1, <3>1
  <2> QED
    BY <2>1, <2>2
<1> QED
  BY <1>1, <1>2

(* Taking a batch out of a set of them takes its shape out.                *)
LEMMA AbstractWithout ==
  ASSUME BroadcastInv, NEW S \in SUBSET Batches, NEW b \in Batches
  PROVE  Abstract(S \ {b}) = Abstract(S) \ {Shape(b)}
<1>1. \A c \in S : Shape(c) = Shape(b) => c = b
  BY ShapeDiffers
<1>2. {Shape(c) : c \in S \ {b}} = {Shape(c) : c \in S} \ {Shape(b)}
  BY <1>1
<1> QED
  BY <1>2, AbstractFacts

(* The targets of the gossip, and what they have not been told.            *)
LEMMA GossipTargets ==
  ASSUME NEW n \in Node
  PROVE  GossipOfNodes!Targets(n) = Targets[n]
<1>1. \A t \in Node : <<n, t>>[2] = t /\ <<n, t>>[1] = n
  OBVIOUS
<1> QED
  BY <1>1, TargetsAreNodes DEF GossipOfNodes!Targets

LEMMA ToldFacts ==
  ASSUME BroadcastInv, NEW n \in Node, NEW t \in Node
  PROVE  /\ Told[n][t] = ToldTo(n, t)
         /\ Told[n][t] # uniqueNums[n] <=> maybeUnknown[n][t] # Len(nums[n])
         /\ Elements(Bulk(n, t)) = uniqueNums[n] \ Told[n][t]
<1> DEFINE m == maybeUnknown[n][t]
<1>1. Told[n][t] = Elements(SubSeq(nums[n], 1, m))
  BY DEF Told, ToldTo
<1>2. /\ nums[n] \in Seq(Value) /\ Distinct(nums[n]) /\ m <= Len(nums[n])
      /\ m \in 0 .. Cardinality(Value) /\ Elements(nums[n]) = uniqueNums[n]
  BY DEF BroadcastInv, TypeOK, StorageInv
<1>3. m \in Nat
  BY <1>2
<1>4. Bulk(n, t) = SubSeq(nums[n], m + 1, Len(nums[n]))
  BY DEF Bulk
<1>5. Told[n][t] = ToldTo(n, t)
  BY DEF Told
<1> HIDE DEF m
<1>6. /\ Elements(SubSeq(nums[n], m + 1, Len(nums[n])))
           = Elements(nums[n]) \ Elements(SubSeq(nums[n], 1, m))
      /\ m = Len(nums[n]) <=> Elements(SubSeq(nums[n], 1, m)) = Elements(nums[n])
  BY <1>2, <1>3, PartElements
<1> QED
  BY <1>1, <1>2, <1>4, <1>5, <1>6 DEF m

LEMMA DistributeImplements ==
  ASSUME BroadcastInv, [Next]_vars, NEW n \in Node, Distribute(n)
  PROVE  GossipOfNodes!Distribute(n)
<1>1. TypeOK /\ StorageInv
  BY DEF BroadcastInv
<1>2. Targets[n] \subseteq Node
  BY TargetsAreNodes
<1>3. GossipOfNodes!Untold(n) = Behind(n)
  BY <1>2, GossipTargets, ToldFacts DEF GossipOfNodes!Untold, Behind
<1>4. GossipOfNodes!NewBatches(n) = Abstract(Handed(n))
  <2>1. GossipOfNodes!NewBatches(n)
          = {[from |-> n, to |-> t, values |-> uniqueNums[n] \ Told[n][t]] :
               t \in Behind(n)}
    BY <1>3 DEF GossipOfNodes!NewBatches
  <2>2. \A t \in Behind(n) : t \in Node
    BY <1>2 DEF Behind
  <2>3. \A t \in Behind(n) :
          [from |-> n, to |-> t, values |-> uniqueNums[n] \ Told[n][t]]
            = [from |-> n, to |-> t, values |-> Elements(Bulk(n, t))]
    BY <2>2, ToldFacts
  <2>4. {[from |-> n, to |-> t, values |-> uniqueNums[n] \ Told[n][t]] :
           t \in Behind(n)}
          = {[from |-> n, to |-> t, values |-> Elements(Bulk(n, t))] :
               t \in Behind(n)}
    BY <2>3
  <2> DEFINE new(t) == [from |-> n, to |-> t, offset |-> maybeUnknown[n][t],
                        messages |-> Bulk(n, t)]
  <2>5. \A t : Shape(new(t)) = [from |-> n, to |-> t, values |-> Elements(Bulk(n, t))]
    BY DEF Shape
  <2>6. Handed(n) = {new(t) : t \in Behind(n)}
    BY DEF Handed
  <2> HIDE DEF new
  <2>7. {Shape(b) : b \in Handed(n)} = {Shape(new(t)) : t \in Behind(n)}
    BY <2>6
  <2>8. {Shape(new(t)) : t \in Behind(n)}
          = {[from |-> n, to |-> t, values |-> Elements(Bulk(n, t))] :
               t \in Behind(n)}
    BY <2>5
  <2> QED
    BY <2>1, <2>4, <2>7, <2>8, AbstractFacts
<1>5. /\ Abstract(waiting)' = Abstract(waiting) \cup GossipOfNodes!NewBatches(n)
      /\ Abstract(inFlight)' = Abstract(inFlight) \cup GossipOfNodes!NewBatches(n)
      /\ UNCHANGED <<accepted, uniqueNums, Abstract(acks)>>
  <2>1. /\ waiting' = waiting \cup Handed(n)
        /\ inFlight' = inFlight \cup Handed(n)
        /\ UNCHANGED <<accepted, nums, uniqueNums, acks>>
    BY <1>1, DistributeFacts
  <2> QED
    BY <1>4, <2>1, AbstractFacts
<1>6. Behind(n) # {}
  BY DEF Distribute
<1>7. \A k, t \in Node :
        maybeUnknown'[k][t] = IF k = n /\ t \in Targets[n]
                              THEN Len(nums[n]) ELSE maybeUnknown[k][t]
  BY <1>1, DistributeFacts
<1>8. ASSUME NEW k \in Node, NEW t \in Node
      PROVE  ToldTo(k, t)' = IF k = n /\ t \in Targets[n]
                             THEN uniqueNums[n] ELSE Told[k][t]
  <2>1. CASE k = n /\ t \in Targets[n]
    <3>1. maybeUnknown'[n][t] = Len(nums[n]) /\ nums' = nums
      BY <1>1, <1>7, <2>1, DistributeFacts
    <3>2. /\ nums[n] \in Seq(Value) /\ Distinct(nums[n])
          /\ Elements(nums[n]) = uniqueNums[n]
      BY <1>1 DEF TypeOK, StorageInv
    <3>3. Len(nums[n]) \in Nat /\ Len(nums[n]) <= Len(nums[n])
      BY <3>2
    <3>4. Elements(SubSeq(nums[n], 1, Len(nums[n]))) = Elements(nums[n])
      BY <3>2, <3>3, PartElements
    <3> QED
      BY <2>1, <3>1, <3>2, <3>4 DEF ToldTo
  <2>2. CASE ~(k = n /\ t \in Targets[n])
    <3>1. maybeUnknown'[k][t] = maybeUnknown[k][t]
      BY <1>7, <2>2
    <3> QED
      BY <2>2, <3>1, ToldStays, ToldFacts
  <2> QED
    BY <2>1, <2>2
<1>9. Told' = [Told EXCEPT ![n] =
                [t \in Node |-> IF t \in GossipOfNodes!Targets(n) THEN uniqueNums[n]
                                                                 ELSE Told[n][t]]]
  <2> DEFINE row == [t \in Node |-> IF t \in Targets[n] THEN uniqueNums[n]
                                    ELSE Told[n][t]]
             new == [Told EXCEPT ![n] = row]
  <2>1. Told' = [k \in Node |-> [t \in Node |-> ToldTo(k, t)']]
    BY DEF Told
  <2>2. \A k \in Node : Told[k] = [t \in Node |-> Told[k][t]]
    BY DEF Told
  <2>3. new = [k \in Node |-> IF k = n THEN row ELSE Told[k]]
    BY DEF Told
  <2>4. ASSUME NEW k \in Node
        PROVE  [t \in Node |-> ToldTo(k, t)'] = IF k = n THEN row ELSE Told[k]
    <3>1. CASE k = n
      BY <1>8, <3>1
    <3>2. CASE k # n
      <4>1. \A t \in Node : ToldTo(k, t)' = Told[k][t]
        BY <1>8, <3>2
      <4> QED
        BY <2>2, <3>2, <4>1
    <3> QED
      BY <3>1, <3>2
  <2>5. Told' = new
    BY <2>1, <2>3, <2>4
  <2> QED
    BY <2>5, GossipTargets
<1> QED
  BY <1>3, <1>5, <1>6, <1>9 DEF GossipOfNodes!Distribute

LEMMA InsertImplements ==
  ASSUME BroadcastInv, [Next]_vars
  PROVE  /\ \A n \in Node, v \in Value :
              Broadcast(n, v) => GossipOfNodes!Broadcast(n, v)
         /\ \A b \in inFlight :
              HandleBulk(b) => GossipOfNodes!HandleBulk(Shape(b))
<1>1. TypeOK /\ StorageInv
  BY DEF BroadcastInv
<1>2. ASSUME NEW n \in Node, NEW v \in Value, Broadcast(n, v)
      PROVE  GossipOfNodes!Broadcast(n, v)
  <2>1. <<v>> \in Seq(Value) /\ Insert(n, <<v>>)
    BY <1>2 DEF Broadcast
  <2>2. Elements(<<v>>) = {v}
    <3>1. DOMAIN <<v>> = {1} /\ <<v>>[1] = v
      OBVIOUS
    <3> QED
      BY <3>1 DEF Elements
  <2>3. /\ uniqueNums' = [uniqueNums EXCEPT ![n] = @ \cup {v}]
        /\ UNCHANGED maybeUnknown
    BY <1>1, <2>1, <2>2, InsertStep
  <2>4. Told' = Told
    BY <2>3, ToldUnchanged
  <2>5. accepted' = accepted \cup {v} /\ UNCHANGED <<waiting, inFlight, acks>>
    BY <1>2 DEF Broadcast
  <2> QED
    BY <2>3, <2>4, <2>5 DEF GossipOfNodes!Broadcast
<1>3. ASSUME NEW b \in inFlight, HandleBulk(b)
      PROVE  GossipOfNodes!HandleBulk(Shape(b))
  <2>1. b.to \in Node /\ b.messages \in Seq(Value) /\ Insert(b.to, b.messages)
    BY <1>1, <1>3 DEF HandleBulk, TypeOK, Batch
  <2>2. /\ uniqueNums' = [uniqueNums EXCEPT ![b.to] = @ \cup Elements(b.messages)]
        /\ UNCHANGED maybeUnknown
    BY <1>1, <2>1, InsertStep
  <2>3. Told' = Told
    BY <2>2, ToldUnchanged
  <2>4. /\ inFlight' = inFlight \ {b} /\ acks' = acks \cup {b}
        /\ UNCHANGED <<accepted, waiting>>
    BY <1>3 DEF HandleBulk
  <2>5. /\ Abstract(inFlight)' \in {Abstract(inFlight), Abstract(inFlight) \ {Shape(b)}}
        /\ Abstract(acks)' = Abstract(acks) \cup {Shape(b)}
        /\ Shape(b) \in Abstract(inFlight)
    BY <2>4, AbstractFacts
  <2>6. Shape(b).to = b.to /\ Shape(b).values = Elements(b.messages)
    BY DEF Shape
  <2> QED
    BY <2>2, <2>3, <2>4, <2>5, <2>6 DEF GossipOfNodes!HandleBulk
<1> QED
  BY <1>2, <1>3

LEMMA NetworkImplements ==
  ASSUME BroadcastInv, [Next]_vars
  PROVE  /\ \A b \in waiting :
              Retransmit(b) => GossipOfNodes!Retransmit(Shape(b))
         /\ \A b \in acks :
              ReceiveAck(b) => GossipOfNodes!ReceiveAck(Shape(b))
         /\ \A b \in inFlight \cup acks :
              Lose(b) => GossipOfNodes!Lose(Shape(b))
<1>1. ASSUME NEW b \in waiting, Retransmit(b)
      PROVE  GossipOfNodes!Retransmit(Shape(b))
  <2>1. /\ inFlight' = inFlight \cup {b}
        /\ UNCHANGED <<accepted, uniqueNums, maybeUnknown, waiting, acks>>
    BY <1>1 DEF Retransmit, storage
  <2>2. Told' = Told
    BY <2>1, ToldUnchanged
  <2>3. /\ Abstract(inFlight)' = Abstract(inFlight) \cup {Shape(b)}
        /\ Shape(b) \in Abstract(waiting)
    BY <2>1, AbstractFacts
  <2> QED
    BY <2>1, <2>2, <2>3 DEF GossipOfNodes!Retransmit
<1>2. ASSUME NEW b \in acks, ReceiveAck(b)
      PROVE  GossipOfNodes!ReceiveAck(Shape(b))
  <2>1. /\ acks' = acks \ {b} /\ waiting' = waiting \ {b}
        /\ UNCHANGED <<accepted, uniqueNums, maybeUnknown, inFlight>>
    BY <1>2 DEF ReceiveAck, storage
  <2>2. Told' = Told
    BY <2>1, ToldUnchanged
  <2>3. b \in Batches /\ waiting \in SUBSET Batches
    BY DEF Batches
  <2>4. Abstract(waiting)' = Abstract(waiting) \ {Shape(b)}
    BY <2>1, <2>3, AbstractWithout
  <2>5. /\ Abstract(acks)' \in {Abstract(acks), Abstract(acks) \ {Shape(b)}}
        /\ Shape(b) \in Abstract(acks)
    BY <2>1, AbstractFacts
  <2> QED
    BY <2>1, <2>2, <2>4, <2>5 DEF GossipOfNodes!ReceiveAck
<1>3. ASSUME NEW b \in inFlight \cup acks, Lose(b)
      PROVE  GossipOfNodes!Lose(Shape(b))
  <2>1. UNCHANGED <<accepted, uniqueNums, maybeUnknown, waiting>>
    BY <1>3 DEF Lose, storage
  <2>2. Told' = Told
    BY <2>1, ToldUnchanged
  <2>3. b \in Batches /\ inFlight \in SUBSET Batches /\ acks \in SUBSET Batches
    BY DEF Batches
  <2>4. CASE b \in inFlight /\ inFlight' = inFlight \ {b} /\ UNCHANGED acks
    <3>1. /\ Abstract(inFlight)' = Abstract(inFlight) \ {Shape(b)}
          /\ Shape(b) \in Abstract(inFlight)
      BY <2>3, <2>4, AbstractWithout, AbstractFacts
    <3> QED
      BY <2>1, <2>2, <2>4, <3>1 DEF GossipOfNodes!Lose
  <2>5. CASE b \in acks /\ acks' = acks \ {b} /\ UNCHANGED inFlight
    <3>1. /\ Abstract(acks)' = Abstract(acks) \ {Shape(b)}
          /\ Shape(b) \in Abstract(acks)
      BY <2>3, <2>5, AbstractWithout, AbstractFacts
    <3> QED
      BY <2>1, <2>2, <2>5, <3>1 DEF GossipOfNodes!Lose
  <2> QED
    BY <1>3, <2>4, <2>5 DEF Lose
<1> QED
  BY <1>1, <1>2, <1>3

LEMMA StepImplements ==
  BroadcastInv /\ [Next]_vars => [GossipOfNodes!Next]_(GossipOfNodes!vars)
<1> SUFFICES ASSUME BroadcastInv, [Next]_vars
             PROVE  [GossipOfNodes!Next]_(GossipOfNodes!vars)
  OBVIOUS
<1>1. CASE UNCHANGED vars
  <2>1. UNCHANGED <<accepted, uniqueNums, maybeUnknown, waiting, inFlight, acks>>
    BY <1>1 DEF vars, storage
  <2>2. Told' = Told
    BY <2>1, ToldUnchanged
  <2> QED
    BY <2>1, <2>2 DEF GossipOfNodes!vars
<1>2. ASSUME NEW n \in Node, NEW v \in Value, Broadcast(n, v)
      PROVE  GossipOfNodes!Next
  BY <1>2, InsertImplements DEF GossipOfNodes!Next
<1>3. ASSUME NEW n \in Node, Distribute(n) PROVE GossipOfNodes!Next
  BY <1>3, DistributeImplements DEF GossipOfNodes!Next
<1>4. ASSUME NEW b \in waiting, Retransmit(b) PROVE GossipOfNodes!Next
  <2>1. Shape(b) \in Abstract(waiting)
    BY AbstractFacts
  <2> QED
    BY <1>4, <2>1, NetworkImplements DEF GossipOfNodes!Next
<1>5. ASSUME NEW b \in inFlight, HandleBulk(b) PROVE GossipOfNodes!Next
  <2>1. Shape(b) \in Abstract(inFlight)
    BY AbstractFacts
  <2> QED
    BY <1>5, <2>1, InsertImplements DEF GossipOfNodes!Next
<1>6. ASSUME NEW b \in acks, ReceiveAck(b) PROVE GossipOfNodes!Next
  <2>1. Shape(b) \in Abstract(acks)
    BY AbstractFacts
  <2> QED
    BY <1>6, <2>1, NetworkImplements DEF GossipOfNodes!Next
<1>7. ASSUME NEW b \in inFlight \cup acks, Lose(b) PROVE GossipOfNodes!Next
  <2>1. Shape(b) \in Abstract(inFlight) \cup Abstract(acks)
    BY AbstractFacts
  <2> QED
    BY <1>7, <2>1, NetworkImplements DEF GossipOfNodes!Next
<1> QED
  BY <1>1, <1>2, <1>3, <1>4, <1>5, <1>6, <1>7 DEF Next

(* The vectors and offsets implement the gossip of sets, whatever the      *)
(* network loses, delays or repeats (broadcast.cpp:32-41,                  *)
(* distributor.cpp:36-57).                                                 *)
THEOREM ImplementsGossipCorrect == Spec => ImplementsGossip
<1>1. Init => GossipOfNodes!Init
  <2> SUFFICES ASSUME Init PROVE GossipOfNodes!Init
    OBVIOUS
  <2>1. BroadcastInv
    BY BroadcastInvInit
  <2>2. /\ accepted = {} /\ uniqueNums = [n \in Node |-> {}]
        /\ waiting = {} /\ inFlight = {} /\ acks = {}
    BY DEF Init
  <2>3. ASSUME NEW n \in Node, NEW t \in Node PROVE ToldTo(n, t) = {}
    <3>1. maybeUnknown[n][t] = 0 /\ nums[n] = <<>>
      BY DEF Init
    <3>2. Elements(SubSeq(nums[n], 1, 0)) = {nums[n][i] : i \in 1 .. 0}
      <4>1. /\ nums[n] \in Seq(Value) /\ Distinct(nums[n])
            /\ 0 \in Nat /\ 0 <= Len(nums[n])
        BY <2>1, <3>1 DEF BroadcastInv, TypeOK, StorageInv
      <4> QED
        BY <4>1, PartElements
    <3> QED
      BY <3>1, <3>2 DEF ToldTo
  <2>4. Told = [n \in Node |-> [t \in Node |-> {}]]
    BY <2>3 DEF Told
  <2>5. \A S : S = {} => Abstract(S) = {}
    BY DEF Abstract
  <2> QED
    BY <2>2, <2>4, <2>5 DEF GossipOfNodes!Init
<1>2. BroadcastInv /\ [Next]_vars => [GossipOfNodes!Next]_(GossipOfNodes!vars)
  BY StepImplements
<1> QED
  BY <1>1, <1>2, BroadcastInvCorrect, PTL
     DEF Spec, ImplementsGossip, GossipOfNodes!Spec

(* So what GossipProofs shows of the sets holds of the nodes: a value that *)
(* an offset has passed is with the target or still being resent, nobody   *)
(* has a value no client sent, and once nothing is resent and nobody is    *)
(* behind, a target has all the values of those that notify it             *)
(* (distributor.cpp:54).                                                   *)
Proved == INSTANCE GossipProofs WITH
  Notifies <- {p \in Node \X Node : p[2] \in Targets[p[1]]},
  known    <- uniqueNums,
  told     <- Told,
  waiting  <- Abstract(waiting),
  inFlight <- Abstract(inFlight),
  acks     <- Abstract(acks)

THEOREM NodesSpreadCorrect ==
  Spec => [](/\ GossipOfNodes!NothingLost /\ GossipOfNodes!NothingInvented
             /\ GossipOfNodes!QuietMeansSpread)
<1>1. Proved!Spec => []Proved!GossipInv
  BY Proved!GossipInvCorrect
<1>2. Proved!Spec => []Proved!QuietMeansSpread
  BY Proved!QuietMeansSpreadCorrect
<1>3. GossipOfNodes!Init => Proved!Init
  BY DEF GossipOfNodes!Init, Proved!Init
<1>4. [GossipOfNodes!Next]_(GossipOfNodes!vars) => [Proved!Next]_(Proved!vars)
  <2>1. GossipOfNodes!vars = Proved!vars /\ GossipOfNodes!vars' = Proved!vars'
    BY DEF GossipOfNodes!vars, Proved!vars
  <2>2. GossipOfNodes!Next => Proved!Next
    BY DEF GossipOfNodes!Next, GossipOfNodes!Broadcast, GossipOfNodes!Distribute,
           GossipOfNodes!Retransmit, GossipOfNodes!HandleBulk,
           GossipOfNodes!ReceiveAck, GossipOfNodes!Lose, GossipOfNodes!Untold,
           GossipOfNodes!NewBatches, GossipOfNodes!Targets,
           Proved!Next, Proved!Broadcast, Proved!Distribute,
           Proved!Retransmit, Proved!HandleBulk,
           Proved!ReceiveAck, Proved!Lose, Proved!Untold,
           Proved!NewBatches, Proved!Targets
  <2> QED
    BY <2>1, <2>2
<1>5. Proved!GossipInv
        => GossipOfNodes!NothingLost /\ GossipOfNodes!NothingInvented
  BY DEF Proved!GossipInv, Proved!NothingLost, Proved!NothingInvented,
         Proved!Targets, GossipOfNodes!NothingLost,
         GossipOfNodes!NothingInvented, GossipOfNodes!Targets
<1>6. Proved!QuietMeansSpread => GossipOfNodes!QuietMeansSpread
  BY DEF Proved!QuietMeansSpread, Proved!Quiet, Proved!Untold, Proved!Targets,
         GossipOfNodes!QuietMeansSpread, GossipOfNodes!Quiet,
         GossipOfNodes!Untold, GossipOfNodes!Targets
<1> QED
  BY <1>1, <1>2, <1>3, <1>4, <1>5, <1>6, ImplementsGossipCorrect, PTL
     DEF ImplementsGossip, GossipOfNodes!Spec, Proved!Spec

(* A value goes from every node to every node in kMaxPathLength hops, in   *)
(* clusters of every size (distributor.cpp:17-29).                         *)
THEOREM RingReachesAllCorrect == Spec => []RingReachesAll
<1>1. RingReachesAll
  <2> SUFFICES ASSUME NEW N \in 1 .. MaxNodes, NEW K \in {3, 6},
                      NEW first \in 0 .. N - 1
               PROVE  Reached(first, N, K) = 0 .. N - 1
    BY DEF RingReachesAll, ReachesAll
  <2>1. N \in Nat \ {0} /\ K \in Nat \ {0}
    BY BroadcastAssumption DEF BroadcastAssumption
  <2> QED
    BY <2>1, EveryNodeReached
<1> QED
  BY <1>1, PTL

(* What was accepted stays somewhere (broadcast.cpp:16-19).                *)
THEOREM AcceptedStoredCorrect == Spec => []AcceptedStored
<1>1. Init => AcceptedStored
  BY DEF Init, AcceptedStored
<1>2. BroadcastInv /\ AcceptedStored /\ [Next]_vars => AcceptedStored'
  <2> SUFFICES ASSUME BroadcastInv, AcceptedStored, [Next]_vars
               PROVE  AcceptedStored'
    OBVIOUS
  <2> USE DEF AcceptedStored
  <2>1. /\ TypeOK /\ StorageInv /\ uniqueNums \in [Node -> SUBSET Value]
        /\ \A b \in inFlight : b.to \in Node /\ b.messages \in Seq(Value)
    BY DEF BroadcastInv, TypeOK, Batch
  <2>2. ASSUME NEW n \in Node, NEW v \in Value, Broadcast(n, v)
        PROVE  AcceptedStored'
    <3>1. accepted' = accepted \cup {v} /\ Insert(n, <<v>>) /\ <<v>> \in Seq(Value)
      BY <2>2 DEF Broadcast
    <3>2. Elements(<<v>>) = {v}
      <4>1. DOMAIN <<v>> = {1} /\ <<v>>[1] = v
        OBVIOUS
      <4> QED
        BY <4>1 DEF Elements
    <3>3. uniqueNums' = [uniqueNums EXCEPT ![n] = @ \cup {v}]
      BY <2>1, <3>1, <3>2, InsertStep
    <3> QED
      BY <2>1, <3>1, <3>3
  <2>3. ASSUME NEW b \in inFlight, HandleBulk(b) PROVE AcceptedStored'
    <3>1. accepted' = accepted /\ Insert(b.to, b.messages)
      BY <2>3 DEF HandleBulk
    <3>2. uniqueNums' = [uniqueNums EXCEPT ![b.to] = @ \cup Elements(b.messages)]
      BY <2>1, <3>1, InsertStep
    <3> QED
      BY <2>1, <3>1, <3>2
  <2>4. CASE UNCHANGED <<accepted, uniqueNums>>
    BY <2>4
  <2> QED
    BY <2>2, <2>3, <2>4
       DEF Next, Distribute, Retransmit, ReceiveAck, Lose, storage, vars
<1> QED
  BY <1>1, <1>2, BroadcastInvCorrect, PTL DEF Spec

(* When no call is open and no target is behind, every node reads all the  *)
(* values that clients have handed to any of them: knowledge has crossed   *)
(* every edge of the ring, and the ring reaches every node (read.cpp:16,   *)
(* distributor.cpp:17-29, 54).                                             *)
THEOREM RestMeansReadCorrect == Spec => []RestMeansRead
<1>1. BroadcastInv /\ AcceptedStored /\ GossipOfNodes!NothingInvented
        /\ GossipOfNodes!QuietMeansSpread => RestMeansRead
  <2> SUFFICES ASSUME BroadcastInv, AcceptedStored,
                      GossipOfNodes!NothingInvented,
                      GossipOfNodes!QuietMeansSpread, AtRest,
                      NEW n \in Node, NEW v \in accepted
               PROVE  v \in uniqueNums[n]
    BY DEF RestMeansRead, Messages, GossipOfNodes!NothingInvented
  <2>1. ASSUME NEW k \in Node PROVE GossipOfNodes!Untold(k) = {}
    <3>1. Targets[k] \subseteq Node /\ Behind(k) = {}
      BY TargetsAreNodes DEF AtRest
    <3> QED
      BY <3>1, GossipTargets, ToldFacts DEF GossipOfNodes!Untold, Behind
  <2>2. Abstract(waiting) = {}
    BY DEF AtRest, Abstract
  <2>3. \A k \in Node, t \in Node : t \in Targets[k] => uniqueNums[k] \subseteq uniqueNums[t]
    BY <2>1, <2>2, GossipTargets
       DEF GossipOfNodes!QuietMeansSpread, GossipOfNodes!Quiet
  <2>4. PICK first \in Node : v \in uniqueNums[first]
    BY DEF AcceptedStored
  <2> DEFINE Good == {k \in Node : v \in uniqueNums[k]}
  <2>5. ASSUME NEW k \in Good
        PROVE  NodeIdsForNotify(k, NodesCount, kMaxPathLength) \subseteq Good
    <3>1. Targets[k] = NodeIdsForNotify(k, NodesCount, kMaxPathLength)
      BY DEF Targets
    <3> QED
      BY <2>3, <3>1, TargetsAreNodes
  <2>6. NodesCount \in Nat \ {0} /\ kMaxPathLength \in Nat \ {0}
    BY BroadcastAssumption DEF BroadcastAssumption
  <2>7. first \in Good
    BY <2>4
  <2> HIDE DEF Good
  <2>8. Reached(first, NodesCount, kMaxPathLength) \subseteq Good
    BY <2>5, <2>6, <2>7, ReachedInduction
  <2>9. Reached(first, NodesCount, kMaxPathLength) = Node
    BY <2>6, EveryNodeReached DEF Node
  <2> QED
    BY <2>8, <2>9 DEF Good
<1> QED
  BY <1>1, BroadcastInvCorrect, AcceptedStoredCorrect, NodesSpreadCorrect, PTL
=============================================================================
