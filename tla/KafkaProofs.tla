----------------------------- MODULE KafkaProofs -----------------------------
(***************************************************************************)
(* Theorems about Kafka, for every set of nodes, keys, consumers and       *)
(* commits and every finite set of sends: both parts implement KafkaLog,   *)
(* and the commits of part 2 hold.                                         *)
(***************************************************************************)
EXTENDS Kafka, FiniteSetTheorems, FunctionTheorems, TLAPS

-----------------------------------------------------------------------------
(* Numbers, offsets and logs.                                              *)

(* A bounded set of numbers has a greatest one, and Max gives it.          *)
LEMMA MaxOf ==
  ASSUME NEW S, S # {}, S \subseteq Nat, NEW N \in Nat, \A x \in S : x <= N
  PROVE  Max(S) \in S /\ \A x \in S : x <= Max(S)
<1> DEFINE T == {y \in Nat : N - y \in S}
<1>1. T # {} /\ T \subseteq Nat
  <2>1. PICK x \in S : TRUE
    OBVIOUS
  <2>2. N - x \in Nat /\ N - (N - x) = x
    BY <2>1
  <2> QED
    BY <2>1, <2>2
<1> HIDE DEF T
<1>2. PICK t \in T : \A y \in T : <<y, t>> \notin OpToRel(<, Nat)
  BY <1>1, NatLessThanWellFounded, WFMin
<1>3. \A y \in T : t <= y
  <2> SUFFICES ASSUME NEW y \in T, y < t
               PROVE  FALSE
    BY <1>1
  <2>1. <<y, t>> \in OpToRel(<, Nat)
    BY <1>1 DEF OpToRel
  <2> QED
    BY <1>2, <2>1
<1>4. N - t \in S
  BY DEF T
<1>5. \A x \in S : x <= N - t
  <2> SUFFICES ASSUME NEW x \in S
               PROVE  x <= N - t
    OBVIOUS
  <2>1. N - x \in Nat /\ N - (N - x) = x
    OBVIOUS
  <2>2. N - x \in T
    BY <2>1 DEF T
  <2>3. t <= N - x /\ t \in Nat
    BY <1>1, <1>3, <2>2
  <2> QED
    BY <2>1, <2>3
<1>6. \A x \in S : N - t >= x
  BY <1>1, <1>5
<1>7. Max(S) \in S /\ \A x \in S : Max(S) >= x
  BY <1>4, <1>6 DEF Max
<1> QED
  BY <1>7

(* There are finitely many entries, so every log is finite.                *)
LEMMA EntryFacts ==
  ASSUME KafkaAssumption
  PROVE  /\ Cardinality(Send) \in Nat
         /\ Offset \subseteq Nat
         /\ \A e \in Entry : e.offset \in Offset /\ e.msg \in Send
         /\ \A log \in SUBSET Entry : /\ IsFiniteSet(log)
                                      /\ Cardinality(log) \in Nat
<1>1. IsFiniteSet(Send) /\ Cardinality(Send) \in Nat
  BY FS_CardinalityType DEF KafkaAssumption
<1>2. IsFiniteSet(Offset) /\ Offset \subseteq Nat
  BY <1>1, FS_Interval DEF Offset
<1>3. \A e \in Entry : e.offset \in Offset /\ e.msg \in Send
  BY DEF Entry
<1>4. IsFiniteSet(Entry)
  <2>1. IsFiniteSet(Offset \X Send)
    BY <1>1, <1>2, FS_Product
  <2> DEFINE f == [e \in Entry |-> <<e.offset, e.msg>>]
  <2>2. f \in [Entry -> Offset \X Send]
    BY <1>3
  <2>3. \A d, e \in Entry : f[d] = f[e] => d = e
    BY DEF Entry
  <2> HIDE DEF f
  <2>4. f \in Injection(Entry, Offset \X Send)
    BY <2>2, <2>3, Fun_IsInj
  <2> QED
    BY <2>1, <2>4, FS_Injection
<1>5. \A log \in SUBSET Entry : IsFiniteSet(log) /\ Cardinality(log) \in Nat
  BY <1>4, FS_Subset, FS_CardinalityType
<1> QED
  BY <1>1, <1>2, <1>3, <1>5

(* A log that has each message once, and one of them not, is shorter than  *)
(* there are messages.                                                     *)
LEMMA LogFits ==
  ASSUME KafkaAssumption, NEW log \in SUBSET Entry, NEW m \in Send,
         \A e \in log : e.msg # m,
         \A e, f \in log : e.msg = f.msg => e = f
  PROVE  Cardinality(log) + 1 <= Cardinality(Send)
<1> DEFINE g == [e \in log |-> e.msg]
<1>1. g \in [log -> Send \ {m}]
  BY EntryFacts
<1>2. \A d, e \in log : g[d] = g[e] => d = e
  OBVIOUS
<1> HIDE DEF g
<1>3. g \in Injection(log, Send \ {m})
  BY <1>1, <1>2, Fun_IsInj
<1>4. /\ IsFiniteSet(Send \ {m})
      /\ Cardinality(Send \ {m}) = Cardinality(Send) - 1
  BY FS_RemoveElement DEF KafkaAssumption
<1>5. Cardinality(log) <= Cardinality(Send \ {m})
  BY <1>3, <1>4, FS_Injection
<1> QED
  BY <1>4, <1>5, EntryFacts

(* The offset behind a log.                                                *)
LEMMA OffsetBehind ==
  ASSUME KafkaAssumption, NEW log \in SUBSET Entry, log # {}
  PROVE  LET last == Max({e.offset : e \in log}) IN
         /\ last \in Offset
         /\ \A e \in log : e.offset <= last
         /\ \E e \in log : e.offset = last
<1> DEFINE S == {e.offset : e \in log}
<1>1. S # {} /\ S \subseteq Offset
  BY EntryFacts
<1>2. S \subseteq Nat /\ \A x \in S : x <= Cardinality(Send)
  BY <1>1, EntryFacts DEF Offset
<1> HIDE DEF S
<1>3. Max(S) \in S /\ \A x \in S : x <= Max(S)
  BY <1>1, <1>2, EntryFacts, MaxOf
<1> QED
  BY <1>1, <1>3 DEF S

-----------------------------------------------------------------------------
(* The store.                                                              *)

(* What TypeOK says of seq-kv.                                             *)
StoreType ==
  /\ versions \in Seq([Key -> SUBSET Entry]) /\ versions # <<>>
  /\ seen \in [Node -> DOMAIN versions]

LEMMA KvType == KvTypeOK(SUBSET Entry) <=> StoreType
<1>1. (SUBSET Entry) \cup {{}} = SUBSET Entry
  OBVIOUS
<1> QED
  BY <1>1 DEF KvTypeOK, StoreType

(* The versions are non-empty and every node has seen one of them.         *)
LEMMA VersionsType ==
  ASSUME StoreType
  PROVE  /\ Len(versions) \in Nat \ {0}
         /\ DOMAIN versions = 1 .. Len(versions)
         /\ \A i \in DOMAIN versions : versions[i] \in [Key -> SUBSET Entry]
         /\ Last \in [Key -> SUBSET Entry]
         /\ \A n \in Node : seen[n] \in 1 .. Len(versions)
<1>1. /\ Len(versions) \in Nat \ {0}
      /\ DOMAIN versions = 1 .. Len(versions)
      /\ \A i \in DOMAIN versions : versions[i] \in [Key -> SUBSET Entry]
  BY DEF StoreType
<1>2. Last \in [Key -> SUBSET Entry]
  BY <1>1 DEF Last
<1> QED
  BY <1>1, <1>2 DEF StoreType

(* A request that changes nothing.                                         *)
LEMMA ServedType ==
  ASSUME StoreType, NEW n \in Node, NEW i, ServedAt(n, i)
  PROVE  StoreType' /\ versions' = versions /\ i \in DOMAIN versions
<1>1. /\ i \in seen[n] .. Len(versions)
      /\ seen' = [seen EXCEPT ![n] = i]
      /\ versions' = versions
  BY DEF ServedAt
<1>2. i \in DOMAIN versions
  BY <1>1, VersionsType
<1>3. seen' \in [Node -> DOMAIN versions]
  BY <1>1, <1>2 DEF StoreType
<1> QED
  BY <1>1, <1>2, <1>3 DEF StoreType

(* A swap that succeeds adds a version with one log changed.               *)
LEMMA AppendedType ==
  ASSUME StoreType, NEW n \in Node, NEW k \in Key, NEW from,
         NEW to \in SUBSET Entry, CasSucceeds(n, k, from, to)
  PROVE  /\ StoreType'
         /\ Last[k] \in {{}, from}
         /\ DOMAIN versions' = DOMAIN versions \cup {Len(versions) + 1}
         /\ \A i \in DOMAIN versions : versions'[i] = versions[i]
         /\ versions'[Len(versions) + 1] = Last'
         /\ Last' \in [Key -> SUBSET Entry] /\ Last'[k] = to
         /\ \A x \in Key : x # k => Last'[x] = Last[x]
         /\ \A i \in DOMAIN versions : i # Len(versions) + 1
<1> DEFINE new == [Last EXCEPT ![k] = to]
           N == Len(versions)
<1>1. /\ Last[k] \in {{}, from}
      /\ versions' = Append(versions, new)
      /\ seen' = [seen EXCEPT ![n] = N + 1]
  BY DEF CasSucceeds
<1>2. new \in [Key -> SUBSET Entry]
  BY VersionsType
<1>3. versions \in Seq([Key -> SUBSET Entry]) /\ N \in Nat \ {0}
  BY VersionsType DEF StoreType
<1> HIDE DEF new
<1>4. /\ versions' \in Seq([Key -> SUBSET Entry]) /\ versions' # <<>>
      /\ Len(versions') = N + 1
      /\ DOMAIN versions' = 1 .. N + 1
      /\ versions'[N + 1] = new
      /\ \A i \in 1 .. N : versions'[i] = versions[i]
  BY <1>1, <1>2, <1>3
<1>5. seen' \in [Node -> 1 .. N + 1]
  <2>1. seen \in [Node -> 1 .. N]
    BY VersionsType DEF StoreType
  <2> QED
    BY <1>1, <1>3, <2>1
<1>6. StoreType' /\ Last' = new
  BY <1>4, <1>5 DEF StoreType, Last
<1>7. DOMAIN versions = 1 .. N /\ Last \in [Key -> SUBSET Entry]
  BY VersionsType
<1>8. new[k] = to /\ \A x \in Key : x # k => new[x] = Last[x]
  BY <1>7 DEF new
<1> QED
  BY <1>1, <1>2, <1>3, <1>4, <1>6, <1>7, <1>8

-----------------------------------------------------------------------------
(* The steps of sends.                                                     *)

(* All of StoreInv but the types of consumers and commits.                 *)
SendType ==
  /\ part \in Part
  /\ logs \in [Key -> SUBSET Entry]
  /\ nextOffset \in 0 .. Cardinality(Send)
  /\ StoreType
  /\ sendPc \in [Send -> {"idle", "allotted", "cas", "read", "thrown", "done"}]
  /\ offset \in [Send -> Offset]
  /\ guess \in [Send -> SUBSET Entry]

SendInv ==
  SendType /\ SendPcFits /\ OffsetsInTurn /\ LogsGrow /\ LogsDense /\ GuessBehind

(* A step that touches neither logs nor sends, whatever version a node has *)
(* seen after it.                                                          *)
LEMMA SendsUntouched ==
  ASSUME SendInv, UNCHANGED <<nodeVars, versions, sendVars>>, StoreType'
  PROVE  SendInv'
<1> USE DEF SendInv, nodeVars, sendVars
<1>1. SendType'
  BY DEF SendType
<1>2. SendPcFits' /\ OffsetsInTurn'
  BY DEF SendPcFits, OffsetsInTurn
<1>3. LogsGrow' /\ LogsDense'
  BY DEF LogsGrow, LogsDense
<1>4. Last' = Last
  BY DEF Last
<1>5. GuessBehind'
  BY <1>4 DEF GuessBehind
<1> QED
  BY <1>1, <1>2, <1>3, <1>5

(* A send that is being served without a change to the store.              *)
LEMMA SendServed ==
  ASSUME KafkaAssumption, SendInv,
         NEW m \in Send, NEW to, Goes(m, "cas", to) \/ Goes(m, "idle", to),
         part = "two" \/ sendPc[m] = "cas", to \in {"cas", "read"},
         UNCHANGED <<nodeVars, versions, offset, guess>>, StoreType'
  PROVE  SendInv'
<1> USE DEF SendInv, nodeVars
<1>1. /\ sendPc[m] \in {"cas", "idle"}
      /\ sendPc' = [sendPc EXCEPT ![m] = to]
  BY DEF Goes
<1>2. part = "two"
  BY DEF SendPcFits, SendType, KafkaAssumption
<1>3. \A x \in Send : sendPc'[x] = IF x = m THEN to ELSE sendPc[x]
  BY <1>1 DEF SendType
<1>4. SendType'
  <2>1. sendPc' \in [Send -> {"idle", "allotted", "cas", "read", "thrown", "done"}]
    BY <1>1 DEF SendType
  <2> QED
    BY <2>1 DEF SendType
<1>5. SendPcFits'
  BY <1>2, <1>3 DEF SendPcFits
<1>6. OffsetsInTurn'
  BY <1>2 DEF OffsetsInTurn
<1>7. LogsGrow'
  BY DEF LogsGrow
<1>8. LogsDense'
  <2>1. \A i \in DOMAIN versions : \A k \in Key : \A e \in versions[i][k] :
          e.msg \in Send /\ e.msg # m
    BY <1>1, VersionsType DEF LogsDense, SendType, Entry
  <2> QED
    BY <1>3, <2>1 DEF LogsDense
<1>9. Last' = Last
  BY DEF Last
<1>10. GuessBehind'
  BY <1>9 DEF GuessBehind
<1> QED
  BY <1>4, <1>5, <1>6, <1>7, <1>8, <1>10

(* Part 1 allots the offset behind all others, while the pool is free.     *)
LEMMA AllotKeepsInv ==
  ASSUME KafkaAssumption, SendInv, NEW m \in Send, Allot(m)
  PROVE  SendInv'
<1> USE DEF SendInv
<1> DEFINE Started == {x \in Send : sendPc[x] # "idle"}
<1>1. /\ part = "one" /\ sendPc[m] = "idle"
      /\ \A x \in Send : sendPc[x] # "allotted"
      /\ sendPc' = [sendPc EXCEPT ![m] = "allotted"]
      /\ offset' = [offset EXCEPT ![m] = nextOffset]
      /\ nextOffset' = nextOffset + 1
      /\ UNCHANGED <<part, logs, kvVars, guess>>
  BY DEF Allot, PoolFree, Goes, FetchAdd
<1>2. \A x \in Send : sendPc'[x] = IF x = m THEN "allotted" ELSE sendPc[x]
  BY <1>1 DEF SendType
<1>3. /\ nextOffset = Cardinality(Started)
      /\ nextOffset' = Cardinality({x \in Send : sendPc'[x] # "idle"})
      /\ nextOffset + 1 <= Cardinality(Send)
  <2>1. {x \in Send : sendPc'[x] # "idle"} = Started \cup {m} /\ m \notin Started
    BY <1>1, <1>2
  <2>2. Started \in SUBSET Send /\ Started \cup {m} \in SUBSET Send
    OBVIOUS
  <2>3. nextOffset = Cardinality(Started)
    BY <1>1 DEF OffsetsInTurn
  <2> HIDE DEF Started
  <2>4. /\ IsFiniteSet(Started)
        /\ Cardinality(Started \cup {m}) = Cardinality(Started) + 1
    BY <2>1, <2>2, FS_Subset, FS_AddElement DEF KafkaAssumption
  <2>5. Cardinality(Started \cup {m}) <= Cardinality(Send)
    BY <2>2, FS_Subset DEF KafkaAssumption
  <2> QED
    BY <1>1, <2>1, <2>3, <2>4, <2>5
<1>4. nextOffset \in Nat /\ nextOffset \in Offset /\ nextOffset' \in 0 .. Cardinality(Send)
  BY <1>1, <1>3, EntryFacts DEF SendType, Offset
<1>5. SendType'
  <2>1. /\ sendPc' \in [Send -> {"idle", "allotted", "cas", "read", "thrown", "done"}]
        /\ offset' \in [Send -> Offset]
    BY <1>1, <1>4 DEF SendType
  <2>2. StoreType'
    BY <1>1 DEF SendType, StoreType, kvVars
  <2> QED
    BY <1>1, <1>4, <2>1, <2>2 DEF SendType
<1>6. SendPcFits'
  BY <1>1, <1>2 DEF SendPcFits
<1>7. OffsetsInTurn'
  <2>1. \A k \in Key : \A e \in logs[k] :
          /\ e.msg \in Send /\ e.offset \in Nat
          /\ sendPc[e.msg] = "done" /\ e.offset < nextOffset
    <3>1. \A k \in Key : logs[k] \subseteq Entry
      BY DEF SendType
    <3> QED
      BY <1>1, <3>1, EntryFacts DEF OffsetsInTurn
  <2>2. \A k \in Key : \A e \in logs[k] :
          sendPc'[e.msg] = "done" /\ e.offset < nextOffset'
    BY <1>1, <1>2, <1>4, <2>1
  <2>3. offset'[m] = nextOffset /\ logs' = logs /\ offset'[m] + 1 = nextOffset'
    BY <1>1 DEF SendType
  <2>4. \A x \in Send : sendPc'[x] = "allotted" => x = m
    BY <1>1, <1>2
  <2>5. \A k \in Key : \A e \in logs[k] : e.offset < offset'[m]
    BY <2>1, <2>3
  <2>6. nextOffset' = Cardinality({x \in Send : sendPc'[x] # "idle"})
    BY <1>3
  <2> QED
    BY <2>2, <2>3, <2>4, <2>5, <2>6 DEF OffsetsInTurn
<1>8. LogsGrow' /\ LogsDense'
  <2>1. \A i \in DOMAIN versions : \A k \in Key : \A e \in versions[i][k] :
          e.msg \in Send /\ sendPc'[e.msg] = "done"
    <3>1. \A i \in DOMAIN versions : \A k \in Key : versions[i][k] \subseteq Entry
      BY VersionsType DEF SendType
    <3> QED
      BY <1>1, <1>2, <3>1, EntryFacts DEF LogsDense
  <2> QED
    BY <1>1, <2>1 DEF LogsGrow, LogsDense, kvVars
<1>9. GuessBehind'
  BY <1>1 DEF GuessBehind
<1> QED
  BY <1>5, <1>6, <1>7, <1>8, <1>9

(* The message goes to the end of its log, with no other on its way.       *)
LEMMA InsertKeepsInv ==
  ASSUME KafkaAssumption, SendInv, NEW m \in Send, Insert(m)
  PROVE  /\ SendInv'
         /\ part = "one" /\ offset[m] \in Offset
         /\ \A k \in Key : \A e \in logs[k] : e.msg # m /\ e.offset < offset[m]
<1> USE DEF SendInv
<1> DEFINE new == [offset |-> offset[m], msg |-> m]
           k0 == KeyOf[m]
<1>1. /\ sendPc[m] = "allotted"
      /\ sendPc' = [sendPc EXCEPT ![m] = "done"]
      /\ logs' = [logs EXCEPT ![k0] = logs[k0] \cup {new}]
      /\ UNCHANGED <<part, nextOffset, kvVars, offset, guess>>
  BY DEF Insert, Goes, With
<1>2. part = "one"
  BY <1>1 DEF SendPcFits
<1>3. /\ k0 \in Key /\ offset[m] \in Offset /\ new \in Entry
      /\ offset[m] \in Nat /\ nextOffset \in Nat
  BY EntryFacts DEF SendType, KafkaAssumption, Entry
<1>4. \A x \in Send : sendPc'[x] = IF x = m THEN "done" ELSE sendPc[x]
  BY <1>1 DEF SendType
<1>5. /\ new.msg = m /\ new.offset = offset[m]
      /\ \A k \in Key : k # k0 => logs'[k] = logs[k]
      /\ logs'[k0] = logs[k0] \cup {new}
      /\ logs' \in [Key -> SUBSET Entry]
  BY <1>1, <1>3 DEF SendType
<1> HIDE DEF new
<1>6. SendType'
  <2>1. sendPc' \in [Send -> {"idle", "allotted", "cas", "read", "thrown", "done"}]
    BY <1>1 DEF SendType
  <2>2. StoreType'
    BY <1>1 DEF SendType, StoreType, kvVars
  <2> QED
    BY <1>1, <1>5, <2>1, <2>2 DEF SendType
<1>7. SendPcFits'
  BY <1>1, <1>2, <1>4 DEF SendPcFits
<1>8. \A k \in Key : \A e \in logs[k] :
        /\ e.msg \in Send /\ sendPc[e.msg] = "done" /\ e.msg # m
        /\ e.offset < offset[m]
  <2>1. \A k \in Key : logs[k] \subseteq Entry
    BY DEF SendType
  <2>2. \A k \in Key : \A e \in logs[k] : e.msg \in Send
    BY <2>1, EntryFacts
  <2> QED
    BY <1>1, <1>2, <2>2 DEF OffsetsInTurn
<1>9. OffsetsInTurn'
  <2>1. nextOffset = Cardinality({x \in Send : sendPc'[x] # "idle"})
    <3>1. {x \in Send : sendPc'[x] # "idle"} = {x \in Send : sendPc[x] # "idle"}
      BY <1>1, <1>4
    <3> QED
      BY <1>2, <3>1 DEF OffsetsInTurn
  <2>2. \A x \in Send : sendPc'[x] # "allotted"
    BY <1>1, <1>2, <1>4 DEF OffsetsInTurn
  <2>3. offset[m] < nextOffset
    BY <1>1, <1>2, <1>3 DEF OffsetsInTurn
  <2>4. \A k \in Key : \A e \in logs'[k] : e = new \/ e \in logs[k]
    BY <1>5
  <2>5. \A k \in Key : \A e \in logs'[k] :
          sendPc'[e.msg] = "done" /\ e.offset < nextOffset
    BY <1>2, <1>4, <1>5, <1>8, <2>3, <2>4 DEF OffsetsInTurn
  <2> QED
    BY <1>1, <2>1, <2>2, <2>5 DEF OffsetsInTurn
<1>10. LogsGrow' /\ LogsDense'
  <2>1. \A i \in DOMAIN versions : \A k \in Key : \A e \in versions[i][k] :
          e.msg \in Send /\ sendPc'[e.msg] = "done"
    <3>1. \A i \in DOMAIN versions : \A k \in Key : versions[i][k] \subseteq Entry
      BY VersionsType DEF SendType
    <3> QED
      BY <1>4, <3>1, EntryFacts DEF LogsDense
  <2> QED
    BY <1>1, <2>1 DEF LogsGrow, LogsDense, kvVars
<1>11. GuessBehind'
  BY <1>1, <1>2 DEF GuessBehind
<1> QED
  BY <1>2, <1>3, <1>6, <1>7, <1>8, <1>9, <1>10, <1>11

(* The swap is from the very log the offset is behind.                     *)
LEMMA SucceedKeepsInv ==
  ASSUME KafkaAssumption, SendInv, NEW m \in Send, SendSucceeds(m)
  PROVE  /\ SendInv'
         /\ part = "two" /\ offset[m] \in Offset
         /\ \A k \in Key : \A e \in Last[k] : e.msg # m
         /\ \A e \in Last[KeyOf[m]] : e.offset < offset[m]
         /\ Last' \in [Key -> SUBSET Entry]
         /\ Last'[KeyOf[m]] = With(Last[KeyOf[m]], offset[m], m)
         /\ \A k \in Key : k # KeyOf[m] => Last'[k] = Last[k]
<1> USE DEF SendInv
<1> DEFINE new == [offset |-> offset[m], msg |-> m]
           k0 == KeyOf[m]
           log == Last[k0]
           to == log \cup {new}
           N == Len(versions)
<1>1. /\ sendPc[m] = "cas"
      /\ sendPc' = [sendPc EXCEPT ![m] = "done"]
      /\ CasSucceeds(At[m], k0, guess[m], guess[m] \cup {new})
      /\ UNCHANGED <<nodeVars, offset, guess>>
  BY DEF SendSucceeds, Goes, With
<1>2. part = "two"
  BY <1>1 DEF SendPcFits, SendType, KafkaAssumption
<1>3. /\ k0 \in Key /\ At[m] \in Node /\ offset[m] \in Offset
      /\ new \in Entry /\ guess[m] \in SUBSET Entry
      /\ StoreType
  BY DEF SendType, KafkaAssumption, Entry
<1>4. /\ guess[m] \cup {new} \in SUBSET Entry
      /\ new.msg = m /\ new.offset = offset[m]
  BY <1>3
<1>5. /\ Last \in [Key -> SUBSET Entry] /\ N \in DOMAIN versions
      /\ DOMAIN versions = 1 .. N /\ N \in Nat \ {0} /\ Last = versions[N]
      /\ \A i \in DOMAIN versions : versions[i] \in [Key -> SUBSET Entry]
  BY <1>3, VersionsType DEF Last
<1> HIDE DEF new
<1>6. guess[m] = log
  <2>1. log \in {{}, guess[m]}
    BY <1>1, <1>3, <1>4, AppendedType
  <2>2. guess[m] \subseteq log
    BY <1>2 DEF GuessBehind
  <2> QED
    BY <2>1, <2>2
<1>7. /\ StoreType'
      /\ DOMAIN versions' = DOMAIN versions \cup {N + 1}
      /\ \A i \in DOMAIN versions : versions'[i] = versions[i]
      /\ versions'[N + 1] = Last'
      /\ Last' \in [Key -> SUBSET Entry] /\ Last'[k0] = to
      /\ \A k \in Key : k # k0 => Last'[k] = Last[k]
      /\ \A i \in DOMAIN versions : i # N + 1
  <2>1. to = guess[m] \cup {new}
    BY <1>6
  <2>2. CasSucceeds(At[m], k0, guess[m], to)
    BY <1>1, <2>1
  <2>3. to \in SUBSET Entry
    BY <1>4, <2>1
  <2> HIDE DEF to
  <2>4. StoreType /\ At[m] \in Node /\ k0 \in Key
    BY <1>3
  <2> HIDE DEF k0
  <2>5. StoreType'
    BY <2>2, <2>3, <2>4, AppendedType
  <2>6. DOMAIN versions' = DOMAIN versions \cup {N + 1}
    BY <2>2, <2>3, <2>4, AppendedType
  <2>7. \A i \in DOMAIN versions : versions'[i] = versions[i]
    BY <2>2, <2>3, <2>4, AppendedType
  <2>8. versions'[N + 1] = Last'
    BY <2>2, <2>3, <2>4, AppendedType
  <2>9. Last' \in [Key -> SUBSET Entry] /\ Last'[k0] = to
    BY <2>2, <2>3, <2>4, AppendedType
  <2>10. \A k \in Key : k # k0 => Last'[k] = Last[k]
    BY <2>2, <2>3, <2>4, AppendedType
  <2>11. \A i \in DOMAIN versions : i # N + 1
    BY <2>2, <2>3, <2>4, AppendedType
  <2> QED
    BY <2>5, <2>6, <2>7, <2>8, <2>9, <2>10, <2>11
<1>8. /\ Last'[k0] = to
      /\ \A k \in Key : k # k0 => Last'[k] = Last[k]
      /\ \A k \in Key : Last[k] \subseteq Last'[k]
  BY <1>3, <1>5, <1>7
<1>9. \A x \in Send : sendPc'[x] = IF x = m THEN "done" ELSE sendPc[x]
  BY <1>1 DEF SendType
<1>10. SendType'
  <2>1. sendPc' \in [Send -> {"idle", "allotted", "cas", "read", "thrown", "done"}]
    BY <1>1 DEF SendType
  <2> QED
    BY <1>1, <1>7, <2>1 DEF SendType, nodeVars
<1>11. SendPcFits'
  BY <1>1, <1>2, <1>9 DEF SendPcFits, nodeVars
<1>12. OffsetsInTurn'
  BY <1>1, <1>2 DEF OffsetsInTurn, nodeVars
<1>13. LogsGrow'
  <2> SUFFICES ASSUME NEW i \in DOMAIN versions', NEW j \in DOMAIN versions',
                      i <= j, NEW k \in Key
               PROVE  versions'[i][k] \subseteq versions'[j][k]
    BY DEF LogsGrow
  <2>1. CASE i \in DOMAIN versions /\ j \in DOMAIN versions
    BY <1>7, <2>1 DEF LogsGrow
  <2>2. CASE i \in DOMAIN versions /\ j = N + 1
    <3>1. versions[i][k] \subseteq Last[k]
      BY <1>5, <2>2 DEF LogsGrow
    <3> QED
      BY <1>7, <1>8, <2>2, <3>1
  <2>3. CASE i = N + 1
    BY <1>5, <1>7, <2>3
  <2> QED
    BY <1>7, <2>1, <2>2, <2>3
<1>14. \A i \in DOMAIN versions : \A k \in Key : \A e \in versions[i][k] :
         /\ e.msg \in Send /\ e.msg # m /\ sendPc'[e.msg] = "done"
         /\ e.offset \in Nat
  <2>1. \A i \in DOMAIN versions : \A k \in Key : versions[i][k] \subseteq Entry
    BY <1>5
  <2> QED
    BY <1>1, <1>9, <2>1, EntryFacts DEF LogsDense
<1>15. /\ \A e \in log : e.offset < offset[m]
       /\ offset[m] <= Cardinality(log)
  BY <1>2, <1>6 DEF GuessBehind
<1>16. Cardinality(to) = Cardinality(log) + 1 /\ Cardinality(log) \in Nat
  <2>1. log \in SUBSET Entry
    BY <1>3, <1>5
  <2>2. IsFiniteSet(log) /\ Cardinality(log) \in Nat
    BY <2>1, EntryFacts
  <2>3. new \notin log
    BY <1>3, <1>4, <1>5, <1>14
  <2> QED
    BY <2>2, <2>3, FS_AddElement
<1>17. LogsDense'
  <2>1. ASSUME NEW i \in DOMAIN versions', NEW k \in Key, NEW e \in versions'[i][k]
        PROVE  /\ sendPc'[e.msg] = "done"
               /\ e.offset < Cardinality(versions'[i][k])
               /\ \A f \in versions'[i][k] : e.msg = f.msg => e = f
    <3>1. CASE i \in DOMAIN versions
      BY <1>7, <1>14, <2>1, <3>1 DEF LogsDense
    <3>2. CASE i = N + 1 /\ k # k0
      <4>1. versions'[i][k] = versions[N][k]
        BY <1>5, <1>7, <1>8, <3>2
      <4> QED
        BY <1>5, <1>14, <2>1, <4>1 DEF LogsDense
    <3>3. CASE i = N + 1 /\ k = k0
      <4>1. versions'[i][k] = to /\ log = versions[N][k0]
        BY <1>5, <1>7, <1>8, <3>3
      <4>2. sendPc'[e.msg] = "done"
        BY <1>3, <1>4, <1>5, <1>9, <1>14, <2>1, <4>1
      <4>3. e.offset < Cardinality(to)
        <5>1. CASE e = new
          <6>1. offset[m] \in Nat
            BY <1>3, EntryFacts
          <6> QED
            BY <1>4, <1>15, <1>16, <5>1, <6>1
        <5>2. CASE e \in log
          <6>1. e.offset < Cardinality(log) /\ e.offset \in Nat
            BY <1>3, <1>5, <1>14, <4>1, <5>2 DEF LogsDense
          <6> QED
            BY <1>16, <6>1
        <5> QED
          BY <2>1, <4>1, <5>1, <5>2
      <4>4. \A f \in to : e.msg = f.msg => e = f
        <5>1. \A d \in log : d.msg # m /\ \A f \in log : d.msg = f.msg => d = f
          BY <1>3, <1>5, <1>14, <4>1 DEF LogsDense
        <5> QED
          BY <1>4, <2>1, <4>1, <5>1
      <4> QED
        BY <4>1, <4>2, <4>3, <4>4
    <3> QED
      BY <1>7, <3>1, <3>2, <3>3
  <2> QED
    BY <2>1 DEF LogsDense
<1>18. GuessBehind'
  <2>1. \A x \in Send : /\ KeyOf[x] \in Key
                        /\ guess[x] \subseteq Last[KeyOf[x]]
    BY <1>2 DEF GuessBehind, KafkaAssumption
  <2>2. \A x \in Send : guess[x] \subseteq Last'[KeyOf[x]]
    BY <1>8, <2>1
  <2> QED
    BY <1>1, <1>2, <2>2 DEF GuessBehind
<1>19. \A k \in Key : \A e \in Last[k] : e.msg # m
  BY <1>5, <1>14
<1>20. With(Last[k0], offset[m], m) = to
  BY DEF With, new
<1> QED
  BY <1>2, <1>3, <1>7, <1>10, <1>11, <1>12, <1>13, <1>15, <1>17, <1>18, <1>19,
     <1>20

(* The offset of the next guess is behind the log that was read, and that  *)
(* log has not got the message.                                            *)
LEMMA ReadsKeepsInv ==
  ASSUME KafkaAssumption, SendInv, NEW m \in Send, SendReads(m)
  PROVE  SendInv' /\ part = "two" /\ versions' = versions
<1> USE DEF SendInv
<1>1. PICK i \in DOMAIN versions :
        /\ ServedAt(At[m], i)
        /\ LET log == versions[i][KeyOf[m]] IN
             \/ /\ log = {}
                /\ Goes(m, "read", "thrown")
                /\ UNCHANGED <<offset, guess>>
             \/ /\ log # {}
                /\ Goes(m, "read", "cas")
                /\ guess' = [guess EXCEPT ![m] = log]
                /\ offset' = [offset EXCEPT ![m] =
                                Max({e.offset : e \in log}) + 1]
        /\ UNCHANGED nodeVars
  BY DEF SendReads, NewGuess
<1> DEFINE k0 == KeyOf[m]
           log == versions[i][k0]
           o == Max({e.offset : e \in log}) + 1
<1>2. k0 \in Key /\ At[m] \in Node /\ StoreType
  BY DEF SendType, KafkaAssumption
<1>3. StoreType' /\ versions' = versions
  BY <1>1, <1>2, ServedType
<1>4. /\ sendPc[m] = "read"
      /\ \E to \in {"thrown", "cas"} :
           /\ sendPc' = [sendPc EXCEPT ![m] = to]
           /\ \A x \in Send : sendPc'[x] = IF x = m THEN to ELSE sendPc[x]
  BY <1>1 DEF Goes, SendType
<1>5. part = "two" /\ part' = "two"
  BY <1>1, <1>4 DEF SendPcFits, SendType, KafkaAssumption, nodeVars
<1>6. log \in SUBSET Entry
  BY <1>2, VersionsType
<1>7. log \subseteq Last[k0]
  <2>1. Len(versions) \in DOMAIN versions /\ i <= Len(versions)
    BY <1>2, VersionsType
  <2> QED
    BY <1>2, <2>1 DEF LogsGrow, Last
<1>8. \A j \in DOMAIN versions : \A k \in Key : \A e \in versions[j][k] :
        e.msg \in Send /\ e.msg # m
  BY <1>2, <1>4, VersionsType, EntryFacts DEF LogsDense
<1>9. ASSUME log # {}
      PROVE  /\ o \in Offset /\ o <= Cardinality(log)
             /\ \A e \in log : e.offset < o
  <2>1. /\ o - 1 \in Offset
        /\ \A e \in log : e.offset <= o - 1
        /\ \E e \in log : e.offset = o - 1
    <3> DEFINE last == Max({e.offset : e \in log})
    <3>1. /\ last \in Offset
          /\ \A e \in log : e.offset <= last
          /\ \E e \in log : e.offset = last
      BY <1>6, <1>9, OffsetBehind
    <3>2. last \in Nat
      BY <3>1, EntryFacts
    <3> HIDE DEF last
    <3>3. (last + 1) - 1 = last
      BY <3>2
    <3> QED
      BY <3>1, <3>3 DEF last
  <2>2. Cardinality(log) \in Nat /\ o - 1 \in Nat
    BY <1>6, <2>1, EntryFacts
  <2>3. o \in Nat
    <3>1. Max({e.offset : e \in log}) \in Nat
      BY <1>6, <1>9, OffsetBehind, EntryFacts
    <3> QED
      BY <3>1
  <2>4. o - 1 < Cardinality(log)
    BY <1>2, <2>1 DEF LogsDense
  <2>5. Cardinality(log) + 1 <= Cardinality(Send)
    <3>1. /\ \A e \in log : e.msg # m
          /\ \A e, f \in log : e.msg = f.msg => e = f
      BY <1>2, <1>8 DEF LogsDense
    <3> HIDE DEF log
    <3> QED
      BY <1>6, <3>1, LogFits
  <2>6. \A e \in log : e.offset \in Nat
    BY <1>6, EntryFacts
  <2> HIDE DEF log, o
  <2>7. o <= Cardinality(log)
    BY <2>2, <2>3, <2>4
  <2>8. o \in Offset
    BY <2>2, <2>3, <2>5, <2>7, EntryFacts DEF Offset
  <2> QED
    BY <2>1, <2>3, <2>6, <2>7, <2>8
<1>10. \/ UNCHANGED <<offset, guess>>
       \/ /\ log # {}
          /\ guess' = [guess EXCEPT ![m] = log]
          /\ offset' = [offset EXCEPT ![m] = o]
  BY <1>1
<1> HIDE DEF log, o
<1>11. SendType'
  <2>1. sendPc' \in [Send -> {"idle", "allotted", "cas", "read", "thrown", "done"}]
    BY <1>4 DEF SendType
  <2>2. offset' \in [Send -> Offset] /\ guess' \in [Send -> SUBSET Entry]
    BY <1>6, <1>9, <1>10 DEF SendType
  <2> QED
    BY <1>1, <1>3, <2>1, <2>2 DEF SendType, nodeVars
<1>12. SendPcFits'
  BY <1>4, <1>5 DEF SendPcFits
<1>13. OffsetsInTurn'
  BY <1>5 DEF OffsetsInTurn
<1>14. LogsGrow' /\ LogsDense'
  BY <1>3, <1>4, <1>8 DEF LogsGrow, LogsDense
<1>15. GuessBehind'
  <2>1. Last' = Last
    BY <1>3 DEF Last
  <2>2. ASSUME NEW x \in Send
        PROVE  /\ guess'[x] \subseteq Last[KeyOf[x]]
               /\ offset'[x] <= Cardinality(guess'[x])
               /\ \A e \in guess'[x] : e.offset < offset'[x]
    <3>1. CASE guess'[x] = guess[x] /\ offset'[x] = offset[x]
      BY <1>5, <3>1 DEF GuessBehind
    <3>2. CASE x = m /\ log # {} /\ guess'[x] = log /\ offset'[x] = o
      BY <1>7, <1>9, <3>2
    <3> QED
      BY <1>10, <3>1, <3>2 DEF SendType
  <2> QED
    BY <2>1, <2>2 DEF GuessBehind
<1> QED
  BY <1>3, <1>5, <1>11, <1>12, <1>13, <1>14, <1>15

-----------------------------------------------------------------------------
(* The steps of consumers.                                                 *)

(* The rest of TypeOK.                                                     *)
ClientType ==
  /\ committed \in OffsetMap
  /\ commitPc \in [Commit -> {"idle", "cas", "read", "done"}]
  /\ offsets \in [Commit -> OffsetMap]
  /\ old \in [Commit -> OffsetMap]
  /\ DOMAIN results = Consumer
  /\ \A c \in Consumer : /\ DOMAIN results[c] \subseteq Key
                         /\ results[c] \in [DOMAIN results[c] -> SUBSET Entry]
  /\ position \in [Consumer -> [Key -> 0 .. Cardinality(Send)]]
  /\ received \in [Consumer -> SUBSET Send]

LEMMA TypeParts == TypeOK <=> SendType /\ ClientType
BY KvType DEF TypeOK, SendType, ClientType

(* A consumer that gets entries of logs goes on behind the last of each.   *)
LEMMA ReceiveFacts ==
  ASSUME KafkaAssumption, ClientType, NEW c \in Consumer,
         NEW msgs \in [Key -> SUBSET Entry], Receive(c, msgs)
  PROVE  /\ position' \in [Consumer -> [Key -> 0 .. Cardinality(Send)]]
         /\ received' \in [Consumer -> SUBSET Send]
         /\ received' = [received EXCEPT ![c] = received[c] \cup
                           {e.msg : e \in UNION {msgs[k] : k \in Key}}]
         /\ \A d \in Consumer : d # c => position'[d] = position[d]
         /\ \A k \in Key :
              \/ msgs[k] = {} /\ position'[c][k] = position[c][k]
              \/ \E e \in msgs[k] : /\ position'[c][k] = e.offset + 1
                                    /\ \A f \in msgs[k] : f.offset <= e.offset
<1> DEFINE next == [k \in Key |-> IF msgs[k] = {} THEN position[c][k]
                                  ELSE Max({e.offset : e \in msgs[k]}) + 1]
           got == {e.msg : e \in UNION {msgs[k] : k \in Key}}
<1>1. /\ received' = [received EXCEPT ![c] = received[c] \cup got]
      /\ position' = [position EXCEPT ![c] = next]
  BY DEF Receive
<1>2. got \subseteq Send
  BY EntryFacts
<1>3. /\ position \in [Consumer -> [Key -> 0 .. Cardinality(Send)]]
      /\ received \in [Consumer -> SUBSET Send]
  BY DEF ClientType
<1>4. \A k \in Key : msgs[k] # {} =>
        /\ next[k] \in 0 .. Cardinality(Send)
        /\ \E e \in msgs[k] : /\ next[k] = e.offset + 1
                              /\ \A f \in msgs[k] : f.offset <= e.offset
  <2> SUFFICES ASSUME NEW k \in Key, msgs[k] # {}
               PROVE  /\ next[k] \in 0 .. Cardinality(Send)
                      /\ \E e \in msgs[k] :
                           /\ next[k] = e.offset + 1
                           /\ \A f \in msgs[k] : f.offset <= e.offset
    OBVIOUS
  <2> DEFINE last == Max({e.offset : e \in msgs[k]})
  <2>1. /\ last \in Offset
        /\ \A e \in msgs[k] : e.offset <= last
        /\ \E e \in msgs[k] : e.offset = last
    BY OffsetBehind
  <2>2. next[k] = last + 1
    OBVIOUS
  <2> HIDE DEF last, next
  <2>3. last + 1 \in 0 .. Cardinality(Send)
    BY <2>1, EntryFacts DEF Offset
  <2> QED
    BY <2>1, <2>2, <2>3
<1>5. \A k \in Key : msgs[k] = {} => next[k] = position[c][k]
  OBVIOUS
<1>6. next \in [Key -> 0 .. Cardinality(Send)]
  <2>1. \A k \in Key : position[c][k] \in 0 .. Cardinality(Send)
    BY <1>3
  <2>2. \A k \in Key : next[k] \in 0 .. Cardinality(Send)
    BY <1>4, <1>5, <2>1
  <2>3. next = [k \in Key |-> next[k]]
    OBVIOUS
  <2> HIDE DEF next
  <2> QED
    BY <2>2, <2>3
<1> HIDE DEF next, got
<1>7. /\ position' \in [Consumer -> [Key -> 0 .. Cardinality(Send)]]
      /\ position'[c] = next
      /\ \A d \in Consumer : d # c => position'[d] = position[d]
  BY <1>1, <1>3, <1>6
<1>8. received' \in [Consumer -> SUBSET Send]
  BY <1>1, <1>2, <1>3
<1> QED
  BY <1>1, <1>4, <1>5, <1>7, <1>8 DEF got

(* The first messages are a part of a log with nothing left out.           *)
LEMMA FirstOfFacts ==
  ASSUME KafkaAssumption, NEW log \in SUBSET Entry
  PROVE  /\ FirstOf(log) \subseteq log
         /\ \A e \in log, f \in FirstOf(log) :
              e.offset <= f.offset => e \in FirstOf(log)
<1>1. FirstOf(log) \subseteq log
  BY DEF FirstOf
<1>2. ASSUME NEW e \in log, NEW f \in FirstOf(log), e.offset <= f.offset
      PROVE  e \in FirstOf(log)
  <2> DEFINE Before(x) == {g \in log : g.offset < x.offset}
  <2>1. \A g \in log : g.offset \in Nat
    BY EntryFacts
  <2>2. f \in log /\ Cardinality(Before(f)) < MaxPollSize
    BY DEF FirstOf
  <2>3. Before(e) \subseteq Before(f) /\ Before(f) \in SUBSET Entry
        /\ Before(e) \in SUBSET Entry
    BY <1>2, <2>1, <2>2
  <2>4. /\ IsFiniteSet(Before(f)) /\ Cardinality(Before(f)) \in Nat
        /\ Cardinality(Before(e)) \in Nat
    BY <2>3, EntryFacts
  <2>5. Cardinality(Before(e)) <= Cardinality(Before(f))
    <3> HIDE DEF Before
    <3> QED
      BY <2>3, <2>4, FS_Subset
  <2>6. MaxPollSize \in Nat
    BY DEF KafkaAssumption
  <2>7. Cardinality(Before(e)) < MaxPollSize
    <3> HIDE DEF Before
    <3> QED
      BY <2>2, <2>4, <2>5, <2>6
  <2> QED
    BY <2>7 DEF FirstOf
<1> QED
  BY <1>1, <1>2

(* A poll of part 1 moves a consumer past what it is given.                *)
LEMMA PollOneDelivers ==
  ASSUME KafkaAssumption, TypeOK, NEW c \in Consumer, PollOne(c)
  PROVE  /\ ClientType'
         /\ part = "one"
         /\ position'[c] \in [Key -> {0} \cup {o + 1 : o \in Offset}]
         /\ Promise!Deliver(c, position'[c])
<1> DEFINE ahead == [k \in Key |-> AtOrAfter(logs[k], position[c][k])]
           msgs == [k \in Key |-> FirstOf(AtOrAfter(logs[k], position[c][k]))]
<1>1. /\ part = "one" /\ Receive(c, msgs)
      /\ UNCHANGED <<nodeVars, kvVars, committed, sendVars, commitVars, results>>
  BY DEF PollOne
<1>2. /\ ClientType /\ logs \in [Key -> SUBSET Entry]
      /\ position \in [Consumer -> [Key -> 0 .. Cardinality(Send)]]
      /\ received \in [Consumer -> SUBSET Send]
      /\ Cardinality(Send) \in Nat
  BY TypeParts, EntryFacts DEF SendType, ClientType
<1>3. \A k \in Key :
        /\ ahead[k] = {e \in logs[k] : e.offset >= position[c][k]}
        /\ ahead[k] \in SUBSET Entry
        /\ msgs[k] = FirstOf(ahead[k])
  BY <1>2 DEF AtOrAfter
<1>4. \A k \in Key :
        /\ msgs[k] \subseteq ahead[k] /\ msgs[k] \in SUBSET Entry
        /\ \A e \in ahead[k], f \in msgs[k] :
             e.offset <= f.offset => e \in msgs[k]
  <2> HIDE DEF ahead, msgs
  <2> QED
    BY <1>3, FirstOfFacts
<1>5. msgs \in [Key -> SUBSET Entry]
  BY <1>4
<1> HIDE DEF ahead, msgs
<1>6. /\ position' \in [Consumer -> [Key -> 0 .. Cardinality(Send)]]
      /\ received' \in [Consumer -> SUBSET Send]
      /\ received' = [received EXCEPT ![c] = received[c] \cup
                        {e.msg : e \in UNION {msgs[k] : k \in Key}}]
      /\ \A d \in Consumer : d # c => position'[d] = position[d]
      /\ \A k \in Key :
           \/ msgs[k] = {} /\ position'[c][k] = position[c][k]
           \/ \E e \in msgs[k] : /\ position'[c][k] = e.offset + 1
                                 /\ \A f \in msgs[k] : f.offset <= e.offset
  BY <1>1, <1>2, <1>5, ReceiveFacts
<1> DEFINE next == position'[c]
<1>7. /\ next \in [Key -> 0 .. Cardinality(Send)]
      /\ position' = [position EXCEPT ![c] = next]
  BY <1>2, <1>6
<1>8. next \in [Key -> {0} \cup {o + 1 : o \in Offset}]
  <2>1. \A x \in 0 .. Cardinality(Send) : x \in {0} \cup {o + 1 : o \in Offset}
    <3> SUFFICES ASSUME NEW x \in 1 .. Cardinality(Send)
                 PROVE  \E o \in Offset : x = o + 1
      BY <1>2
    <3>1. x - 1 \in Offset /\ x = (x - 1) + 1
      BY <1>2 DEF Offset
    <3> QED
      BY <3>1
  <2> QED
    BY <1>7, <2>1
<1> HIDE DEF next
<1>9. \A k \in Key : \A e \in logs[k] :
        e.offset \in Nat /\ position[c][k] \in Nat /\ next[k] \in Nat
  BY <1>2, <1>7, EntryFacts
<1>10. ASSUME NEW k \in Key
       PROVE  /\ \/ next[k] = position[c][k]
                 \/ /\ next[k] > position[c][k]
                    /\ \E e \in logs[k] : next[k] = e.offset + 1
              /\ msgs[k] = {x \in logs[k] : /\ x.offset >= position[c][k]
                                            /\ x.offset < next[k]}
  <2>1. CASE msgs[k] = {} /\ next[k] = position[c][k]
    BY <1>9, <2>1
  <2>2. ASSUME NEW e \in msgs[k], next[k] = e.offset + 1,
               \A f \in msgs[k] : f.offset <= e.offset
        PROVE  <1>10!2
    <3>1. e \in ahead[k] /\ e \in logs[k] /\ e.offset >= position[c][k]
      BY <1>3, <1>4
    <3>2. next[k] > position[c][k]
      BY <1>9, <2>2, <3>1
    <3>3. \A x \in msgs[k] : /\ x \in logs[k] /\ x.offset >= position[c][k]
                             /\ x.offset < next[k]
      BY <1>3, <1>4, <1>9, <2>2
    <3>4. \A x \in logs[k] :
            x.offset >= position[c][k] /\ x.offset < next[k] => x \in msgs[k]
      BY <1>3, <1>4, <1>9, <2>2, <3>1
    <3> QED
      BY <2>2, <3>1, <3>2, <3>3, <3>4
  <2> QED
    BY <1>6, <2>1, <2>2 DEF next
<1>11. Stored = logs /\ Stored' = logs
  BY <1>1 DEF Stored, nodeVars
<1>12. {e.msg : e \in UNION {msgs[k] : k \in Key}}
         = UNION {{e.msg : e \in {x \in Stored[k] : /\ x.offset >= position[c][k]
                                                    /\ x.offset < next[k]}}
                  : k \in Key}
  <2>1. \A k \in Key :
          {x \in Stored[k] : x.offset >= position[c][k] /\ x.offset < next[k]}
            = msgs[k]
    BY <1>10, <1>11
  <2> QED
    BY <2>1
<1>13. Promise!Deliver(c, next)
  <2>1. \A k \in Key : \/ next[k] = position[c][k]
                      \/ /\ next[k] > position[c][k]
                         /\ \E e \in Stored[k] : next[k] = e.offset + 1
    BY <1>10, <1>11
  <2> DEFINE got == {e.msg : e \in UNION {msgs[k] : k \in Key}}
             given == UNION {{e.msg : e \in {x \in Stored[k] :
                                               /\ x.offset >= position[c][k]
                                               /\ x.offset < next[k]}}
                             : k \in Key}
  <2>2. received' = [received EXCEPT ![c] = received[c] \cup given]
    <3>1. received' = [received EXCEPT ![c] = received[c] \cup got]
      BY <1>6
    <3>2. got = given
      BY <1>12
    <3> HIDE DEF got, given
    <3> QED
      BY <3>1, <3>2
  <2>3. position' = [position EXCEPT ![c] = next] /\ Stored' = Stored
    BY <1>7, <1>11
  <2> QED
    BY <2>1, <2>2, <2>3 DEF Promise!Deliver
<1>14. ClientType'
  BY <1>1, <1>2, <1>6 DEF ClientType, commitVars
<1> QED
  BY <1>1, <1>8, <1>13, <1>14 DEF next

(* A poll of part 2 gives nothing and moves nobody.                        *)
LEMMA FinishPollStays ==
  ASSUME KafkaAssumption, TypeOK, NEW c \in Consumer, FinishPoll(c)
  PROVE  ClientType' /\ UNCHANGED <<Stored, position, received>>
<1> DEFINE msgs == [k \in Key |-> Answered(results[c][k], position[c][k])]
<1>1. /\ DOMAIN results[c] = Key /\ Receive(c, msgs)
      /\ results' = [results EXCEPT ![c] = Empty]
      /\ UNCHANGED <<nodeVars, kvVars, committed, sendVars, commitVars>>
  BY DEF FinishPoll
<1>2. \A k \in Key : msgs[k] = {}
  <2>1. FirstOf({}) = {}
    BY DEF FirstOf
  <2> QED
    BY <2>1 DEF Answered
<1>3. msgs \in [Key -> SUBSET Entry]
  BY <1>2
<1> HIDE DEF msgs
<1>4. ClientType
  BY TypeParts
<1>5. /\ position' \in [Consumer -> [Key -> 0 .. Cardinality(Send)]]
      /\ received' \in [Consumer -> SUBSET Send]
      /\ received' = [received EXCEPT ![c] = received[c] \cup
                        {e.msg : e \in UNION {msgs[k] : k \in Key}}]
      /\ \A d \in Consumer : d # c => position'[d] = position[d]
      /\ \A k \in Key : position'[c][k] = position[c][k]
  <2>1. \A k \in Key :
          \/ msgs[k] = {} /\ position'[c][k] = position[c][k]
          \/ \E e \in msgs[k] : /\ position'[c][k] = e.offset + 1
                                /\ \A f \in msgs[k] : f.offset <= e.offset
    BY <1>1, <1>3, <1>4, ReceiveFacts
  <2>2. \A k \in Key : position'[c][k] = position[c][k]
    BY <1>2, <2>1
  <2> QED
    BY <1>1, <1>3, <1>4, <2>2, ReceiveFacts
<1>6. received' = received
  <2>1. {e.msg : e \in UNION {msgs[k] : k \in Key}} = {}
    BY <1>2
  <2>2. received' = [received EXCEPT ![c] = received[c] \cup {}]
    BY <1>5, <2>1
  <2> QED
    BY <1>4, <2>2 DEF ClientType
<1>7. position' = position
  <2>1. \A d \in Consumer : position'[d] = position[d]
    BY <1>4, <1>5 DEF ClientType
  <2> QED
    BY <1>4, <1>5, <2>1 DEF ClientType
<1>8. /\ DOMAIN results' = Consumer
      /\ \A d \in Consumer :
           /\ DOMAIN results'[d] \subseteq Key
           /\ results'[d] \in [DOMAIN results'[d] -> SUBSET Entry]
  <2>1. DOMAIN Empty = {} /\ Empty \in [{} -> SUBSET Entry]
    BY DEF Empty
  <2>2. \A d \in Consumer : results'[d] = IF d = c THEN Empty ELSE results[d]
    BY <1>1, <1>4 DEF ClientType
  <2> QED
    BY <1>1, <1>4, <2>1, <2>2 DEF ClientType
<1>9. UNCHANGED Stored
  BY <1>1 DEF Stored, Last, nodeVars, kvVars
<1> QED
  BY <1>1, <1>4, <1>6, <1>7, <1>8, <1>9 DEF ClientType, commitVars

(* A log that is read is one of the logs of a version.                     *)
LEMMA ReadLogType ==
  ASSUME KafkaAssumption, TypeOK, NEW c \in Consumer, NEW k \in Key, ReadLog(c, k)
  PROVE  ClientType' /\ StoreType' /\ versions' = versions
<1>1. PICK i \in DOMAIN versions :
        /\ ServedAt(At[c], i)
        /\ results' = [results EXCEPT ![c] =
                         Overwritten(results[c], [x \in {k} |-> versions[i][k]])]
  BY DEF ReadLog
<1>2. UNCHANGED <<committed, commitVars, position, received>>
  BY DEF ReadLog
<1>3. SendType /\ ClientType /\ At[c] \in Node
  BY TypeParts DEF KafkaAssumption
<1>4. StoreType' /\ versions' = versions
  BY <1>1, <1>3, ServedType DEF SendType
<1> DEFINE got == Overwritten(results[c], [x \in {k} |-> versions[i][k]])
<1>5. DOMAIN got \subseteq Key /\ got \in [DOMAIN got -> SUBSET Entry]
  <2>1. versions[i][k] \in SUBSET Entry
    BY <1>3, VersionsType DEF SendType
  <2>2. /\ DOMAIN results[c] \subseteq Key
        /\ \A x \in DOMAIN results[c] : results[c][x] \in SUBSET Entry
    BY <1>3 DEF ClientType
  <2> QED
    BY <2>1, <2>2 DEF Overwritten
<1> HIDE DEF got
<1>6. \A d \in Consumer : results'[d] = IF d = c THEN got ELSE results[d]
  BY <1>1, <1>3 DEF ClientType, got
<1>7. ClientType'
  <2>1. DOMAIN results' = Consumer
    BY <1>1, <1>3 DEF ClientType
  <2>2. \A d \in Consumer : /\ DOMAIN results'[d] \subseteq Key
                            /\ results'[d] \in [DOMAIN results'[d] -> SUBSET Entry]
    BY <1>3, <1>5, <1>6 DEF ClientType
  <2> QED
    BY <1>2, <1>3, <2>1, <2>2 DEF ClientType, commitVars
<1> QED
  BY <1>4, <1>7

-----------------------------------------------------------------------------
(* The steps of commits.                                                   *)

(* An offset map is one with keys and offsets.                             *)
LEMMA OffsetMapFacts ==
  /\ \A new \in OffsetMap : /\ DOMAIN new \subseteq Key
                            /\ \A k \in DOMAIN new : new[k] \in Offset
  /\ \A ks \in SUBSET Key : \A new \in [ks -> Offset] : new \in OffsetMap
BY DEF OffsetMap

(* Merging two of them takes the greater offset of each key.               *)
LEMMA MergedFacts ==
  ASSUME KafkaAssumption, NEW from \in OffsetMap, NEW new \in OffsetMap
  PROVE  /\ Merged(from, new) \in OffsetMap
         /\ DOMAIN Merged(from, new) = DOMAIN from \cup DOMAIN new
         /\ \A k \in DOMAIN from : Merged(from, new)[k] >= from[k]
         /\ \A k \in DOMAIN new : Merged(from, new)[k] >= new[k]
<1> DEFINE ks == DOMAIN from \cup DOMAIN new
           At2(k) == {x[k] : x \in {y \in {from, new} : k \in DOMAIN y}}
<1>1. /\ ks \subseteq Key /\ DOMAIN from \subseteq ks /\ DOMAIN new \subseteq ks
      /\ \A k \in DOMAIN from : from[k] \in Offset
      /\ \A k \in DOMAIN new : new[k] \in Offset
  BY OffsetMapFacts
<1>2. \A k \in ks : /\ At2(k) # {} /\ At2(k) \subseteq Offset
                    /\ k \in DOMAIN from => from[k] \in At2(k)
                    /\ k \in DOMAIN new => new[k] \in At2(k)
  <2> SUFFICES ASSUME NEW k \in ks
               PROVE  /\ At2(k) # {} /\ At2(k) \subseteq Offset
                      /\ k \in DOMAIN from => from[k] \in At2(k)
                      /\ k \in DOMAIN new => new[k] \in At2(k)
    OBVIOUS
  <2>1. k \in DOMAIN from => from[k] \in At2(k)
    OBVIOUS
  <2>2. k \in DOMAIN new => new[k] \in At2(k)
    OBVIOUS
  <2>3. ASSUME NEW x \in {from, new}, k \in DOMAIN x
        PROVE  x[k] \in Offset
    <3>1. x \in OffsetMap
      OBVIOUS
    <3> QED
      BY <2>3, <3>1, OffsetMapFacts
  <2>4. At2(k) \subseteq Offset
    BY <2>3
  <2>5. At2(k) # {}
    BY <2>1, <2>2
  <2> QED
    BY <2>1, <2>2, <2>4, <2>5
<1>3. \A k \in ks : Max(At2(k)) \in At2(k) /\ \A x \in At2(k) : x <= Max(At2(k))
  <2> SUFFICES ASSUME NEW k \in ks
               PROVE  /\ Max(At2(k)) \in At2(k)
                      /\ \A x \in At2(k) : x <= Max(At2(k))
    OBVIOUS
  <2>1. At2(k) # {} /\ At2(k) \subseteq Offset
    BY <1>2
  <2>2. At2(k) \subseteq Nat /\ \A x \in At2(k) : x <= Cardinality(Send)
    BY <2>1, EntryFacts DEF Offset
  <2> HIDE DEF At2
  <2> QED
    BY <2>1, <2>2, EntryFacts, MaxOf
<1>4. Merged(from, new) = [k \in ks |-> Max(At2(k))]
  BY DEF Merged
<1> HIDE DEF At2, ks
<1>5. \A k \in ks : Max(At2(k)) \in Offset /\ Max(At2(k)) \in Nat
  BY <1>2, <1>3, EntryFacts
<1>6. Merged(from, new) \in [ks -> Offset]
  BY <1>4, <1>5
<1>7. Merged(from, new) \in OffsetMap
  BY <1>1, <1>6, OffsetMapFacts
<1>8. /\ \A k \in DOMAIN from : Merged(from, new)[k] >= from[k]
      /\ \A k \in DOMAIN new : Merged(from, new)[k] >= new[k]
  BY <1>1, <1>2, <1>3, <1>4, <1>5, EntryFacts
<1>9. DOMAIN Merged(from, new) = DOMAIN from \cup DOMAIN new
  BY <1>4 DEF ks
<1> QED
  BY <1>7, <1>8, <1>9

(* So does overwriting, which lets the new map win (part 1).               *)
LEMMA OverwrittenType ==
  ASSUME NEW from \in OffsetMap, NEW new \in OffsetMap
  PROVE  Overwritten(from, new) \in OffsetMap
<1> DEFINE ks == DOMAIN from \cup DOMAIN new
<1>1. ks \in SUBSET Key
  BY OffsetMapFacts
<1>2. Overwritten(from, new) \in [ks -> Offset]
  BY OffsetMapFacts DEF Overwritten
<1> HIDE DEF ks
<1> QED
  BY <1>1, <1>2, OffsetMapFacts

(* What is committed and what commits know of it.                          *)
CommitInv == ClientType /\ CommitPcFits /\ OldBehind /\ CommitsHold

(* CommitsHold, said of `committed` itself.                                *)
LEMMA CommitsHoldMeans ==
  ASSUME ClientType
  PROVE  CommitsHold <=>
           (part = "two" =>
             \A t \in Commit : commitPc[t] = "done" =>
               \A k \in DOMAIN offsets[t] : /\ k \in DOMAIN committed
                                            /\ committed[k] >= offsets[t][k])
<1>1. \A k \in Key : k \in DOMAIN committed =>
        k \in DOMAIN Listed(Key) /\ Listed(Key)[k] = committed[k]
  BY DEF Listed
<1>2. DOMAIN Listed(Key) \subseteq DOMAIN committed
  BY DEF Listed
<1>3. \A t \in Commit : DOMAIN offsets[t] \subseteq Key
  BY OffsetMapFacts DEF ClientType
<1> QED
  BY <1>1, <1>2, <1>3 DEF CommitsHold

(* Steps that leave all of that alone.                                     *)
LEMMA CommitsUntouched ==
  ASSUME CommitInv, UNCHANGED <<part, committed, commitVars>>
  PROVE  CommitPcFits' /\ OldBehind' /\ CommitsHold'
BY DEF CommitInv, CommitPcFits, OldBehind, CommitsHold, Listed, commitVars

(* A commit that begins, and all of a commit in part 1.                    *)
LEMMA StartCommitKeepsInv ==
  ASSUME KafkaAssumption, CommitInv, NEW t \in Commit, NEW new \in OffsetMap,
         CommitOne(t, new) \/ StartCommit(t, new)
  PROVE  CommitInv'
<1> USE DEF CommitInv
<1>1. /\ commitPc[t] = "idle"
      /\ offsets' = [offsets EXCEPT ![t] = new]
      /\ UNCHANGED <<part, old, results, position, received>>
  BY DEF CommitOne, StartCommit, Commits, nodeVars, pollVars
<1>2. \/ /\ part = "one" /\ commitPc' = [commitPc EXCEPT ![t] = "done"]
         /\ committed' = Overwritten(committed, new)
      \/ /\ part = "two" /\ commitPc' = [commitPc EXCEPT ![t] = "cas"]
         /\ committed' = committed
  BY DEF CommitOne, StartCommit
<1>3. ClientType'
  <2>1. committed' \in OffsetMap
    BY <1>2, OverwrittenType DEF ClientType
  <2>2. /\ commitPc' \in [Commit -> {"idle", "cas", "read", "done"}]
        /\ offsets' \in [Commit -> OffsetMap]
    BY <1>1, <1>2 DEF ClientType
  <2> QED
    BY <1>1, <2>1, <2>2 DEF ClientType
<1>4. OldBehind'
  BY <1>1, <1>2 DEF OldBehind
<1>5. CommitsHold'
  <2>1. part' = "two" =>
          \A x \in Commit : commitPc'[x] = "done" =>
            /\ offsets'[x] = offsets[x] /\ commitPc[x] = "done"
    BY <1>1, <1>2 DEF ClientType
  <2> QED
    BY <1>1, <1>2, <2>1 DEF CommitsHold, Listed
<1>6. CommitPcFits'
  BY <1>1, <1>2 DEF CommitPcFits, ClientType
<1> QED
  BY <1>3, <1>4, <1>5, <1>6

(* The swap replaces what its guess is, or nothing, by more of it.         *)
LEMMA CommitStepKeepsInv ==
  ASSUME KafkaAssumption, CommitInv, part \in Part,
         NEW t \in Commit, CommitStep(t)
  PROVE  CommitInv'
<1> USE DEF CommitInv
<1>0. part = "two" /\ CommitPcFits'
  <2>1. part = "two"
    BY DEF CommitStep, CommitSucceeds, CommitFails, CommitReads, CommitPcFits,
           KafkaAssumption
  <2>2. part' = part
    BY DEF CommitStep, CommitSucceeds, CommitFails, CommitReads, nodeVars
  <2> QED
    BY <2>1, <2>2 DEF CommitPcFits
<1>1. UNCHANGED <<part, offsets, results, position, received>>
  BY DEF CommitStep, CommitSucceeds, CommitFails, CommitReads, nodeVars, pollVars
<1>2. /\ committed \in OffsetMap /\ old[t] \in OffsetMap /\ offsets[t] \in OffsetMap
      /\ \A x \in Commit : \A k \in DOMAIN old[x] : old[x][k] \in Nat
      /\ \A x \in Commit : \A k \in DOMAIN offsets[x] : offsets[x][k] \in Nat
      /\ \A k \in DOMAIN committed : committed[k] \in Nat
  BY OffsetMapFacts, EntryFacts DEF ClientType
<1>3. CASE CommitSucceeds(t)
  <2> DEFINE merged == Merged(old[t], offsets[t])
  <2>1. /\ committed \in {Empty, old[t]} /\ committed' = merged /\ old' = old
        /\ commitPc' = [commitPc EXCEPT ![t] = "done"]
    BY <1>3 DEF CommitSucceeds
  <2>2. /\ merged \in OffsetMap
        /\ DOMAIN merged = DOMAIN old[t] \cup DOMAIN offsets[t]
        /\ \A k \in DOMAIN old[t] : merged[k] >= old[t][k]
        /\ \A k \in DOMAIN offsets[t] : merged[k] >= offsets[t][k]
    BY <1>2, MergedFacts
  <2>3. \A k \in DOMAIN merged : merged[k] \in Nat
    BY <2>2, OffsetMapFacts, EntryFacts
  <2> HIDE DEF merged
  <2>4. \A k \in DOMAIN committed :
          k \in DOMAIN merged /\ merged[k] >= committed[k]
    <3>1. CASE committed = Empty
      <4>1. DOMAIN committed = {}
        BY <3>1 DEF Empty
      <4> QED
        BY <4>1
    <3>2. CASE committed = old[t]
      BY <2>2, <3>2
    <3> QED
      BY <2>1, <3>1, <3>2
  <2>5. ClientType'
    <3>1. commitPc' \in [Commit -> {"idle", "cas", "read", "done"}]
      BY <2>1 DEF ClientType
    <3> QED
      BY <1>1, <2>1, <2>2, <3>1 DEF ClientType
  <2>6. OldBehind'
    <3>1. \A x \in Commit : \A k \in DOMAIN old[x] :
            k \in DOMAIN merged /\ merged[k] >= old[x][k]
      BY <1>0, <1>2, <2>3, <2>4 DEF OldBehind
    <3> QED
      BY <1>1, <2>1, <3>1 DEF OldBehind
  <2>7. CommitsHold'
    <3>1. \A x \in Commit : commitPc'[x] = "done" =>
            \A k \in DOMAIN offsets[x] :
              k \in DOMAIN merged /\ merged[k] >= offsets[x][k]
      <4> SUFFICES ASSUME NEW x \in Commit, commitPc'[x] = "done",
                          NEW k \in DOMAIN offsets[x]
                   PROVE  k \in DOMAIN merged /\ merged[k] >= offsets[x][k]
        OBVIOUS
      <4>1. CASE x = t
        BY <2>2, <4>1
      <4>2. CASE x # t
        <5>1. k \in DOMAIN committed /\ committed[k] >= offsets[x][k]
          BY <1>0, <2>1, <4>2, CommitsHoldMeans DEF ClientType
        <5> QED
          BY <1>2, <2>3, <2>4, <5>1
      <4> QED
        BY <4>1, <4>2
    <3>2. \A k \in Key : k \in DOMAIN merged =>
            k \in DOMAIN Listed(Key)' /\ Listed(Key)'[k] = merged[k]
      BY <2>1 DEF Listed
    <3>3. \A x \in Commit : DOMAIN offsets[x] \subseteq Key
      BY OffsetMapFacts DEF ClientType
    <3> QED
      BY <1>1, <3>1, <3>2, <3>3 DEF CommitsHold, Listed
  <2> QED
    BY <1>0, <2>5, <2>6, <2>7
<1>4. CASE CommitFails(t) \/ CommitReads(t)
  <2>1. /\ committed' = committed
        /\ \E pc \in {"read", "cas"} : commitPc' = [commitPc EXCEPT ![t] = pc]
        /\ old' = old \/ old' = [old EXCEPT ![t] = committed]
    BY <1>4 DEF CommitFails, CommitReads
  <2>2. \A x \in Commit : commitPc'[x] = "done" => commitPc[x] = "done"
    BY <2>1 DEF ClientType
  <2>3. ClientType'
    <3>1. /\ commitPc' \in [Commit -> {"idle", "cas", "read", "done"}]
          /\ old' \in [Commit -> OffsetMap]
      BY <1>2, <2>1 DEF ClientType
    <3> QED
      BY <1>1, <2>1, <3>1 DEF ClientType
  <2>4. OldBehind'
    <3>1. \A x \in Commit : old'[x] = old[x] \/ old'[x] = committed
      BY <2>1 DEF ClientType
    <3>2. \A x \in Commit : \A k \in DOMAIN old'[x] :
            k \in DOMAIN committed /\ committed[k] >= old'[x][k]
      BY <1>0, <1>2, <3>1 DEF OldBehind
    <3> QED
      BY <1>1, <2>1, <3>2 DEF OldBehind
  <2>5. CommitsHold'
    BY <1>1, <2>1, <2>2 DEF CommitsHold, Listed
  <2> QED
    BY <1>0, <2>3, <2>4, <2>5
<1> QED
  BY <1>3, <1>4 DEF CommitStep

-----------------------------------------------------------------------------
(* The theorems.                                                           *)

(* The invariant, in the parts the lemmas are about.                       *)
LEMMA InvParts ==
  /\ KafkaInv <=> SendInv /\ CommitInv
  /\ KafkaInv' <=> SendInv' /\ CommitInv'
<1>1. KafkaInv <=> SendInv /\ CommitInv
  BY TypeParts DEF KafkaInv, StoreInv, SendInv, CommitInv
<1> QED
  BY <1>1, PTL

(* At first all logs are empty and nothing is committed.                   *)
LEMMA KafkaInit ==
  ASSUME KafkaAssumption, Init
  PROVE  KafkaInv /\ Stored = [k \in Key |-> {}]
<1> USE DEF Init
<1> DEFINE none == [k \in Key |-> {}]
<1>1. /\ versions = <<none>> /\ seen = [n \in Node |-> 1]
      /\ none \in [Key -> SUBSET Entry]
  BY DEF KvInit
<1>2. /\ versions \in Seq([Key -> SUBSET Entry]) /\ versions # <<>>
      /\ DOMAIN versions = {1} /\ versions[1] = none /\ Len(versions) = 1
  <2> HIDE DEF none
  <2> QED
    BY <1>1
<1>3. Last = none /\ Stored = none
  BY <1>2 DEF Last, Stored
<1>4. /\ 0 \in 0 .. Cardinality(Send)
      /\ \A m \in Send : 0 \in Offset
  <2>1. Send # {} => Cardinality(Send) # 0
    BY FS_EmptySet DEF KafkaAssumption
  <2> QED
    BY <2>1, EntryFacts DEF Offset
<1>5. SendType
  <2>1. StoreType
    BY <1>1, <1>2 DEF StoreType
  <2> QED
    BY <1>4, <2>1 DEF SendType
<1>6. ClientType
  <2>1. /\ DOMAIN Empty = {} /\ Empty \in [{} -> Offset]
        /\ Empty \in [{} -> SUBSET Entry]
    BY DEF Empty
  <2>2. Empty \in OffsetMap
    BY <2>1, OffsetMapFacts
  <2> QED
    BY <1>4, <2>1, <2>2 DEF ClientType
<1>7. SendPcFits
  BY DEF SendPcFits
<1>8. OffsetsInTurn
  <2>1. {m \in Send : sendPc[m] # "idle"} = {}
    OBVIOUS
  <2>2. Cardinality({m \in Send : sendPc[m] # "idle"}) = 0
    BY <2>1, FS_EmptySet
  <2> QED
    BY <2>2 DEF OffsetsInTurn
<1>9. LogsGrow /\ LogsDense
  BY <1>2 DEF LogsGrow, LogsDense
<1>10. GuessBehind
  <2>1. Cardinality({}) = 0
    BY FS_EmptySet
  <2>2. \A m \in Send : guess[m] = {} /\ offset[m] = 0
    OBVIOUS
  <2> QED
    BY <2>1, <2>2 DEF GuessBehind
<1>11. CommitPcFits /\ OldBehind /\ CommitsHold
  <2>1. DOMAIN Empty = {}
    BY DEF Empty
  <2> QED
    BY <2>1 DEF CommitPcFits, OldBehind, CommitsHold
<1> QED
  BY <1>3, <1>5, <1>6, <1>7, <1>8, <1>9, <1>10, <1>11, InvParts
     DEF SendInv, CommitInv

(* A step of a send keeps the invariant, and stores a message at the end   *)
(* of its log or nothing.                                                  *)
LEMMA SendKeepsInv ==
  ASSUME KafkaAssumption, KafkaInv, NEW m \in Send,
         Allot(m) \/ StartSend(m) \/ SendStep(m)
  PROVE  /\ KafkaInv'
         /\ Promise!Append(m, offset[m]) \/ UNCHANGED Promise!logVars
         /\ offset[m] \in Offset
<1>1. SendInv /\ CommitInv /\ offset[m] \in Offset
  BY InvParts DEF SendInv, SendType
<1>2. UNCHANGED <<part, committed, commitVars, results, position, received>>
  BY DEF Allot, StartSend, SendStep, Insert, SendSucceeds, SendFails, SendReads,
         nodeVars, pollVars
<1>3. CommitInv'
  <2>1. ClientType'
    BY <1>1, <1>2 DEF CommitInv, ClientType, commitVars
  <2> QED
    BY <1>1, <1>2, <2>1, CommitsUntouched DEF CommitInv
<1>4. CASE Allot(m)
  <2>1. SendInv'
    BY <1>1, <1>4, AllotKeepsInv
  <2>2. UNCHANGED Stored
    BY <1>4 DEF Allot, Stored, Last, kvVars
  <2> QED
    BY <1>1, <1>2, <1>3, <2>1, <2>2, InvParts DEF Promise!logVars
<1>5. CASE StartSend(m) \/ SendFails(m)
  <2>1. /\ StoreType /\ At[m] \in Node /\ part \in Part
        /\ UNCHANGED <<nodeVars, offset, guess>>
    BY <1>1, <1>5 DEF SendInv, SendType, StartSend, SendFails, KafkaAssumption
  <2>2. /\ \E to \in {"cas", "read"} : Goes(m, "cas", to) \/ Goes(m, "idle", to)
        /\ part = "two" \/ sendPc[m] = "cas"
        /\ StoreType' /\ versions' = versions
    <3>1. CASE StartSend(m)
      BY <2>1, <3>1 DEF StartSend, StoreType, kvVars
    <3>2. CASE SendFails(m)
      <4>1. PICK i \in DOMAIN versions : ServedAt(At[m], i)
        BY <3>2 DEF SendFails, CasFails
      <4>2. StoreType' /\ versions' = versions
        BY <2>1, <4>1, ServedType
      <4> QED
        BY <3>2, <4>2 DEF SendFails, Goes
    <3> QED
      BY <1>5, <3>1, <3>2
  <2>3. SendInv'
    BY <1>1, <2>1, <2>2, SendServed
  <2>4. UNCHANGED Stored
    BY <2>1, <2>2 DEF Stored, Last, nodeVars
  <2> QED
    BY <1>1, <1>2, <1>3, <2>3, <2>4, InvParts DEF Promise!logVars
<1>6. CASE Insert(m)
  <2>1. /\ SendInv' /\ part = "one"
        /\ \A k \in Key : \A e \in logs[k] : e.msg # m /\ e.offset < offset[m]
    BY <1>1, <1>6, InsertKeepsInv
  <2>2. Stored = logs /\ Stored' = logs' /\ KeyOf[m] \in Key
    BY <1>2, <2>1 DEF Stored, KafkaAssumption
  <2>3. logs' = [logs EXCEPT ![KeyOf[m]] = With(logs[KeyOf[m]], offset[m], m)]
    BY <1>6 DEF Insert
  <2>4. Promise!Append(m, offset[m])
    BY <1>2, <2>1, <2>2, <2>3 DEF Promise!Append, With
  <2> QED
    BY <1>1, <1>3, <2>1, <2>4, InvParts
<1>7. CASE SendSucceeds(m)
  <2>1. /\ SendInv' /\ part = "two"
        /\ \A k \in Key : \A e \in Last[k] : e.msg # m
        /\ \A e \in Last[KeyOf[m]] : e.offset < offset[m]
        /\ Last' \in [Key -> SUBSET Entry]
        /\ Last'[KeyOf[m]] = With(Last[KeyOf[m]], offset[m], m)
        /\ \A k \in Key : k # KeyOf[m] => Last'[k] = Last[k]
    BY <1>1, <1>7, SucceedKeepsInv
  <2>2. Stored = Last /\ Stored' = Last' /\ KeyOf[m] \in Key
    BY <1>2, <2>1 DEF Stored, KafkaAssumption
  <2>3. Last \in [Key -> SUBSET Entry]
    BY <1>1, VersionsType DEF SendInv, SendType
  <2>4. Last' = [Last EXCEPT ![KeyOf[m]] = With(Last[KeyOf[m]], offset[m], m)]
    BY <2>1, <2>2, <2>3
  <2>5. Promise!Append(m, offset[m])
    BY <1>2, <2>1, <2>2, <2>4 DEF Promise!Append, With
  <2> QED
    BY <1>1, <1>3, <2>1, <2>5, InvParts
<1>8. CASE SendReads(m)
  <2>1. SendInv' /\ versions' = versions
    BY <1>1, <1>8, ReadsKeepsInv
  <2>2. UNCHANGED Stored
    BY <1>2, <1>8, <2>1 DEF SendReads, Stored, Last, nodeVars
  <2> QED
    BY <1>1, <1>2, <1>3, <2>1, <2>2, InvParts DEF Promise!logVars
<1> QED
  BY <1>4, <1>5, <1>6, <1>7, <1>8 DEF SendStep

(* A step of a commit keeps the invariant and stores nothing.              *)
LEMMA CommitKeepsInv ==
  ASSUME KafkaAssumption, KafkaInv, NEW t \in Commit,
         \/ CommitStep(t)
         \/ \E new \in OffsetMap : CommitOne(t, new) \/ StartCommit(t, new)
  PROVE  KafkaInv' /\ UNCHANGED Promise!logVars
<1>1. SendInv /\ CommitInv /\ part \in Part
  BY InvParts DEF SendInv, SendType
<1>2. UNCHANGED <<nodeVars, kvVars, sendVars, pollVars>>
  BY DEF CommitStep, CommitSucceeds, CommitFails, CommitReads, CommitOne,
         StartCommit
<1>3. CommitInv'
  BY <1>1, StartCommitKeepsInv, CommitStepKeepsInv
<1>4. SendInv'
  <2>1. StoreType' /\ versions' = versions
    BY <1>1, <1>2 DEF SendInv, SendType, StoreType, kvVars
  <2> QED
    BY <1>1, <1>2, <2>1, SendsUntouched
<1>5. UNCHANGED Promise!logVars
  BY <1>2 DEF Promise!logVars, Stored, Last, nodeVars, kvVars, pollVars
<1> QED
  BY <1>3, <1>4, <1>5, InvParts

(* A step of a poll keeps the invariant, and moves its consumer past what  *)
(* it is given or nobody.                                                  *)
LEMMA PollKeepsInv ==
  ASSUME KafkaAssumption, KafkaInv, NEW c \in Consumer, PollStep(c)
  PROVE  /\ KafkaInv'
         /\ \/ UNCHANGED Promise!logVars
            \/ \E next \in [Key -> {0} \cup {o + 1 : o \in Offset}] :
                 Promise!Deliver(c, next)
<1>1. SendInv /\ CommitInv /\ TypeOK
  BY InvParts DEF KafkaInv, StoreInv
<1>2. UNCHANGED <<nodeVars, versions, sendVars, committed, commitVars>>
  <2>1. CASE PollOne(c) \/ FinishPoll(c)
    BY <2>1 DEF PollOne, FinishPoll, kvVars
  <2>2. ASSUME NEW k \in Key, ReadLog(c, k)
        PROVE  UNCHANGED <<nodeVars, versions, sendVars, committed, commitVars>>
    BY <1>1, <2>2, ReadLogType DEF ReadLog
  <2> QED
    BY <2>1, <2>2 DEF PollStep
<1>3. StoreType'
  <2>1. CASE PollOne(c) \/ FinishPoll(c)
    BY <1>1, <2>1 DEF PollOne, FinishPoll, kvVars, SendInv, SendType, StoreType
  <2>2. CASE \E k \in Key : ReadLog(c, k)
    BY <1>1, <2>2, ReadLogType
  <2> QED
    BY <2>1, <2>2 DEF PollStep
<1>4. SendInv'
  BY <1>1, <1>2, <1>3, SendsUntouched
<1>5. ClientType'
  BY <1>1, PollOneDelivers, FinishPollStays, ReadLogType DEF PollStep
<1>6. KafkaInv'
  <2>1. UNCHANGED <<part, committed, commitVars>>
    BY <1>2 DEF nodeVars
  <2>2. CommitInv'
    BY <1>1, <1>5, <2>1, CommitsUntouched DEF CommitInv
  <2> QED
    BY <1>4, <2>2, InvParts
<1>7. CASE PollOne(c)
  BY <1>1, <1>6, <1>7, PollOneDelivers
<1>8. CASE FinishPoll(c)
  BY <1>1, <1>6, <1>8, FinishPollStays DEF Promise!logVars
<1>9. CASE \E k \in Key : ReadLog(c, k)
  <2>1. UNCHANGED Stored
    BY <1>2 DEF Stored, Last, nodeVars
  <2>2. UNCHANGED <<position, received>>
    BY <1>9 DEF ReadLog
  <2> QED
    BY <1>6, <2>1, <2>2 DEF Promise!logVars
<1> QED
  BY <1>7, <1>8, <1>9 DEF PollStep

(* Every step keeps the invariant, and is a step of KafkaLog or none.      *)
LEMMA StepKeepsInv ==
  ASSUME KafkaAssumption, KafkaInv, [Next]_vars
  PROVE  KafkaInv' /\ [Promise!Next]_Promise!logVars
<1>1. ASSUME NEW m \in Send, Allot(m) \/ StartSend(m) \/ SendStep(m)
      PROVE  KafkaInv' /\ [Promise!Next]_Promise!logVars
  BY <1>1, SendKeepsInv DEF Promise!Next
<1>2. ASSUME NEW t \in Commit,
             \/ CommitStep(t)
             \/ \E new \in OffsetMap : CommitOne(t, new) \/ StartCommit(t, new)
      PROVE  KafkaInv' /\ [Promise!Next]_Promise!logVars
  BY <1>2, CommitKeepsInv
<1>3. ASSUME NEW c \in Consumer, PollStep(c)
      PROVE  KafkaInv' /\ [Promise!Next]_Promise!logVars
  BY <1>3, PollKeepsInv DEF Promise!Next
<1>4. CASE UNCHANGED vars
  <2>1. UNCHANGED <<nodeVars, kvVars, committed, sendVars, commitVars, pollVars>>
    BY <1>4 DEF vars
  <2>2. SendInv /\ CommitInv
    BY InvParts
  <2>3. SendInv'
    <3>1. StoreType' /\ versions' = versions
      BY <2>1, <2>2 DEF SendInv, SendType, StoreType, kvVars
    <3> QED
      BY <2>1, <2>2, <3>1, SendsUntouched
  <2>4. CommitInv'
    <3>1. ClientType'
      BY <2>1, <2>2 DEF CommitInv, ClientType, commitVars, pollVars
    <3>2. UNCHANGED <<part, committed, commitVars>>
      BY <2>1 DEF nodeVars
    <3> QED
      BY <2>2, <3>1, <3>2, CommitsUntouched DEF CommitInv
  <2>5. UNCHANGED Promise!logVars
    BY <2>1 DEF Promise!logVars, Stored, Last, nodeVars, kvVars, pollVars
  <2> QED
    BY <2>3, <2>4, <2>5, InvParts
<1> QED
  BY <1>1, <1>2, <1>3, <1>4 DEF Next

(* The invariant holds in every reachable state.                           *)
THEOREM KafkaInvCorrect == Spec => []KafkaInv
<1>1. Init => KafkaInv
  BY KafkaAssumption, KafkaInit
<1>2. KafkaInv /\ [Next]_vars => KafkaInv'
  BY KafkaAssumption, StepKeepsInv
<1> QED
  BY <1>1, <1>2, PTL DEF Spec

(* Every state has the types of the program's.                             *)
THEOREM TypeCorrect == Spec => []TypeOK
<1>1. KafkaInv => TypeOK
  BY DEF KafkaInv, StoreInv
<1> QED
  BY <1>1, KafkaInvCorrect, PTL

(* An acknowledged commit of part 2 holds, however commits race            *)
(* (part2/src/handlers.cpp:118-126).                                       *)
THEOREM CommitsHoldCorrect == Spec => []CommitsHold
<1>1. KafkaInv => CommitsHold
  BY DEF KafkaInv
<1> QED
  BY <1>1, KafkaInvCorrect, PTL

(* Both parts implement KafkaLog (part1/src/handlers.cpp:19-24, 51-58;     *)
(* part2/src/handlers.cpp:43-51, 89-95).                                   *)
THEOREM ImplementsLogCorrect == Spec => ImplementsLog
<1>1. Init => Promise!Init
  <2>1. Init => Stored = [k \in Key |-> {}]
    BY KafkaAssumption, KafkaInit
  <2> QED
    BY <2>1 DEF Init, Promise!Init
<1>2. KafkaInv /\ [Next]_vars => [Promise!Next]_Promise!logVars
  BY KafkaAssumption, StepKeepsInv
<1> QED
  BY <1>1, <1>2, KafkaInvCorrect, PTL DEF Spec, ImplementsLog, Promise!Spec

-----------------------------------------------------------------------------
(* What the log promises holds because of what KafkaLog says of it, with   *)
(* nothing but that: the offsets are numbers, and each message has a key.  *)

(* What a message is appended to keeps its other logs, and the new entry   *)
(* is behind all that its log has.                                         *)
LEMMA AppendKeepsInv ==
  ASSUME Promise!KafkaLogAssumption, Promise!LogInv,
         NEW m \in Send, NEW o \in Offset, Promise!Append(m, o)
  PROVE  Promise!LogInv'
<1> DEFINE new == [offset |-> o, msg |-> m]
<1> USE DEF Promise!LogInv
<1>1. KeyOf[m] \in Key /\ o \in Nat /\ new \in Promise!Entry
  BY DEF Promise!KafkaLogAssumption, Promise!Entry
<1>2. /\ Stored' \in [Key -> SUBSET Promise!Entry]
      /\ Stored'[KeyOf[m]] = Stored[KeyOf[m]] \cup {new}
      /\ \A k \in Key : k # KeyOf[m] => Stored'[k] = Stored[k]
      /\ UNCHANGED <<position, received>>
  BY <1>1 DEF Promise!Append, Promise!TypeOK
<1>3. \A k \in Key : \A e \in Stored'[k] :
        e \in Stored[k] \/ (k = KeyOf[m] /\ e = new)
  BY <1>2
<1>4. \A e \in Stored[KeyOf[m]] : e.offset \in Nat /\ e.offset < o
  <2>1. Stored[KeyOf[m]] \subseteq Promise!Entry
    BY <1>1 DEF Promise!TypeOK
  <2>2. \A e \in Promise!Entry : e.offset \in Nat
    BY DEF Promise!Entry, Promise!KafkaLogAssumption
  <2> QED
    BY <2>1, <2>2 DEF Promise!Append
<1> HIDE DEF new
<1>5. Promise!TypeOK'
  BY <1>2 DEF Promise!TypeOK
<1>6. Promise!StandsBehindMessage'
  BY <1>2 DEF Promise!StandsBehindMessage
<1>7. Promise!NothingMissed'
  <2> SUFFICES ASSUME NEW c \in Consumer, NEW k \in Key, NEW e \in Stored'[k],
                      e.offset < position[c][k]
               PROVE  e.msg \in received[c]
    BY <1>2 DEF Promise!NothingMissed
  <2>1. CASE e \in Stored[k]
    BY <2>1 DEF Promise!NothingMissed
  <2>2. CASE k = KeyOf[m] /\ e = new
    <3>1. e.offset = o
      BY <2>2 DEF new
    <3>2. position[c][k] = 0
            \/ \E x \in Stored[k] : position[c][k] = x.offset + 1
      BY DEF Promise!StandsBehindMessage
    <3> QED
      BY <1>1, <1>4, <2>2, <3>1, <3>2
  <2> QED
    BY <1>3, <2>1, <2>2
<1>8. Promise!OffsetsUnique'
  <2>1. new.offset = o
    BY DEF new
  <2> QED
    BY <1>1, <1>3, <1>4, <2>1 DEF Promise!OffsetsUnique
<1> QED
  BY <1>5, <1>6, <1>7, <1>8

(* A consumer that moves is given all that it moves past.                  *)
LEMMA DeliverKeepsInv ==
  ASSUME Promise!KafkaLogAssumption, Promise!LogInv, NEW c \in Consumer,
         NEW next \in [Key -> {0} \cup {o + 1 : o \in Offset}],
         Promise!Deliver(c, next)
  PROVE  Promise!LogInv'
<1> DEFINE given == UNION {{e.msg : e \in {x \in Stored[k] :
                                            /\ x.offset >= position[c][k]
                                            /\ x.offset < next[k]}}
                           : k \in Key}
<1> USE DEF Promise!LogInv
<1>1. next \in [Key -> Nat]
  BY DEF Promise!KafkaLogAssumption
<1>2. given \subseteq Send
  BY DEF Promise!TypeOK, Promise!Entry
<1>3. /\ Stored' = Stored
      /\ position' \in [Consumer -> [Key -> Nat]]
      /\ received' \in [Consumer -> SUBSET Send]
      /\ position'[c] = next
      /\ received'[c] = received[c] \cup given
      /\ \A d \in Consumer : d # c => /\ position'[d] = position[d]
                                      /\ received'[d] = received[d]
  BY <1>1, <1>2 DEF Promise!Deliver, Promise!TypeOK
<1>4. \A k \in Key : \A e \in Stored[k] :
        e.offset >= position[c][k] /\ e.offset < next[k] => e.msg \in given
  OBVIOUS
<1>5. \A k \in Key : next[k] = position[c][k]
                       \/ \E e \in Stored[k] : next[k] = e.offset + 1
  BY DEF Promise!Deliver
<1> HIDE DEF given
<1>6. Promise!TypeOK'
  BY <1>3 DEF Promise!TypeOK
<1>7. Promise!StandsBehindMessage'
  <2> SUFFICES ASSUME NEW d \in Consumer, NEW k \in Key
               PROVE  position'[d][k] = 0
                        \/ \E e \in Stored[k] : position'[d][k] = e.offset + 1
    BY <1>3 DEF Promise!StandsBehindMessage
  <2> QED
    BY <1>3, <1>5 DEF Promise!StandsBehindMessage
<1>8. Promise!NothingMissed'
  <2> SUFFICES ASSUME NEW d \in Consumer, NEW k \in Key, NEW e \in Stored[k],
                      e.offset < position'[d][k]
               PROVE  e.msg \in received'[d]
    BY <1>3 DEF Promise!NothingMissed
  <2>1. CASE d # c
    BY <1>3, <2>1 DEF Promise!NothingMissed
  <2>2. CASE d = c
    <3>1. e.offset \in Nat /\ position[c][k] \in Nat
      <4>1. Stored[k] \subseteq Promise!Entry /\ position[c][k] \in Nat
        BY DEF Promise!TypeOK
      <4> QED
        BY <4>1 DEF Promise!Entry, Promise!KafkaLogAssumption
    <3>2. CASE e.offset < position[c][k]
      BY <1>3, <2>2, <3>2 DEF Promise!NothingMissed
    <3>3. CASE e.offset >= position[c][k]
      BY <1>3, <1>4, <2>2, <3>3
    <3> QED
      BY <3>1, <3>2, <3>3
  <2> QED
    BY <2>1, <2>2
<1>9. Promise!OffsetsUnique'
  BY <1>3 DEF Promise!OffsetsUnique
<1> QED
  BY <1>6, <1>7, <1>8, <1>9

(* The parts of Promise!LogInv hold in every reachable state.                      *)
THEOREM LogInvCorrect == ASSUME Promise!KafkaLogAssumption PROVE Promise!Spec => []Promise!LogInv
<1>1. Promise!Init => Promise!LogInv
  BY DEF Promise!Init, Promise!LogInv, Promise!TypeOK, Promise!StandsBehindMessage, Promise!NothingMissed, Promise!OffsetsUnique
<1>2. Promise!LogInv /\ [Promise!Next]_(Promise!logVars) => Promise!LogInv'
  <2> SUFFICES ASSUME Promise!LogInv, [Promise!Next]_(Promise!logVars) PROVE Promise!LogInv'
    OBVIOUS
  <2>1. CASE Promise!Next
    BY <2>1, Promise!KafkaLogAssumption, AppendKeepsInv, DeliverKeepsInv DEF Promise!Next
  <2>2. CASE UNCHANGED Promise!logVars
    BY <2>2 DEF Promise!logVars, Promise!LogInv, Promise!TypeOK, Promise!StandsBehindMessage, Promise!NothingMissed,
                Promise!OffsetsUnique
  <2> QED
    BY <2>1, <2>2
<1> QED
  BY <1>1, <1>2, PTL DEF Promise!Spec

(* So it holds of both parts: a consumer was given all it has moved past,  *)
(* and no offset is given twice (part1/src/handlers.cpp:19-24, 51-58;      *)
(* part2/src/handlers.cpp:43-51).                                          *)
THEOREM MissNothingCorrect ==
  Spec => [](Promise!NothingMissed /\ Promise!OffsetsUnique)
<1>1. Promise!KafkaLogAssumption
  BY KafkaAssumption, EntryFacts DEF Promise!KafkaLogAssumption, KafkaAssumption
<1>2. Promise!Spec => []Promise!LogInv
  BY <1>1, LogInvCorrect
<1>3. Promise!LogInv => Promise!NothingMissed /\ Promise!OffsetsUnique
  BY DEF Promise!LogInv
<1> QED
  BY <1>2, <1>3, ImplementsLogCorrect, PTL DEF ImplementsLog
=============================================================================
