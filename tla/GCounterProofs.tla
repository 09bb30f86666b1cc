--------------------------- MODULE GCounterProofs ---------------------------
(***************************************************************************)
(* Theorems about GCounter, for every finite set of nodes and adds.        *)
(*                                                                         *)
(* The first part is about sums over finite sets.  SumFunctionOnSet is a   *)
(* recursive function, so that it has its recursion as an equation is      *)
(* proved here; induction over a set is by its least counterexample.       *)
(***************************************************************************)
EXTENDS GCounter, FiniteSetTheorems, TLAPS

(* Induction over the subsets of a finite set, as a fact about sets.       *)
LEMMA SubsetInduction ==
  ASSUME NEW S, IsFiniteSet(S), NEW Good,
         \A T \in SUBSET S :
           (\A U \in SUBSET T : U # T => U \in Good) => T \in Good
  PROVE  \A T \in SUBSET S : T \in Good
<1> DEFINE Bad == {T \in SUBSET S : T \notin Good}
<1> SUFFICES ASSUME Bad # {}
             PROVE  FALSE
  OBVIOUS
<1>1. IsWellFoundedOn(StrictSubsetOrdering(S), SUBSET S)
  <2>1. FiniteSubsetsOf(S) = SUBSET S
    BY FS_FiniteSubsetsOfFinite
  <2>2. IsWellFoundedOn(StrictSubsetOrdering(S), FiniteSubsetsOf(S))
    BY FS_StrictSubsetOrderingWellFounded
  <2> QED
    BY <2>1, <2>2
<1>2. Bad \subseteq SUBSET S
  OBVIOUS
<1> HIDE DEF Bad
<1>3. PICK T \in Bad : \A U \in Bad : <<U, T>> \notin StrictSubsetOrdering(S)
  BY <1>1, <1>2, WFMin
<1> USE DEF Bad
<1>4. \A U \in SUBSET T : U # T => U \in Good
  <2> SUFFICES ASSUME NEW U \in SUBSET T, U # T, U \notin Good
               PROVE  FALSE
    OBVIOUS
  <2>1. U \in Bad
    OBVIOUS
  <2>2. <<U, T>> \in StrictSubsetOrdering(S)
    BY DEF StrictSubsetOrdering
  <2> QED
    BY <1>3, <2>1, <2>2
<1> QED
  BY <1>4

(* What SumFunctionOnSet takes out of a set first, and how it goes on.    *)
Pick(s) == CHOOSE x \in s : TRUE

SumStep(f, g, s) == IF s = {} THEN 0 ELSE f[Pick(s)] + g[s \ {Pick(s)}]

Sums(f, g, S) == g = [s \in SUBSET S |-> SumStep(f, g, s)]

(* There is at most one table of the sums over the subsets of a set.       *)
LEMMA SumsUnique ==
  ASSUME NEW f, NEW g, NEW h, NEW S, NEW T, IsFiniteSet(S), IsFiniteSet(T),
         Sums(f, g, S), Sums(f, h, T)
  PROVE  \A s \in SUBSET (S \cap T) : g[s] = h[s]
<1> DEFINE Good == {s \in SUBSET (S \cap T) : g[s] = h[s]}
<1>1. IsFiniteSet(S \cap T)
  BY FS_Intersection
<1>2. ASSUME NEW s \in SUBSET (S \cap T),
             \A u \in SUBSET s : u # s => u \in Good
      PROVE  s \in Good
  <2>1. s \in SUBSET S /\ s \in SUBSET T
    OBVIOUS
  <2>2. g[s] = SumStep(f, g, s) /\ h[s] = SumStep(f, h, s)
    BY <2>1 DEF Sums
  <2>3. CASE s = {}
    BY <2>2, <2>3 DEF SumStep
  <2>4. CASE s # {}
    <3>1. Pick(s) \in s
      BY <2>4 DEF Pick
    <3>2. s \ {Pick(s)} \in Good
      BY <1>2, <3>1
    <3> QED
      BY <2>2, <2>4, <3>2 DEF SumStep
  <2> QED
    BY <2>3, <2>4
<1>3. \A s \in SUBSET (S \cap T) : s \in Good
  <2> HIDE DEF Good
  <2> QED
    BY <1>1, <1>2, SubsetInduction
<1> QED
  BY <1>3

(* There is one.                                                           *)
LEMMA SumsExist ==
  ASSUME NEW f, NEW S, IsFiniteSet(S)
  PROVE  \E g : Sums(f, g, S)
<1> DEFINE Good == {T \in SUBSET S : \E g : Sums(f, g, T)}
<1>1. ASSUME NEW T \in SUBSET S, \A U \in SUBSET T : U # T => U \in Good
      PROVE  T \in Good
  <2> DEFINE Table(u) == CHOOSE h : Sums(f, h, u)
             g == [u \in SUBSET T |-> Table(u)[u]]
             k == [s \in SUBSET T |-> SumStep(f, g, s)]
  <2>1. \A u \in SUBSET T : u # T => Sums(f, Table(u), u)
    BY <1>1
  <2>2. ASSUME NEW u \in SUBSET T, u # T
        PROVE  g[u] = SumStep(f, g, u)
    <3>1. Sums(f, Table(u), u)
      BY <2>1, <2>2
    <3>2. Table(u)[u] = SumStep(f, Table(u), u)
      BY <3>1 DEF Sums
    <3>3. CASE u = {}
      BY <3>2, <3>3 DEF SumStep
    <3>4. CASE u # {}
      <4> DEFINE w == u \ {Pick(u)}
      <4>1. w \in SUBSET u /\ w \in SUBSET T /\ w # T
        BY <2>2, <3>4
      <4>2. Sums(f, Table(w), w)
        BY <2>1, <4>1
      <4>3. IsFiniteSet(u) /\ IsFiniteSet(w)
        BY <4>1, FS_Subset
      <4>4. w \in SUBSET (w \cap u)
        OBVIOUS
      <4> HIDE DEF Table
      <4>5. Table(w)[w] = Table(u)[w]
        <5> HIDE DEF w
        <5> QED
        BY <3>1, <4>2, <4>3, <4>4, SumsUnique
      <4>6. g[u] = Table(u)[u] /\ g[w] = Table(w)[w]
        BY <4>1
      <4> QED
        BY <3>2, <3>4, <4>5, <4>6 DEF SumStep
    <3> QED
      BY <3>3, <3>4
  <2> HIDE DEF g
  <2>3. \A u \in SUBSET T : u # T => k[u] = g[u]
    BY <2>2
  <2>4. \A s \in SUBSET T : SumStep(f, g, s) = SumStep(f, k, s)
    <3> SUFFICES ASSUME NEW s \in SUBSET T, s # {}
                 PROVE  g[s \ {Pick(s)}] = k[s \ {Pick(s)}]
      BY DEF SumStep
    <3>1. Pick(s) \in s
      BY DEF Pick
    <3>2. s \ {Pick(s)} \in SUBSET T /\ s \ {Pick(s)} # T
      BY <3>1
    <3> QED
      BY <2>3, <3>2
  <2>5. Sums(f, k, T)
    BY <2>4 DEF Sums
  <2> QED
    BY <2>5
<1>2. \A T \in SUBSET S : T \in Good
  <2> HIDE DEF Good
  <2> QED
    BY <1>1, SubsetInduction
<1> QED
  BY <1>2

(* SumFunctionOnSet(f, S) is the last entry of the table.                  *)
LEMMA SumIsSums ==
  ASSUME NEW f, NEW S, IsFiniteSet(S)
  PROVE  \E g : Sums(f, g, S) /\ SumFunctionOnSet(f, S) = g[S]
<1> DEFINE g == CHOOSE h : Sums(f, h, S)
<1>1. SumFunctionOnSet(f, S) = g[S]
  BY DEF SumFunctionOnSet, FoldFunctionOnSet, MapThenFoldSet, Sums, SumStep, Pick
<1>2. Sums(f, g, S)
  BY SumsExist
<1> QED
  BY <1>1, <1>2

(* So its recursion may be used as an equation.                            *)
LEMMA SumPicks ==
  ASSUME NEW f, NEW S, IsFiniteSet(S)
  PROVE  /\ SumFunctionOnSet(f, {}) = 0
         /\ S # {} => /\ Pick(S) \in S
                      /\ SumFunctionOnSet(f, S) = f[Pick(S)] +
                                SumFunctionOnSet(f, S \ {Pick(S)})
<1>1. SumFunctionOnSet(f, {}) = 0
  <2>1. PICK g : Sums(f, g, {}) /\ SumFunctionOnSet(f, {}) = g[{}]
    BY FS_EmptySet, SumIsSums
  <2>2. {} \in SUBSET {}
    OBVIOUS
  <2>3. g[{}] = SumStep(f, g, {})
    BY <2>1, <2>2 DEF Sums
  <2> QED
    BY <2>1, <2>3 DEF SumStep
<1>2. ASSUME S # {}
      PROVE  /\ Pick(S) \in S
             /\ SumFunctionOnSet(f, S) = f[Pick(S)] +
                       SumFunctionOnSet(f, S \ {Pick(S)})
  <2> DEFINE w == S \ {Pick(S)}
  <2>1. Pick(S) \in S
    BY <1>2 DEF Pick
  <2>2. IsFiniteSet(w)
    BY FS_Subset
  <2>3. PICK g : Sums(f, g, S) /\ SumFunctionOnSet(f, S) = g[S]
    BY SumIsSums
  <2>4. PICK h : Sums(f, h, w) /\ SumFunctionOnSet(f, w) = h[w]
    BY <2>2, SumIsSums
  <2>5. w \in SUBSET (S \cap w)
    OBVIOUS
  <2>6. g[w] = h[w]
    <3> HIDE DEF w
    <3> QED
      BY <2>2, <2>3, <2>4, <2>5, SumsUnique
  <2>7. S \in SUBSET S
    OBVIOUS
  <2>8. g[S] = SumStep(f, g, S)
    BY <2>3, <2>7 DEF Sums
  <2> QED
    BY <1>2, <2>1, <2>3, <2>4, <2>6, <2>8 DEF SumStep
<1> QED
  BY <1>1, <1>2

(* The sum of natural numbers is one.                                      *)
LEMMA SumNat ==
  ASSUME NEW S, IsFiniteSet(S), NEW f, \A x \in S : f[x] \in Nat
  PROVE  SumFunctionOnSet(f, S) \in Nat
<1> DEFINE Good == {T \in SUBSET S : SumFunctionOnSet(f, T) \in Nat}
<1>1. ASSUME NEW T \in SUBSET S, \A U \in SUBSET T : U # T => U \in Good
      PROVE  T \in Good
  <2>1. IsFiniteSet(T)
    BY FS_Subset
  <2>2. CASE T = {}
    <3>1. SumFunctionOnSet(f, {}) = 0
      BY <2>1, SumPicks
    <3> QED
      BY <2>2, <3>1
  <2>3. CASE T # {}
    <3>1. Pick(T) \in T /\ SumFunctionOnSet(f, T) = f[Pick(T)] + SumFunctionOnSet(f, T \ {Pick(T)})
      BY <2>1, <2>3, SumPicks
    <3>2. T \ {Pick(T)} \in Good
      BY <1>1, <3>1
    <3> QED
      BY <3>1, <3>2
  <2> QED
    BY <2>2, <2>3
<1>2. \A T \in SUBSET S : T \in Good
  <2> HIDE DEF Good
  <2> QED
    BY <1>1, SubsetInduction
<1> QED
  BY <1>2

(* Any element may be taken out of a sum: the order does not matter.       *)
LEMMA SumRemoves ==
  ASSUME NEW S, IsFiniteSet(S), NEW f, \A x \in S : f[x] \in Nat,
         NEW x \in S
  PROVE  SumFunctionOnSet(f, S) = f[x] + SumFunctionOnSet(f, S \ {x})
<1> DEFINE Sum(T) == SumFunctionOnSet(f, T)
           Good == {T \in SUBSET S :
                      \A y \in T : Sum(T) = f[y] + Sum(T \ {y})}
<1>1. ASSUME NEW T \in SUBSET S, \A U \in SUBSET T : U # T => U \in Good
      PROVE  T \in Good
  <2> SUFFICES ASSUME NEW y \in T
               PROVE  Sum(T) = f[y] + Sum(T \ {y})
    OBVIOUS
  <2> DEFINE p == Pick(T)
  <2>1. IsFiniteSet(T)
    BY FS_Subset
  <2>2. p \in T /\ Sum(T) = f[p] + Sum(T \ {p})
    BY <2>1, SumPicks
  <2>3. ASSUME p # y
        PROVE  Sum(T) = f[y] + Sum(T \ {y})
    <3>1. T \ {p} \in Good /\ T \ {y} \in Good
      BY <1>1, <2>2
    <3>2. Sum(T \ {p}) = f[y] + Sum((T \ {p}) \ {y})
      BY <2>3, <3>1
    <3>3. Sum(T \ {y}) = f[p] + Sum((T \ {y}) \ {p})
      BY <2>2, <2>3, <3>1
    <3>4. (T \ {p}) \ {y} = (T \ {y}) \ {p}
      OBVIOUS
    <3>5. f[p] \in Nat /\ f[y] \in Nat
      BY <2>2
    <3>6. Sum((T \ {y}) \ {p}) \in Nat
      <4>1. /\ IsFiniteSet((T \ {y}) \ {p})
            /\ \A z \in (T \ {y}) \ {p} : f[z] \in Nat
        BY <2>1, FS_Subset
      <4> QED
        BY <4>1, SumNat
    <3> HIDE DEF Sum, p
    <3> QED
      BY <2>2, <3>2, <3>3, <3>4, <3>5, <3>6
  <2> QED
    BY <2>2, <2>3
<1>2. \A T \in SUBSET S : T \in Good
  <2> HIDE DEF Good
  <2> QED
    BY <1>1, SubsetInduction
<1> QED
  BY <1>2

(* A sum is at least each of its terms.                                    *)
LEMMA SumAtLeast ==
  ASSUME NEW S, IsFiniteSet(S), NEW f, \A x \in S : f[x] \in Nat,
         NEW x \in S
  PROVE  f[x] <= SumFunctionOnSet(f, S)
<1>1. SumFunctionOnSet(f, S) = f[x] + SumFunctionOnSet(f, S \ {x})
  BY SumRemoves
<1>2. IsFiniteSet(S \ {x})
  BY FS_Subset
<1>3. SumFunctionOnSet(f, S \ {x}) \in Nat
  BY <1>2, SumNat
<1> QED
  BY <1>1, <1>3

(* Greater terms make a greater sum.                                       *)
LEMMA SumMonotone ==
  ASSUME NEW S, IsFiniteSet(S), NEW f, NEW g,
         \A x \in S : f[x] \in Nat /\ g[x] \in Nat /\ f[x] <= g[x]
  PROVE  SumFunctionOnSet(f, S) <= SumFunctionOnSet(g, S)
<1> DEFINE Good == {T \in SUBSET S :
                      SumFunctionOnSet(f, T) <= SumFunctionOnSet(g, T)}
<1>1. ASSUME NEW T \in SUBSET S, \A U \in SUBSET T : U # T => U \in Good
      PROVE  T \in Good
  <2> DEFINE w == T \ {Pick(T)}
  <2>1. IsFiniteSet(T) /\ IsFiniteSet(w)
    BY FS_Subset
  <2>2. CASE T = {}
    <3>1. SumFunctionOnSet(f, {}) = 0 /\ SumFunctionOnSet(g, {}) = 0
      BY <2>1, SumPicks
    <3> QED
      BY <2>2, <3>1
  <2>3. CASE T # {}
    <3>1. /\ Pick(T) \in T
          /\ SumFunctionOnSet(f, T) = f[Pick(T)] + SumFunctionOnSet(f, w)
          /\ SumFunctionOnSet(g, T) = g[Pick(T)] + SumFunctionOnSet(g, w)
      BY <2>1, <2>3, SumPicks
    <3>2. w \in Good
      BY <1>1, <3>1
    <3>3. SumFunctionOnSet(f, w) \in Nat /\ SumFunctionOnSet(g, w) \in Nat
      BY <2>1, SumNat
    <3> QED
      BY <3>1, <3>2, <3>3
  <2> QED
    BY <2>2, <2>3
<1>2. \A T \in SUBSET S : T \in Good
  <2> HIDE DEF Good
  <2> QED
    BY <1>1, SubsetInduction
<1> QED
  BY <1>2

-----------------------------------------------------------------------------
(* The operators of GCounter.                                              *)

(* What a cell counts as is a number.                                      *)
LEMMA CountedNat == \A c \in Cell : Counted(c) \in Nat
BY DEF Cell, Counted

(* The acknowledged adds of a node are a finite set of known deltas.       *)
LEMMA AckedNat ==
  ASSUME GCounterAssumption, NEW n
  PROVE  AckedAt(n) \in Nat
<1> DEFINE S == {a \in Add : At[a] = n /\ addPc[a] = "done"}
<1>1. IsFiniteSet(S)
  BY FS_Subset DEF GCounterAssumption
<1>2. \A a \in S : Delta[a] \in Nat
  BY DEF GCounterAssumption
<1> HIDE DEF S
<1>3. SumFunctionOnSet(Delta, S) \in Nat
  BY <1>1, <1>2, SumNat
<1> QED
  BY <1>3 DEF AckedAt, S

(* The same of the next state.                                             *)
LEMMA AckedNatNext ==
  ASSUME GCounterAssumption, NEW n
  PROVE  AckedAt(n)' \in Nat
<1> DEFINE S == {a \in Add : At[a] = n /\ addPc'[a] = "done"}
<1>1. IsFiniteSet(S)
  BY FS_Subset DEF GCounterAssumption
<1>2. \A a \in S : Delta[a] \in Nat
  BY DEF GCounterAssumption
<1> HIDE DEF S
<1>3. SumFunctionOnSet(Delta, S) \in Nat
  BY <1>1, <1>2, SumNat
<1> QED
  BY <1>3 DEF AckedAt, S

(* The total of the cells is at least what any of them counts.             *)
LEMMA TotalAtLeast ==
  ASSUME GCounterAssumption, NEW cells \in [Node -> Cell]
  PROVE  /\ Total(cells) \in Nat
         /\ \A n \in Node : Counted(cells[n]) <= Total(cells)
<1> DEFINE f == [k \in DOMAIN cells |-> Counted(cells[k])]
<1>1. DOMAIN f = Node /\ \A k \in Node : f[k] = Counted(cells[k])
  OBVIOUS
<1>2. Total(cells) = SumFunctionOnSet(f, Node)
  BY <1>1 DEF Total, SumFunction
<1>3. \A k \in Node : f[k] \in Nat
  BY <1>1, CountedNat
<1>4. IsFiniteSet(Node)
  BY DEF GCounterAssumption
<1> HIDE DEF f
<1> QED
  BY <1>1, <1>2, <1>3, <1>4, SumNat, SumAtLeast

(* If no cell shrinks, the total does not.                                 *)
LEMMA TotalMonotone ==
  ASSUME GCounterAssumption,
         NEW cells \in [Node -> Cell], NEW later \in [Node -> Cell],
         \A k \in Node : Counted(cells[k]) <= Counted(later[k])
  PROVE  Total(cells) <= Total(later)
<1> DEFINE f == [k \in DOMAIN cells |-> Counted(cells[k])]
           g == [k \in DOMAIN later |-> Counted(later[k])]
<1>1. /\ DOMAIN f = Node /\ \A k \in Node : f[k] = Counted(cells[k])
      /\ DOMAIN g = Node /\ \A k \in Node : g[k] = Counted(later[k])
  OBVIOUS
<1>2. /\ Total(cells) = SumFunctionOnSet(f, Node)
      /\ Total(later) = SumFunctionOnSet(g, Node)
  BY <1>1 DEF Total, SumFunction
<1>3. \A k \in Node : f[k] \in Nat /\ g[k] \in Nat /\ f[k] <= g[k]
  BY <1>1, CountedNat
<1>4. IsFiniteSet(Node)
  BY DEF GCounterAssumption
<1> HIDE DEF f, g
<1> QED
  BY <1>2, <1>3, <1>4, SumMonotone

-----------------------------------------------------------------------------
(* What every step does to the store: cells only grow, in its versions, in *)
(* the last of them and in what a node has seen.                           *)

(* From one state to the next, for all nodes and cells.                    *)
StoreGrows ==
  /\ KvTypeOK(Nat)' /\ CellsGrow'
  /\ \A k \in Node : Counted(Last[k]) <= Counted(Last'[k])
  /\ \A n, k \in Node :
       /\ Counted(versions[seen[n]][k]) <= Counted(versions'[seen'[n]][k])
       /\ versions[seen[n]][k] # Missing => versions'[seen'[n]][k] # Missing

(* The versions are non-empty and every node has seen one of them.         *)
LEMMA VersionsType ==
  ASSUME KvTypeOK(Nat)
  PROVE  /\ Len(versions) \in Nat \ {0}
         /\ DOMAIN versions = 1 .. Len(versions)
         /\ \A i \in DOMAIN versions : versions[i] \in [Node -> Cell]
         /\ Last \in [Node -> Cell]
         /\ \A n \in Node : seen[n] \in 1 .. Len(versions)
<1>1. versions \in Seq([Node -> Cell]) /\ versions # <<>>
  BY DEF KvTypeOK, Cell
<1>2. /\ Len(versions) \in Nat \ {0}
      /\ DOMAIN versions = 1 .. Len(versions)
      /\ \A i \in DOMAIN versions : versions[i] \in [Node -> Cell]
  BY <1>1
<1>3. Last \in [Node -> Cell]
  BY <1>2 DEF Last
<1>4. seen \in [Node -> DOMAIN versions]
  BY DEF KvTypeOK
<1> QED
  BY <1>2, <1>3, <1>4

(* A later version counts at least as much.                                *)
LEMMA LaterCountsMore ==
  ASSUME GCounterAssumption, KvTypeOK(Nat), CellsGrow,
         NEW i \in DOMAIN versions, NEW j \in DOMAIN versions, i <= j,
         NEW k \in Node
  PROVE  Counted(versions[i][k]) <= Counted(versions[j][k])
<1>1. versions[i][k] \in Cell /\ versions[j][k] \in Cell
  BY VersionsType
<1>2. versions[i][k] # Missing =>
        versions[j][k] # Missing /\ versions[i][k] <= versions[j][k]
  BY DEF CellsGrow
<1> QED
  BY <1>1, <1>2 DEF Cell, Counted, GCounterAssumption

(* A step that leaves the store alone.                                     *)
LEMMA UnchangedGrows ==
  ASSUME GCounterAssumption, KvTypeOK(Nat), CellsGrow, UNCHANGED kvVars
  PROVE  StoreGrows
<1>1. KvTypeOK(Nat)' /\ CellsGrow'
  BY DEF KvTypeOK, CellsGrow, kvVars
<1>2. \A k \in Node : Counted(Last[k]) \in Nat
  BY VersionsType, CountedNat
<1>3. \A n, k \in Node : Counted(versions[seen[n]][k]) \in Nat
  BY VersionsType, CountedNat
<1> QED
  BY <1>1, <1>2, <1>3 DEF StoreGrows, kvVars, Last

(* A request that changes nothing is served at an older version.           *)
LEMMA ServedGrows ==
  ASSUME GCounterAssumption, KvTypeOK(Nat), CellsGrow,
         NEW n \in Node, NEW i, ServedAt(n, i)
  PROVE  StoreGrows /\ i \in DOMAIN versions /\ seen[n] <= i
<1>1. /\ i \in 1 .. Len(versions) /\ seen[n] <= i
      /\ versions' = versions
      /\ seen' = [seen EXCEPT ![n] = i]
  BY VersionsType DEF ServedAt
<1>2. seen \in [Node -> DOMAIN versions] /\ i \in DOMAIN versions
  BY <1>1, VersionsType DEF KvTypeOK
<1>3. seen' \in [Node -> DOMAIN versions]
  BY <1>1, <1>2
<1>4. KvTypeOK(Nat)' /\ CellsGrow'
  BY <1>1, <1>3 DEF KvTypeOK, CellsGrow
<1>5. \A m \in Node : /\ seen[m] \in DOMAIN versions
                      /\ seen'[m] \in DOMAIN versions
                      /\ seen[m] <= seen'[m]
  BY <1>1, <1>2, <1>3, VersionsType
<1>6. \A m, k \in Node :
        /\ Counted(versions[seen[m]][k]) <= Counted(versions'[seen'[m]][k])
        /\ versions[seen[m]][k] # Missing => versions'[seen'[m]][k] # Missing
  BY <1>1, <1>5, LaterCountsMore DEF CellsGrow
<1>7. \A k \in Node : Counted(Last[k]) <= Counted(Last'[k])
  BY <1>1, VersionsType, CountedNat DEF Last
<1> QED
  BY <1>1, <1>2, <1>4, <1>6, <1>7 DEF StoreGrows

(* A swap from what the cell is, or from nothing, adds a version.          *)
LEMMA AppendedGrows ==
  ASSUME GCounterAssumption, KvTypeOK(Nat), CellsGrow,
         NEW n \in Node, NEW key \in Node, NEW from \in Nat, NEW to \in Nat,
         from <= to, CasSucceeds(n, key, from, to)
  PROVE  /\ StoreGrows
         /\ Last[key] \in {Missing, from}
         /\ versions'[seen'[n]][key] = to
         /\ \A m \in Node : m # n =>
              \A k \in Node : versions'[seen'[m]][k] = versions[seen[m]][k]
<1> DEFINE new == [Last EXCEPT ![key] = to]
           N == Len(versions)
<1>1. /\ Last[key] \in {Missing, from}
      /\ versions' = Append(versions, new)
      /\ seen' = [seen EXCEPT ![n] = N + 1]
  BY DEF CasSucceeds
<1>2. Last \in [Node -> Cell] /\ to \in Cell
  BY VersionsType DEF Cell
<1>3. new \in [Node -> Cell] /\ new[key] = to
      /\ \A k \in Node : k # key => new[k] = Last[k]
  BY <1>2
<1>4. versions \in Seq([Node -> Cell]) /\ N \in Nat \ {0}
  BY VersionsType DEF KvTypeOK, Cell
<1> HIDE DEF new
<1>5. /\ versions' \in Seq([Node -> Cell]) /\ versions' # <<>>
      /\ Len(versions') = N + 1
      /\ DOMAIN versions' = 1 .. N + 1
      /\ versions'[N + 1] = new
      /\ \A i \in 1 .. N : versions'[i] = versions[i]
  BY <1>1, <1>3, <1>4
<1>6. seen \in [Node -> 1 .. N]
  BY VersionsType DEF KvTypeOK
<1>7. /\ seen' \in [Node -> 1 .. N + 1]
      /\ seen'[n] = N + 1
      /\ \A m \in Node : m # n => seen'[m] = seen[m]
  BY <1>1, <1>4, <1>6
<1>8. KvTypeOK(Nat)'
  BY <1>5, <1>7 DEF KvTypeOK, Cell
<1>9. Last = versions[N] /\ Last' = new /\ N \in DOMAIN versions
  BY <1>4, <1>5 DEF Last
<1>10. \A k \in Node : Last[k] # Missing =>
                          new[k] # Missing /\ Last[k] <= new[k]
  BY <1>1, <1>2, <1>3 DEF Cell, GCounterAssumption
<1>11. \A k \in Node : Counted(Last[k]) <= Counted(new[k])
  <2>1. \A k \in Node : Last[k] \in Cell /\ new[k] \in Cell
    BY <1>2, <1>3
  <2> QED
    BY <1>10, <2>1 DEF Cell, Counted, GCounterAssumption
<1>12. \A i \in 1 .. N : \A k \in Node :
         versions[i][k] # Missing =>
           new[k] # Missing /\ versions[i][k] <= new[k]
  <2> SUFFICES ASSUME NEW i \in 1 .. N, NEW k \in Node,
                      versions[i][k] # Missing
               PROVE  new[k] # Missing /\ versions[i][k] <= new[k]
    OBVIOUS
  <2>1. i \in DOMAIN versions /\ i <= N
    BY VersionsType
  <2>2. Last[k] # Missing /\ versions[i][k] <= Last[k]
    BY <1>9, <2>1 DEF CellsGrow
  <2>3. versions[i][k] \in Cell /\ Last[k] \in Cell /\ new[k] \in Cell
    BY <1>2, <1>3, <2>1, VersionsType
  <2> QED
    BY <1>10, <2>2, <2>3 DEF Cell
<1>13. CellsGrow'
  <2> SUFFICES ASSUME NEW i \in 1 .. N + 1, NEW j \in 1 .. N + 1, i <= j,
                      NEW k \in Node, versions'[i][k] # Missing
               PROVE  /\ versions'[j][k] # Missing
                      /\ versions'[i][k] <= versions'[j][k]
    BY <1>5 DEF CellsGrow
  <2>1. CASE j \in 1 .. N
    <3>1. i \in 1 .. N /\ versions'[i] = versions[i] /\ versions'[j] = versions[j]
      BY <1>4, <1>5, <2>1
    <3> QED
      BY <2>1, <3>1, VersionsType DEF CellsGrow
  <2>2. CASE j = N + 1 /\ i \in 1 .. N
    BY <1>5, <1>12, <2>2
  <2>3. CASE j = N + 1 /\ i = N + 1
    <3>1. new[k] \in Cell /\ versions'[i] = new /\ versions'[j] = new
      BY <1>3, <1>5, <2>3
    <3> QED
      BY <3>1 DEF Cell
  <2> QED
    BY <1>4, <2>1, <2>2, <2>3
<1>14. \A m \in Node : m # n =>
         \A k \in Node : versions'[seen'[m]][k] = versions[seen[m]][k]
  BY <1>5, <1>6, <1>7
<1>15. \A m, k \in Node :
        /\ Counted(versions[seen[m]][k]) <= Counted(versions'[seen'[m]][k])
        /\ versions[seen[m]][k] # Missing => versions'[seen'[m]][k] # Missing
  <2> SUFFICES ASSUME NEW m \in Node, NEW k \in Node
               PROVE  /\ Counted(versions[seen[m]][k])
                           <= Counted(versions'[seen'[m]][k])
                      /\ versions[seen[m]][k] # Missing =>
                           versions'[seen'[m]][k] # Missing
    OBVIOUS
  <2>1. seen[m] \in 1 .. N /\ versions[seen[m]][k] \in Cell
    BY VersionsType
  <2>2. CASE m # n
    BY <1>14, <2>1, <2>2, CountedNat
  <2>3. CASE m = n
    <3>1. versions'[seen'[m]] = new
      BY <1>5, <1>7, <2>3
    <3>2. versions[seen[m]][k] # Missing =>
            new[k] # Missing /\ versions[seen[m]][k] <= new[k]
      BY <1>12, <2>1
    <3>3. new[k] \in Cell
      BY <1>3
    <3> QED
      BY <2>1, <3>1, <3>2, <3>3 DEF Cell, Counted, GCounterAssumption
  <2> QED
    BY <2>2, <2>3
<1>16. versions'[seen'[n]][key] = to
  BY <1>3, <1>5, <1>7
<1> QED
  BY <1>1, <1>8, <1>9, <1>11, <1>13, <1>14, <1>15, <1>16 DEF StoreGrows

-----------------------------------------------------------------------------
(* What a step leaves alone keeps its part of the invariant.               *)

(* The next store has the types of this one.                               *)
LEMMA LastNextType ==
  ASSUME StoreGrows
  PROVE  Last' \in [Node -> Cell]
<1>1. versions' \in Seq([Node -> Cell]) /\ versions' # <<>>
  BY DEF StoreGrows, KvTypeOK, Cell
<1> QED
  BY <1>1 DEF Last

(* What a node has seen of a cell, before and after a step, is a number.   *)
LEMMA SeenCounts ==
  ASSUME KvTypeOK(Nat), StoreGrows, NEW n \in Node, NEW k \in Node
  PROVE  /\ Counted(versions[seen[n]][k]) \in Nat
         /\ Counted(versions'[seen'[n]][k]) \in Nat
<1>1. versions[seen[n]][k] \in Cell
  BY VersionsType
<1>2. versions'[seen'[n]][k] \in Cell
  <2>1. versions' \in Seq([Node -> Cell]) /\ seen'[n] \in DOMAIN versions'
    BY DEF StoreGrows, KvTypeOK, Cell
  <2> QED
    BY <2>1
<1> QED
  BY <1>1, <1>2, CountedNat

(* The total of the store never shrinks.                                   *)
LEMMA TotalGrows ==
  ASSUME GCounterAssumption, KvTypeOK(Nat), StoreGrows
  PROVE  CurrentTotal \in Nat /\ CurrentTotal' \in Nat
         /\ CurrentTotal <= CurrentTotal'
<1>1. Last \in [Node -> Cell]
  BY VersionsType
<1>2. Last' \in [Node -> Cell]
  <2>1. versions' \in Seq([Node -> Cell]) /\ versions' # <<>>
    BY DEF StoreGrows, KvTypeOK, Cell
  <2> QED
    BY <2>1 DEF Last
<1>3. \A k \in Node : Counted(Last[k]) <= Counted(Last'[k])
  BY DEF StoreGrows
<1>4. CurrentTotal = Total(Last) /\ CurrentTotal' = Total(Last')
  BY DEF CurrentTotal, Total, Counted, SumFunction, SumFunctionOnSet,
         FoldFunctionOnSet, MapThenFoldSet
<1> QED
  BY <1>1, <1>2, <1>3, <1>4, TotalAtLeast, TotalMonotone

(* Reads and caches that are not stepped: more may be acknowledged and     *)
(* stored meanwhile.                                                       *)
LEMMA ReadsUntouched ==
  ASSUME GCounterAssumption, CounterInv, StoreGrows,
         \A n \in Node : AckedAt(n) <= AckedAt(n)',
         UNCHANGED <<readVars, cacheVars>>
  PROVE  ResultsBetween' /\ AllBehind' /\ ReadsOwnAdds'
<1> USE DEF CounterInv, readVars, cacheVars
<1>1. KvTypeOK(Nat)
  BY DEF TypeOK
<1>2. AllBehind'
  <2>1. /\ \A r \in Read : reply[r] \in Nat /\ reply[r] <= CurrentTotal
        /\ \A n \in Node : cacheValue[n] \in Nat /\ cacheValue[n] <= CurrentTotal
    BY DEF AllBehind, TypeOK
  <2>2. /\ CurrentTotal \in Nat /\ CurrentTotal' \in Nat
        /\ CurrentTotal <= CurrentTotal'
    BY <1>1, TotalGrows
  <2> QED
    BY <2>1, <2>2 DEF AllBehind
<1>3. ReadsOwnAdds'
  BY DEF ReadsOwnAdds
<1>4. ResultsBetween'
  <2> SUFFICES ASSUME NEW r \in Read
               PROVE  /\ readPc[r] = "reading" => floor[r] <= AckedAt(At[r])'
                      /\ \A k \in DOMAIN results[r] :
                           Counted(results[r][k]) <= Counted(Last'[k])
    BY DEF ResultsBetween, Counted
  <2>1. readPc[r] = "reading" => floor[r] <= AckedAt(At[r])'
    <3>1. At[r] \in Node
      BY DEF GCounterAssumption
    <3>2. floor[r] \in Nat /\ AckedAt(At[r]) \in Nat
      BY AckedNat DEF TypeOK
    <3>3. AckedAt(At[r]) <= AckedAt(At[r])'
      BY <3>1
    <3>4. AckedAt(At[r])' \in Nat
      BY AckedNatNext
    <3>5. readPc[r] = "reading" => floor[r] <= AckedAt(At[r])
      BY DEF ResultsBetween
    <3> QED
      BY <3>2, <3>3, <3>4, <3>5
  <2>2. ASSUME NEW k \in DOMAIN results[r]
        PROVE  Counted(results[r][k]) <= Counted(Last'[k])
    <3>1. k \in Node /\ results[r][k] \in Cell
      BY DEF TypeOK
    <3>2. Counted(results[r][k]) <= Counted(Last[k])
      BY DEF ResultsBetween
    <3>3. Counted(Last[k]) <= Counted(Last'[k])
      BY <3>1 DEF StoreGrows
    <3>4. /\ Counted(results[r][k]) \in Nat /\ Counted(Last[k]) \in Nat
          /\ Counted(Last'[k]) \in Nat
      BY <1>1, <3>1, VersionsType, CountedNat, LastNextType
    <3> QED
      BY <3>2, <3>3, <3>4
  <2> QED
    BY <2>1, <2>2
<1> QED
  BY <1>2, <1>3, <1>4

(* Adds that are not stepped.                                              *)
LEMMA AddsUntouched ==
  ASSUME GCounterAssumption, CounterInv, StoreGrows, UNCHANGED addVars
  PROVE  /\ OwnAddsSeen' /\ CellFound'
         /\ \A n \in Node : AckedAt(n)' = AckedAt(n)
<1> USE DEF CounterInv, addVars
<1>1. \A n : AckedAt(n)' = AckedAt(n)
  BY DEF AckedAt
<1>2. OwnAddsSeen'
  <2> SUFFICES ASSUME NEW n \in Node
               PROVE  AckedAt(n) <= Counted(versions'[seen'[n]][n])
    BY <1>1 DEF OwnAddsSeen, Counted
  <2>1. AckedAt(n) <= Counted(versions[seen[n]][n])
    BY DEF OwnAddsSeen
  <2>2. Counted(versions[seen[n]][n]) <= Counted(versions'[seen'[n]][n])
    BY DEF StoreGrows
  <2>3. AckedAt(n) \in Nat
    BY AckedNat
  <2>4. /\ Counted(versions[seen[n]][n]) \in Nat
        /\ Counted(versions'[seen'[n]][n]) \in Nat
    BY SeenCounts DEF TypeOK
  <2> QED
    BY <2>1, <2>2, <2>3, <2>4
<1>3. CellFound'
  BY DEF CellFound, StoreGrows, GCounterAssumption
<1> QED
  BY <1>1, <1>2, <1>3

-----------------------------------------------------------------------------
(* The steps.                                                              *)

(* An add acknowledges nothing until its swap succeeds.                    *)
LEMMA NothingAcked ==
  ASSUME TypeOK, NEW a \in Add, NEW to, to # "done", addPc[a] # "done",
         addPc' = [addPc EXCEPT ![a] = to]
  PROVE  \A n : AckedAt(n)' = AckedAt(n)
<1>1. \A b \in Add : addPc'[b] = "done" <=> addPc[b] = "done"
  BY DEF TypeOK
<1> QED
  BY <1>1 DEF AckedAt

(* A step of an add that leaves the acknowledged ones as they are.         *)
LEMMA PendingKeepsInv ==
  ASSUME GCounterAssumption, CounterInv, NEW a \in Add,
         StartAdd(a) \/ AddFails(a) \/ AddReads(a)
  PROVE  CounterInv'
<1> USE DEF CounterInv
<1> DEFINE n == At[a]
<1>1. n \in Node /\ Delta[a] \in Nat /\ KvTypeOK(Nat)
  BY DEF GCounterAssumption, TypeOK
<1>2. StoreGrows /\ UNCHANGED <<readVars, cacheVars>>
  <2>1. CASE StartAdd(a)
    BY <2>1, <1>1, UnchangedGrows DEF StartAdd
  <2>2. CASE AddFails(a)
    BY <2>2, <1>1, ServedGrows DEF AddFails, CasFails
  <2>3. CASE AddReads(a)
    BY <2>3, <1>1, ServedGrows DEF AddReads
  <2> QED
    BY <2>1, <2>2, <2>3
<1>3. PICK to \in {"cas", "read", "thrown"} :
        addPc[a] # "done" /\ addPc' = [addPc EXCEPT ![a] = to]
  BY DEF StartAdd, AddFails, AddReads
<1>4. \A m : AckedAt(m)' = AckedAt(m)
  BY <1>3, NothingAcked
<1>5. CellFound'
  <2>1. ASSUME NEW b \in Add, b # a
        PROVE  /\ addPc'[b] # "thrown"
               /\ addPc'[b] = "read" => versions'[seen'[At[b]]][At[b]] # Missing
    <3>1. At[b] \in Node /\ addPc'[b] = addPc[b]
      BY <1>3, <2>1 DEF GCounterAssumption, TypeOK
    <3> QED
      BY <1>2, <3>1 DEF CellFound, StoreGrows
  <2>2. /\ addPc'[a] # "thrown"
        /\ addPc'[a] = "read" => versions'[seen'[n]][n] # Missing
    <3>1. CASE StartAdd(a)
      BY <3>1 DEF StartAdd, TypeOK
    <3>2. CASE AddFails(a)
      <4>1. PICK i \in DOMAIN versions : /\ ServedAt(n, i)
                                         /\ versions[i][n] # Missing
        BY <3>2 DEF AddFails, CasFails
      <4>2. versions' = versions /\ seen'[n] = i
        BY <1>1, <4>1 DEF ServedAt, KvTypeOK
      <4> QED
        BY <3>2, <4>1, <4>2 DEF AddFails, TypeOK
    <3>3. CASE AddReads(a)
      <4>1. PICK i \in DOMAIN versions :
              /\ ServedAt(n, i)
              /\ versions[i][n] # Missing =>
                   addPc' = [addPc EXCEPT ![a] = "cas"]
        BY <3>3 DEF AddReads
      <4>2. seen[n] \in DOMAIN versions /\ seen[n] <= i
        BY <1>1, <4>1, ServedGrows, VersionsType
      <4>3. versions[seen[n]][n] # Missing
        BY <3>3 DEF AddReads, CellFound
      <4>4. versions[i][n] # Missing
        BY <1>1, <4>2, <4>3 DEF CellsGrow
      <4> QED
        BY <4>1, <4>4 DEF TypeOK
    <3> QED
      BY <3>1, <3>2, <3>3
  <2> QED
    BY <2>1, <2>2 DEF CellFound
<1>6. TypeOK'
  <2>1. addPc' \in [Add -> {"idle", "cas", "read", "thrown", "done"}]
    BY <1>3 DEF TypeOK
  <2>2. local' \in [Node -> Nat] /\ guess' \in [Add -> Nat]
    <3>1. CASE StartAdd(a)
      <4>1. local[n] \in Nat /\ local[n] + Delta[a] \in Nat
        BY <1>1 DEF TypeOK
      <4> QED
        BY <3>1, <4>1 DEF StartAdd, LocalPlus, TypeOK
    <3>2. CASE AddFails(a)
      BY <3>2 DEF AddFails, TypeOK
    <3>3. CASE AddReads(a)
      <4>1. PICK i \in DOMAIN versions :
              \/ UNCHANGED guess
              \/ /\ versions[i][n] # Missing
                 /\ guess' = [guess EXCEPT ![a] = versions[i][n]]
        BY <3>3 DEF AddReads
      <4>2. versions[i][n] \in Cell
        BY <1>1, VersionsType
      <4>3. guess' \in [Add -> Nat]
        BY <4>1, <4>2 DEF Cell, TypeOK
      <4> QED
        BY <3>3, <4>3 DEF AddReads, TypeOK
    <3> QED
      BY <3>1, <3>2, <3>3
  <2> QED
    BY <1>2, <2>1, <2>2 DEF TypeOK, StoreGrows, readVars, cacheVars
<1>7. OwnAddsSeen'
  <2> SUFFICES ASSUME NEW m \in Node
               PROVE  AckedAt(m) <= Counted(versions'[seen'[m]][m])
    BY <1>4 DEF OwnAddsSeen, Counted
  <2>1. AckedAt(m) <= Counted(versions[seen[m]][m])
    BY DEF OwnAddsSeen
  <2>2. Counted(versions[seen[m]][m]) <= Counted(versions'[seen'[m]][m])
    BY <1>2 DEF StoreGrows
  <2> QED
    BY <1>1, <1>2, <2>1, <2>2, AckedNat, SeenCounts
<1>8. ResultsBetween' /\ AllBehind' /\ ReadsOwnAdds'
  <2>1. \A m \in Node : AckedAt(m) <= AckedAt(m)'
    BY <1>4, AckedNat
  <2> QED
    BY <1>2, <2>1, ReadsUntouched
<1> QED
  BY <1>2, <1>5, <1>6, <1>7, <1>8 DEF StoreGrows

(* A swap that succeeds, or keeps the cell as it is because the delta is   *)
(* 0: what the node has acknowledged was in the guess already, and the     *)
(* node has seen the sum afterwards (operations.cpp:29-30).                *)
LEMMA SwapServed ==
  ASSUME GCounterAssumption, CounterInv, NEW a \in Add, AddSucceeds(a)
  PROVE  /\ StoreGrows
         /\ versions'[seen'[At[a]]][At[a]] = guess[a] + Delta[a]
         /\ AckedAt(At[a]) <= guess[a]
<1> USE DEF CounterInv
<1> DEFINE n == At[a]
<1>1. n \in Node /\ Delta[a] \in Nat /\ guess[a] \in Nat /\ KvTypeOK(Nat)
  BY DEF GCounterAssumption, TypeOK
<1>2. /\ AckedAt(n) \in Nat
      /\ AckedAt(n) <= Counted(versions[seen[n]][n])
      /\ Counted(versions[seen[n]][n]) \in Nat
  BY <1>1, AckedNat, VersionsType, CountedNat DEF OwnAddsSeen
<1>3. CASE CasSucceeds(n, n, guess[a], guess[a] + Delta[a])
  <2>1. guess[a] + Delta[a] \in Nat /\ guess[a] <= guess[a] + Delta[a]
    BY <1>1
  <2>2. /\ StoreGrows
        /\ Last[n] \in {Missing, guess[a]}
        /\ versions'[seen'[n]][n] = guess[a] + Delta[a]
    BY <1>1, <1>3, <2>1, AppendedGrows
  <2>3. Counted(versions[seen[n]][n]) <= Counted(Last[n])
    <3>1. /\ seen[n] \in DOMAIN versions /\ Len(versions) \in DOMAIN versions
          /\ seen[n] <= Len(versions)
      BY <1>1, VersionsType
    <3> QED
      BY <1>1, <3>1, LaterCountsMore DEF Last
  <2>4. Counted(Last[n]) \in Nat /\ Counted(Last[n]) <= guess[a]
    BY <1>1, <2>2 DEF Counted
  <2>5. AckedAt(n) <= guess[a]
    BY <1>1, <1>2, <2>3, <2>4
  <2> QED
    BY <2>2, <2>5
<1>4. CASE CasKeeps(n, n, guess[a], guess[a] + Delta[a])
  <2>1. PICK i \in DOMAIN versions : ServedAt(n, i) /\ versions[i][n] = guess[a]
    BY <1>4 DEF CasKeeps
  <2>2. Delta[a] = 0
    BY <1>1, <1>4 DEF CasKeeps
  <2>3. StoreGrows
    BY <1>1, <2>1, ServedGrows
  <2>4. versions'[seen'[n]][n] = guess[a]
    BY <1>1, <2>1 DEF ServedAt, KvTypeOK
  <2>5. Counted(versions[seen[n]][n]) <= guess[a]
    <3>1. guess[a] # Missing
      BY <1>1 DEF GCounterAssumption
    <3>2. Counted(versions'[seen'[n]][n]) = guess[a]
      BY <2>4, <3>1 DEF Counted
    <3> QED
      BY <1>1, <2>3, <3>2 DEF StoreGrows
  <2> QED
    BY <1>1, <1>2, <2>2, <2>3, <2>4, <2>5
<1> QED
  BY <1>3, <1>4 DEF AddSucceeds, Swapped

(* The swap that succeeds puts the delta behind all that the node has      *)
(* acknowledged, since those are in what it swaps.                         *)
LEMMA SucceedKeepsInv ==
  ASSUME GCounterAssumption, CounterInv, NEW a \in Add, AddSucceeds(a)
  PROVE  CounterInv'
<1> USE DEF CounterInv
<1> DEFINE n == At[a]
<1>1. n \in Node /\ Delta[a] \in Nat /\ guess[a] \in Nat /\ KvTypeOK(Nat)
  BY DEF GCounterAssumption, TypeOK
<1>2. /\ addPc[a] = "cas"
      /\ addPc' = [addPc EXCEPT ![a] = "done"]
      /\ guess' = [guess EXCEPT ![a] = 0]
      /\ UNCHANGED <<local, readVars, cacheVars>>
  BY DEF AddSucceeds
<1>3. /\ StoreGrows
      /\ versions'[seen'[n]][n] = guess[a] + Delta[a]
      /\ AckedAt(n) <= guess[a]
  BY SwapServed
<1>4. AckedAt(n)' = Delta[a] + AckedAt(n)
  <2> DEFINE S == {b \in Add : At[b] = n /\ addPc[b] = "done"}
             T == {b \in Add : At[b] = n /\ addPc'[b] = "done"}
  <2>1. a \in T /\ T \ {a} = S
    BY <1>2 DEF TypeOK
  <2>2. IsFiniteSet(T) /\ \A b \in T : Delta[b] \in Nat
    BY FS_Subset DEF GCounterAssumption
  <2>3. AckedAt(n) = SumFunctionOnSet(Delta, S)
    BY DEF AckedAt
  <2>4. AckedAt(n)' = SumFunctionOnSet(Delta, T)
    BY DEF AckedAt
  <2> HIDE DEF S, T
  <2>5. SumFunctionOnSet(Delta, T) = Delta[a] + SumFunctionOnSet(Delta, T \ {a})
    BY <2>1, <2>2, SumRemoves
  <2> QED
    BY <2>1, <2>3, <2>4, <2>5
<1>5. \A m \in Node : m # n => AckedAt(m)' = AckedAt(m)
  <2> SUFFICES ASSUME NEW m \in Node, m # n
               PROVE  {b \in Add : At[b] = m /\ addPc'[b] = "done"}
                        = {b \in Add : At[b] = m /\ addPc[b] = "done"}
    BY DEF AckedAt
  <2> QED
    BY <1>2 DEF TypeOK
<1>6. OwnAddsSeen'
  <2> SUFFICES ASSUME NEW m \in Node
               PROVE  AckedAt(m)' <= Counted(versions'[seen'[m]][m])
    BY DEF OwnAddsSeen, Counted
  <2>1. CASE m = n
    <3>1. guess[a] + Delta[a] # Missing
      BY <1>1 DEF GCounterAssumption
    <3>2. Counted(versions'[seen'[n]][n]) = guess[a] + Delta[a]
      BY <1>3, <3>1 DEF Counted
    <3> QED
      BY <1>1, <1>3, <1>4, <2>1, <3>2, AckedNat
  <2>2. CASE m # n
    <3>1. AckedAt(m) <= Counted(versions[seen[m]][m])
      BY DEF OwnAddsSeen
    <3>2. Counted(versions[seen[m]][m]) <= Counted(versions'[seen'[m]][m])
      BY <1>3 DEF StoreGrows
    <3> QED
      BY <1>1, <1>3, <1>5, <2>2, <3>1, <3>2, AckedNat, SeenCounts
  <2> QED
    BY <2>1, <2>2
<1>7. CellFound'
  <2>1. \A b \in Add : /\ At[b] \in Node
                       /\ addPc'[b] = IF b = a THEN "done" ELSE addPc[b]
    BY <1>2 DEF GCounterAssumption, TypeOK
  <2> QED
    BY <1>3, <2>1 DEF CellFound, StoreGrows
<1>8. TypeOK'
  <2>1. /\ addPc' \in [Add -> {"idle", "cas", "read", "thrown", "done"}]
        /\ guess' \in [Add -> Nat]
    BY <1>2 DEF TypeOK
  <2> QED
    BY <1>2, <1>3, <2>1 DEF TypeOK, StoreGrows, readVars, cacheVars
<1>9. ResultsBetween' /\ AllBehind' /\ ReadsOwnAdds'
  <2>1. \A m \in Node : AckedAt(m) <= AckedAt(m)'
    BY <1>1, <1>4, <1>5, AckedNat
  <2> QED
    BY <1>2, <1>3, <2>1, ReadsUntouched
<1> QED
  BY <1>3, <1>6, <1>7, <1>8, <1>9 DEF StoreGrows

(* A read that starts has the acknowledged adds of its node before it, and *)
(* one that is answered from the cache has a value that was a total.       *)
LEMMA StartReadKeepsInv ==
  ASSUME GCounterAssumption, CounterInv, NEW r \in Read,
         ReadCached(r) \/ StartRead(r)
  PROVE  CounterInv'
<1> USE DEF CounterInv, cacheVars
<1>1. /\ StoreGrows /\ UNCHANGED addVars
      /\ UNCHANGED <<kvVars, results, cacheVars>>
  BY UnchangedGrows DEF ReadCached, StartRead, TypeOK
<1>2. /\ OwnAddsSeen' /\ CellFound'
      /\ \A n \in Node : AckedAt(n)' = AckedAt(n)
  BY <1>1, AddsUntouched
<1>3. At[r] \in Node /\ readPc[r] = "idle"
  BY DEF GCounterAssumption, ReadCached, StartRead
<1>4. CurrentTotal' = CurrentTotal /\ Last' = Last
  BY <1>1 DEF CurrentTotal, Last, kvVars
<1>5. CASE ReadCached(r)
  <2>1. /\ readPc' = [readPc EXCEPT ![r] = "cached"]
        /\ reply' = [reply EXCEPT ![r] = cacheValue[At[r]]]
        /\ floor' = floor
    BY <1>5 DEF ReadCached
  <2>2. TypeOK'
    <3>1. cacheValue[At[r]] \in Nat
      BY <1>3 DEF TypeOK
    <3>2. /\ readPc' \in [Read -> {"idle", "reading", "cached", "done"}]
          /\ reply' \in [Read -> Nat]
      BY <2>1, <3>1 DEF TypeOK
    <3> QED
      BY <1>1, <2>1, <3>2 DEF TypeOK, StoreGrows, addVars
  <2>3. AllBehind'
    BY <1>1, <1>3, <1>4, <2>1 DEF AllBehind, TypeOK
  <2>4. \A x \in Read : /\ readPc'[x] = "reading" <=> readPc[x] = "reading"
                        /\ readPc'[x] = "done" =>
                             readPc[x] = "done" /\ reply'[x] = reply[x]
    BY <1>3, <2>1 DEF TypeOK
  <2>5. ReadsOwnAdds'
    BY <2>1, <2>4 DEF ReadsOwnAdds
  <2>6. ResultsBetween'
    <3>1. \A x \in Read : AckedAt(At[x])' = AckedAt(At[x])
      BY <1>2 DEF GCounterAssumption
    <3> QED
      BY <1>1, <1>4, <2>1, <2>4, <3>1 DEF ResultsBetween, Counted
  <2> QED
    BY <1>1, <1>2, <2>2, <2>3, <2>5, <2>6 DEF StoreGrows
<1>6. CASE StartRead(r)
  <2>1. /\ readPc' = [readPc EXCEPT ![r] = "reading"]
        /\ floor' = [floor EXCEPT ![r] = AckedAt(At[r])]
        /\ reply' = reply
    BY <1>6 DEF StartRead
  <2>2. TypeOK'
    <3>1. /\ readPc' \in [Read -> {"idle", "reading", "cached", "done"}]
          /\ floor' \in [Read -> Nat]
      BY <2>1, AckedNat DEF TypeOK
    <3> QED
      BY <1>1, <2>1, <3>1 DEF TypeOK, StoreGrows, addVars
  <2>3. AllBehind'
    BY <1>1, <1>4, <2>1 DEF AllBehind
  <2>4. \A x \in Read : x # r => readPc'[x] = readPc[x] /\ floor'[x] = floor[x]
    BY <2>1 DEF TypeOK
  <2>5. readPc'[r] = "reading" /\ floor'[r] = AckedAt(At[r])
    BY <2>1 DEF TypeOK
  <2>6. ReadsOwnAdds'
    BY <2>1, <2>4, <2>5 DEF ReadsOwnAdds
  <2>7. ResultsBetween'
    <3>1. \A x \in Read : AckedAt(At[x])' = AckedAt(At[x])
      BY <1>2 DEF GCounterAssumption
    <3>2. DOMAIN results[r] = {}
      BY <1>3 DEF ResultsBetween
    <3>3. AckedAt(At[r]) \in Nat
      BY AckedNat
    <3> QED
      BY <1>1, <1>4, <2>4, <2>5, <3>1, <3>2, <3>3 DEF ResultsBetween, Counted
  <2> QED
    BY <1>1, <1>2, <2>2, <2>3, <2>6, <2>7 DEF StoreGrows
<1> QED
  BY <1>5, <1>6

(* A cell is read at a version the node has seen, or at a later one, which *)
(* has the acknowledged adds if it is the node's own, and is not ahead of  *)
(* the store.                                                              *)
LEMMA ReadCellKeepsInv ==
  ASSUME GCounterAssumption, CounterInv, NEW r \in Read, NEW key \in Node,
         ReadCell(r, key)
  PROVE  CounterInv'
<1> USE DEF CounterInv
<1> DEFINE n == At[r]
<1>1. n \in Node /\ KvTypeOK(Nat)
  BY DEF GCounterAssumption, TypeOK
<1>2. PICK i \in DOMAIN versions :
        /\ ServedAt(n, i)
        /\ results' = [results EXCEPT ![r] =
             [k \in DOMAIN results[r] \cup {key} |->
                IF k = key THEN versions[i][key] ELSE results[r][k]]]
  BY DEF ReadCell
<1>3. /\ readPc[r] = "reading"
      /\ UNCHANGED <<addVars, readPc, reply, floor, cacheVars>>
  BY DEF ReadCell
<1>4. StoreGrows /\ seen[n] <= i /\ versions' = versions
  BY <1>1, <1>2, ServedGrows DEF ServedAt
<1>5. /\ OwnAddsSeen' /\ CellFound'
      /\ \A m \in Node : AckedAt(m)' = AckedAt(m)
  BY <1>3, <1>4, AddsUntouched
<1>6. Last' = Last /\ CurrentTotal' = CurrentTotal
  BY <1>4 DEF Last, CurrentTotal
<1>7. /\ \A x \in Read : x # r => results'[x] = results[x]
      /\ DOMAIN results' = Read
      /\ DOMAIN results'[r] = DOMAIN results[r] \cup {key}
      /\ results'[r][key] = versions[i][key]
      /\ \A k \in DOMAIN results[r] : k # key => results'[r][k] = results[r][k]
      /\ results'[r] = [k \in DOMAIN results'[r] |-> results'[r][k]]
  BY <1>2 DEF TypeOK
<1>8. versions[i][key] \in Cell
  BY <1>1, VersionsType
<1>9. TypeOK'
  <2>1. ASSUME NEW x \in Read
        PROVE  /\ results'[x] \in [DOMAIN results'[x] -> Cell]
               /\ DOMAIN results'[x] \subseteq Node
    <3>1. CASE x # r
      BY <1>7, <3>1 DEF TypeOK
    <3>2. CASE x = r
      <4>1. \A k \in DOMAIN results'[r] : results'[r][k] \in Cell
        BY <1>7, <1>8 DEF TypeOK
      <4> QED
        BY <1>7, <3>2, <4>1 DEF TypeOK
    <3> QED
      BY <3>1, <3>2
  <2> QED
    BY <1>3, <1>4, <1>7, <2>1 DEF TypeOK, StoreGrows, addVars, cacheVars
<1>10. AllBehind' /\ ReadsOwnAdds'
  BY <1>3, <1>6 DEF AllBehind, ReadsOwnAdds, cacheVars
<1>11. Counted(versions[i][key]) <= Counted(Last[key])
  <2>1. Len(versions) \in DOMAIN versions /\ i <= Len(versions)
    BY <1>1, VersionsType
  <2> QED
    BY <1>1, <2>1, LaterCountsMore DEF Last
<1>12. ASSUME key = n
       PROVE  floor[r] <= Counted(versions[i][key])
  <2>1. floor[r] <= AckedAt(n)
    BY <1>3 DEF ResultsBetween
  <2>2. AckedAt(n) <= Counted(versions[seen[n]][n])
    BY <1>1 DEF OwnAddsSeen
  <2>3. Counted(versions[seen[n]][n]) <= Counted(versions[i][n])
    <3>1. seen[n] \in DOMAIN versions
      BY <1>1, VersionsType
    <3> QED
      BY <1>1, <1>4, <3>1, LaterCountsMore
  <2>4. floor[r] \in Nat /\ AckedAt(n) \in Nat
    BY AckedNat DEF TypeOK
  <2>5. /\ Counted(versions[seen[n]][n]) \in Nat
        /\ Counted(versions[i][n]) \in Nat
    BY <1>1, <1>8, <1>12, SeenCounts, <1>4, CountedNat
  <2> QED
    BY <1>12, <2>1, <2>2, <2>3, <2>4, <2>5
<1>13. ResultsBetween'
  <2>1. \A x \in Read : AckedAt(At[x])' = AckedAt(At[x])
    BY <1>5 DEF GCounterAssumption
  <2>2. ASSUME NEW x \in Read
        PROVE  /\ readPc[x] # "reading" => DOMAIN results'[x] = {}
               /\ readPc[x] = "reading" =>
                    /\ floor[x] <= AckedAt(At[x])
                    /\ At[x] \in DOMAIN results'[x] =>
                         floor[x] <= Counted(results'[x][At[x]])
               /\ \A k \in DOMAIN results'[x] :
                    Counted(results'[x][k]) <= Counted(Last[k])
    <3>1. CASE x # r
      BY <1>7, <3>1 DEF ResultsBetween
    <3>2. CASE x = r
      <4>1. floor[r] <= AckedAt(n)
        BY <1>3 DEF ResultsBetween
      <4>2. n \in DOMAIN results'[r] => floor[r] <= Counted(results'[r][n])
        BY <1>3, <1>7, <1>12 DEF ResultsBetween
      <4>3. \A k \in DOMAIN results'[r] :
              Counted(results'[r][k]) <= Counted(Last[k])
        BY <1>7, <1>11 DEF ResultsBetween
      <4> QED
        BY <1>3, <3>2, <4>1, <4>2, <4>3
    <3> QED
      BY <3>1, <3>2
  <2> QED
    BY <1>3, <1>6, <2>1, <2>2 DEF ResultsBetween, Counted
<1> QED
  BY <1>4, <1>5, <1>9, <1>10, <1>13 DEF StoreGrows

(* The answer counts the node's own cell and is the total of cells that    *)
(* are all behind the store.                                               *)
LEMMA FinishReadKeepsInv ==
  ASSUME GCounterAssumption, CounterInv, NEW r \in Read, FinishRead(r)
  PROVE  CounterInv'
<1> USE DEF CounterInv
<1> DEFINE n == At[r]
           sum == Total(results[r])
<1>1. n \in Node /\ KvTypeOK(Nat)
  BY DEF GCounterAssumption, TypeOK
<1>2. /\ readPc[r] = "reading" /\ DOMAIN results[r] = Node
      /\ readPc' = [readPc EXCEPT ![r] = "done"]
      /\ results' = [results EXCEPT ![r] = <<>>]
      /\ reply' = [reply EXCEPT ![r] = sum]
      /\ cacheValue' = [cacheValue EXCEPT ![n] = sum]
      /\ cacheValid' = [cacheValid EXCEPT ![n] = TRUE]
      /\ UNCHANGED <<kvVars, addVars, floor>>
  BY DEF FinishRead, SumOfCells
<1>3. StoreGrows
  BY <1>1, <1>2, UnchangedGrows
<1>4. /\ OwnAddsSeen' /\ CellFound'
      /\ \A m \in Node : AckedAt(m)' = AckedAt(m)
  BY <1>2, <1>3, AddsUntouched
<1>5. Last' = Last /\ CurrentTotal' = CurrentTotal
  BY <1>2 DEF Last, CurrentTotal, kvVars
<1>6. results[r] \in [Node -> Cell]
  BY <1>2 DEF TypeOK
<1>7. sum \in Nat /\ \A k \in Node : Counted(results[r][k]) <= sum
  BY <1>6, TotalAtLeast
<1>8. sum <= CurrentTotal
  <2>1. Last \in [Node -> Cell]
    BY <1>1, VersionsType
  <2>2. \A k \in Node : Counted(results[r][k]) <= Counted(Last[k])
    BY <1>2 DEF ResultsBetween
  <2> QED
    BY <1>6, <2>1, <2>2, TotalMonotone DEF CurrentTotal
<1>9. floor[r] <= sum
  <2>1. floor[r] <= Counted(results[r][n])
    BY <1>1, <1>2 DEF ResultsBetween
  <2>2. Counted(results[r][n]) \in Nat
    BY <1>1, <1>6, CountedNat
  <2> QED
    BY <1>1, <1>7, <2>1, <2>2 DEF TypeOK
<1> HIDE DEF sum
<1>10. DOMAIN <<>> = {} /\ <<>> \in [{} -> Cell]
  OBVIOUS
<1>11. /\ DOMAIN results' = Read
       /\ results'[r] = <<>>
       /\ \A x \in Read : x # r => results'[x] = results[x]
  BY <1>2 DEF TypeOK
<1>12. TypeOK'
  <2>1. /\ readPc' \in [Read -> {"idle", "reading", "cached", "done"}]
        /\ reply' \in [Read -> Nat]
        /\ cacheValue' \in [Node -> Nat]
        /\ cacheValid' \in [Node -> BOOLEAN]
    BY <1>1, <1>2, <1>7 DEF TypeOK
  <2>2. \A x \in Read : /\ results'[x] \in [DOMAIN results'[x] -> Cell]
                        /\ DOMAIN results'[x] \subseteq Node
    BY <1>10, <1>11 DEF TypeOK
  <2> QED
    BY <1>2, <1>3, <1>11, <2>1, <2>2 DEF TypeOK, StoreGrows, addVars
<1>13. AllBehind'
  BY <1>2, <1>5, <1>8 DEF AllBehind, TypeOK
<1>14. /\ readPc'[r] = "done" /\ reply'[r] = sum
       /\ \A x \in Read : x # r => readPc'[x] = readPc[x] /\ reply'[x] = reply[x]
  BY <1>2 DEF TypeOK
<1>15. ReadsOwnAdds'
  BY <1>2, <1>7, <1>9, <1>14 DEF ReadsOwnAdds, TypeOK
<1>16. ResultsBetween'
  <2>1. \A x \in Read : AckedAt(At[x])' = AckedAt(At[x])
    BY <1>4 DEF GCounterAssumption
  <2> QED
    BY <1>2, <1>5, <1>10, <1>11, <1>14, <2>1 DEF ResultsBetween, Counted
<1> QED
  BY <1>3, <1>4, <1>12, <1>13, <1>15, <1>16 DEF StoreGrows

(* A cached value that is not used any more.                               *)
LEMMA ExpireKeepsInv ==
  ASSUME GCounterAssumption, CounterInv, NEW n \in Node, ExpireCache(n)
  PROVE  CounterInv'
<1> USE DEF CounterInv
<1>1. UNCHANGED <<kvVars, addVars, readVars, cacheValue>>
  BY DEF ExpireCache
<1>2. StoreGrows
  BY <1>1, UnchangedGrows DEF TypeOK
<1>3. /\ OwnAddsSeen' /\ CellFound'
      /\ \A m \in Node : AckedAt(m)' = AckedAt(m)
  BY <1>1, <1>2, AddsUntouched
<1>4. Last' = Last /\ CurrentTotal' = CurrentTotal
  BY <1>1 DEF Last, CurrentTotal, kvVars
<1>5. TypeOK'
  <2>1. cacheValid' \in [Node -> BOOLEAN]
    BY DEF ExpireCache, TypeOK
  <2> QED
    BY <1>1, <1>2, <2>1 DEF TypeOK, StoreGrows, addVars, readVars
<1>6. AllBehind' /\ ReadsOwnAdds'
  BY <1>1, <1>4 DEF AllBehind, ReadsOwnAdds, readVars
<1>7. ResultsBetween'
  <2>1. \A x \in Read : AckedAt(At[x])' = AckedAt(At[x])
    BY <1>3 DEF GCounterAssumption
  <2> QED
    BY <1>1, <1>4, <2>1 DEF ResultsBetween, Counted, readVars
<1> QED
  BY <1>2, <1>3, <1>5, <1>6, <1>7 DEF StoreGrows

(* The orderer only creates cells, which count nothing yet.                *)
LEMMA OrdererKeepsInv ==
  ASSUME GCounterAssumption, CounterInv, Orderer
  PROVE  CounterInv'
<1> USE DEF CounterInv
<1>1. UNCHANGED <<addVars, readVars, cacheVars>>
  BY DEF Orderer
<1>2. StoreGrows
  <2>1. KvTypeOK(Nat)
    BY DEF TypeOK
  <2>2. PICK n \in Node, key \in Node : Order(n, key)
    BY DEF Orderer
  <2>3. CASE CasSucceeds(n, key, 0, 0)
    <3>1. 0 \in Nat /\ 0 <= 0
      OBVIOUS
    <3> QED
      BY <2>1, <2>3, <3>1, AppendedGrows
  <2>4. CASE \E i \in DOMAIN versions : ServedAt(n, i)
    BY <2>1, <2>4, ServedGrows
  <2> QED
    BY <2>2, <2>3, <2>4 DEF Order
<1>3. /\ OwnAddsSeen' /\ CellFound'
      /\ \A m \in Node : AckedAt(m)' = AckedAt(m)
  BY <1>1, <1>2, AddsUntouched
<1>4. ResultsBetween' /\ AllBehind' /\ ReadsOwnAdds'
  <2>1. \A m \in Node : AckedAt(m) <= AckedAt(m)'
    BY <1>3, AckedNat
  <2> QED
    BY <1>1, <1>2, <2>1, ReadsUntouched
<1>5. TypeOK'
  BY <1>1, <1>2 DEF TypeOK, StoreGrows, addVars, readVars, cacheVars
<1> QED
  BY <1>2, <1>3, <1>4, <1>5 DEF StoreGrows

-----------------------------------------------------------------------------
(* The theorems.                                                           *)

(* At first nothing is stored, and nothing has been acknowledged.          *)
LEMMA CounterInit ==
  ASSUME GCounterAssumption, Init
  PROVE  CounterInv
<1> USE DEF Init
<1> DEFINE none == [k \in Node |-> Missing]
<1>1. /\ versions = <<none>> /\ seen = [n \in Node |-> 1]
      /\ none \in [Node -> Cell]
  BY DEF KvInit, Cell
<1>2. /\ versions \in Seq([Node -> Cell]) /\ versions # <<>>
      /\ DOMAIN versions = {1} /\ versions[1] = none
  <2> HIDE DEF none
  <2> QED
    BY <1>1
<1>3. KvTypeOK(Nat)
  BY <1>1, <1>2 DEF KvTypeOK, Cell
<1>4. TypeOK
  <2>1. DOMAIN <<>> = {} /\ <<>> \in [{} -> Cell]
    OBVIOUS
  <2>2. \A r \in Read : /\ results[r] \in [DOMAIN results[r] -> Cell]
                        /\ DOMAIN results[r] \subseteq Node
    BY <2>1
  <2> QED
    BY <1>3, <2>2 DEF TypeOK
<1>5. CellsGrow
  BY <1>2 DEF CellsGrow
<1>6. \A n \in Node : AckedAt(n) = 0
  <2> SUFFICES ASSUME NEW n \in Node
               PROVE  AckedAt(n) = 0
    OBVIOUS
  <2>1. {a \in Add : At[a] = n /\ addPc[a] = "done"} = {}
    OBVIOUS
  <2>2. SumFunctionOnSet(Delta, {}) = 0
    BY FS_EmptySet, SumPicks
  <2> QED
    BY <2>1, <2>2 DEF AckedAt
<1>7. OwnAddsSeen
  BY <1>1, <1>2, <1>6 DEF OwnAddsSeen, Counted
<1>8. CellFound
  BY DEF CellFound
<1>9. ResultsBetween
  BY DEF ResultsBetween
<1>10. AllBehind
  <2>1. CurrentTotal \in Nat
    BY <1>3, VersionsType, TotalAtLeast DEF CurrentTotal
  <2> QED
    BY <2>1 DEF AllBehind
<1>11. ReadsOwnAdds
  BY DEF ReadsOwnAdds
<1> QED
  BY <1>4, <1>5, <1>7, <1>8, <1>9, <1>10, <1>11 DEF CounterInv

(* The cells never shrink, a node sees its own acknowledged adds, and no   *)
(* read is ahead of the cells: AddHandler, ReadHandler and OrdererWorker   *)
(* together, over a sequentially consistent store.                         *)
THEOREM CounterCorrect == Spec => []CounterInv
<1> USE GCounterAssumption
<1>1. Init => CounterInv
  BY CounterInit
<1>2. CounterInv /\ [Next]_vars => CounterInv'
  <2> SUFFICES ASSUME CounterInv, [Next]_vars
               PROVE  CounterInv'
    OBVIOUS
  <2>1. ASSUME NEW a \in Add, AddStep(a)
        PROVE  CounterInv'
    BY <2>1, PendingKeepsInv, SucceedKeepsInv DEF AddStep
  <2>2. ASSUME NEW r \in Read, ReadStep(r)
        PROVE  CounterInv'
    BY <2>2, StartReadKeepsInv, FinishReadKeepsInv, ReadCellKeepsInv
       DEF ReadStep
  <2>3. ASSUME NEW n \in Node, ExpireCache(n)
        PROVE  CounterInv'
    BY <2>3, ExpireKeepsInv
  <2>4. CASE Orderer
    BY <2>4, OrdererKeepsInv
  <2>5. CASE UNCHANGED vars
    <3>1. UNCHANGED kvVars /\ UNCHANGED addVars
          /\ UNCHANGED <<readVars, cacheVars>>
      BY <2>5 DEF vars
    <3>2. StoreGrows
      BY <3>1, UnchangedGrows DEF CounterInv, TypeOK
    <3>3. /\ OwnAddsSeen' /\ CellFound'
          /\ \A m \in Node : AckedAt(m)' = AckedAt(m)
      BY <3>1, <3>2, AddsUntouched
    <3>4. ResultsBetween' /\ AllBehind' /\ ReadsOwnAdds'
      <4>1. \A m \in Node : AckedAt(m) <= AckedAt(m)'
        BY <3>3, AckedNat
      <4> QED
        BY <3>1, <3>2, <4>1, ReadsUntouched
    <3>5. TypeOK'
      BY <3>1, <3>2 DEF CounterInv, TypeOK, StoreGrows, addVars, readVars,
                        cacheVars
    <3> QED
      BY <3>2, <3>3, <3>4, <3>5 DEF CounterInv, StoreGrows
  <2> QED
    BY <2>1, <2>2, <2>3, <2>4, <2>5 DEF Next
<1> QED
  BY <1>1, <1>2, PTL DEF Spec

(* The types of all variables.                                             *)
THEOREM TypeCorrect == Spec => []TypeOK
<1>1. CounterInv => TypeOK
  BY DEF CounterInv
<1> QED
  BY <1>1, CounterCorrect, PTL

(* No acknowledged add is ever lost (AddHandler::Handle).                  *)
THEOREM AckedAddsCountedCorrect == Spec => []AckedAddsCounted
<1>1. CounterInv => AckedAddsCounted
  <2> SUFFICES ASSUME CounterInv, NEW n \in Node
               PROVE  AckedAt(n) <= Counted(Last[n])
    BY DEF AckedAddsCounted
  <2>1. KvTypeOK(Nat) /\ CellsGrow
    BY DEF CounterInv, TypeOK
  <2>2. /\ seen[n] \in DOMAIN versions /\ Len(versions) \in DOMAIN versions
        /\ seen[n] <= Len(versions) /\ Last \in [Node -> Cell]
        /\ versions[seen[n]] \in [Node -> Cell]
    BY <2>1, VersionsType
  <2>3. Counted(versions[seen[n]][n]) <= Counted(Last[n])
    BY <2>1, <2>2, GCounterAssumption, LaterCountsMore DEF Last
  <2>4. AckedAt(n) <= Counted(versions[seen[n]][n])
    BY DEF CounterInv, OwnAddsSeen
  <2>5. AckedAt(n) \in Nat
    BY GCounterAssumption, AckedNat
  <2>6. Counted(versions[seen[n]][n]) \in Nat /\ Counted(Last[n]) \in Nat
    BY <2>2, CountedNat
  <2> QED
    BY <2>3, <2>4, <2>5, <2>6
<1> QED
  BY <1>1, CounterCorrect, PTL

(* A read has the adds its node had acknowledged (ReadHandler::Read).      *)
THEOREM ReadsOwnAddsCorrect == Spec => []ReadsOwnAdds
<1>1. CounterInv => ReadsOwnAdds
  BY DEF CounterInv
<1> QED
  BY <1>1, CounterCorrect, PTL

(* No answer and no cached value is ahead of the counter                   *)
(* (ReadHandler::Handle).                                                  *)
THEOREM NeverAheadCorrect == Spec => []NeverAhead
<1>1. CounterInv => NeverAhead
  BY DEF CounterInv, AllBehind, NeverAhead
<1> QED
  BY <1>1, CounterCorrect, PTL

(* The .value() in the loop of an add never throws: the cell it reads is   *)
(* there.                                                                  *)
THEOREM CellFoundCorrect == Spec => []CellFound
<1>1. CounterInv => CellFound
  BY DEF CounterInv
<1> QED
  BY <1>1, CounterCorrect, PTL
=============================================================================
