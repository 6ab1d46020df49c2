--------------------------- MODULE ConsumerProofs ---------------------------
(***************************************************************************)
(* Theorems about Consumer, for every number of partitions and workers,    *)
(* every log and every bound on faults: types, no loss of events, that the *)
(* workers together implement EventLog, how full a buffer gets, how often  *)
(* a record is counted, and that committed offsets only grow while nothing *)
(* is rebalanced.                                                          *)
(***************************************************************************)
EXTENDS Consumer, FiniteSetTheorems, WellFoundedInduction, TLAPS

-----------------------------------------------------------------------------
(* Sums over finite sets.                                                 *)

\* Of a non-empty set of subsets of a finite set, some have no proper subset in it.
LEMMA LeastSubset ==
    ASSUME NEW D, IsFiniteSet(D), NEW T \in SUBSET SUBSET D, T # {}
    PROVE  \E m \in T : \A y \in T : y \subseteq m => y = m
<1>1. IsWellFoundedOn(StrictSubsetOrdering(D), SUBSET D)
  BY FS_StrictSubsetOrderingWellFounded, FS_FiniteSubsetsOfFinite, Zenon
<1>2. PICK m \in T : \A y \in T : <<y, m>> \notin StrictSubsetOrdering(D)
  BY <1>1, WFMin, Zenon
<1>3. \A y \in T : y \subseteq m => y = m
  <2> SUFFICES ASSUME NEW y \in T, y \subseteq m, y # m PROVE FALSE
    OBVIOUS
  <2>1. <<y, m>> \in (SUBSET D) \X (SUBSET D)
    OBVIOUS
  <2> QED BY <2>1, <1>2 DEF StrictSubsetOrdering
<1> QED BY <1>3

\* The sums of the values of f over the subsets of a finite set.
Pick(s) == CHOOSE x \in s : TRUE
Adds(f, D, h) ==
    h = [s \in SUBSET D |-> IF s = {} THEN 0 ELSE f[Pick(s)] + h[s \ {Pick(s)}]]

\* An element picked is an element.
LEMMA PickIn == ASSUME NEW s, s # {} PROVE Pick(s) \in s
BY DEF Pick

\* Sums of natural numbers are natural numbers.
LEMMA AddsTyped ==
    ASSUME NEW D, IsFiniteSet(D), NEW f \in [D -> Nat], NEW h, Adds(f, D, h)
    PROVE  h \in [SUBSET D -> Nat]
<1> DEFINE T == {s \in SUBSET D : h[s] \notin Nat}
<1>1. ASSUME T # {} PROVE FALSE
  <2>1. PICK m \in T : \A y \in T : y \subseteq m => y = m
    <3> HIDE DEF T
    <3>1. T \in SUBSET SUBSET D
      BY DEF T
    <3> QED BY <1>1, <3>1, LeastSubset
  <2>2. m # {}
    BY DEF Adds
  <2>3. Pick(m) \in m
    BY <2>2, PickIn
  <2>4. h[m \ {Pick(m)}] \in Nat
    BY <2>1, <2>3
  <2>5. h[m] = f[Pick(m)] + h[m \ {Pick(m)}]
    BY <2>2 DEF Adds
  <2> QED BY <2>3, <2>4, <2>5
<1> QED BY <1>1 DEF Adds

\* The same on a set of subsets, and the subsets of so many elements.
AddsOn(S, f, h) ==
    \A s \in S : h[s] = IF s = {} THEN 0 ELSE f[Pick(s)] + h[s \ {Pick(s)}]
Small(D, n) == {s \in SUBSET D : Cardinality(s) <= n}

\* There are such sums, one size of subsets after the other.
LEMMA SumsUpTo ==
    ASSUME NEW D, IsFiniteSet(D), NEW f \in [D -> Nat], NEW n \in Nat
    PROVE  \E h \in [Small(D, n) -> Nat] : AddsOn(Small(D, n), f, h)
<1> USE DEF Small, AddsOn
<1> DEFINE Upto(k) == Small(D, k)
           G == {k \in Nat : \E h \in [Upto(k) -> Nat] :
               \A s \in Upto(k) :
                  h[s] = IF s = {} THEN 0 ELSE f[Pick(s)] + h[s \ {Pick(s)}]}
<1>0. \A s \in SUBSET D : /\ IsFiniteSet(s) /\ Cardinality(s) \in Nat
                          /\ Cardinality(s) = 0 <=> s = {}
  BY FS_Subset, FS_CardinalityType, FS_EmptySet
<1>1. 0 \in G
  <2>1. \A s \in Upto(0) : s = {}
    BY <1>0
  <2> DEFINE h == [s \in Upto(0) |-> 0]
  <2>2. h \in [Upto(0) -> Nat]
    OBVIOUS
  <2> QED BY <2>1, <2>2
<1>2. ASSUME NEW k \in G PROVE k + 1 \in G
  <2>1. PICK h \in [Upto(k) -> Nat] :
          \A s \in Upto(k) : h[s] = IF s = {} THEN 0 ELSE f[Pick(s)] + h[s \ {Pick(s)}]
    BY <1>2
  <2> DEFINE g == [s \in Upto(k + 1) |-> IF s = {} THEN 0 ELSE f[Pick(s)] + h[s \ {Pick(s)}]]
  <2>2. \A s \in Upto(k + 1) : s # {} => /\ Pick(s) \in D
                                         /\ s \ {Pick(s)} \in Upto(k)
                                         /\ s \ {Pick(s)} \in Upto(k + 1)
    <3> SUFFICES ASSUME NEW s \in Upto(k + 1), s # {}
                 PROVE  Pick(s) \in s /\ Cardinality(s \ {Pick(s)}) <= k
      BY <1>0
    <3>1. Pick(s) \in s
      BY PickIn
    <3>2. Cardinality(s \ {Pick(s)}) = Cardinality(s) - 1
      BY <3>1, <1>0, FS_RemoveElement
    <3> QED BY <3>1, <3>2, <1>0
  <2>3. g \in [Upto(k + 1) -> Nat]
    BY <2>2
  <2>4. \A s \in Upto(k) : g[s] = h[s]
    BY <2>1, <1>0
  <2>5. \A s \in Upto(k + 1) : g[s] = IF s = {} THEN 0 ELSE f[Pick(s)] + g[s \ {Pick(s)}]
    BY <2>2, <2>4
  <2>6. k + 1 \in Nat
    OBVIOUS
  <2> HIDE DEF g, Small
  <2> QED BY <2>3, <2>5, <2>6
<1>3. n \in G
  <2> G \subseteq Nat
    OBVIOUS
  <2> HIDE DEF G
  <2>1. SUFFICES ASSUME Nat \ G # {} PROVE FALSE
    OBVIOUS
  <2>2. PICK m \in Nat \ G : \A y \in Nat \ G : ~(<<y, m>> \in OpToRel(<, Nat))
    BY <2>1, NatLessThanWellFounded, WFMin
  <2>3. m # 0 /\ m - 1 \in Nat
    BY <1>1
  <2>4. m - 1 \in G
    <3>1. <<m - 1, m>> \in Nat \X Nat /\ m - 1 < m
      BY <2>3
    <3>2. <<m - 1, m>> \in OpToRel(<, Nat)
      BY <3>1 DEF OpToRel
    <3> QED BY <2>2, <2>3, <3>2
  <2>5. (m - 1) + 1 \in G
    BY <2>4, <1>2
  <2> QED BY <2>5
<1> QED BY <1>3

\* What the community modules' sum is: the value at the domain of a function
\* that adds the values up, set by set.
LEMMA SumIs ==
    ASSUME NEW D, IsFiniteSet(D), NEW f \in [D -> Nat]
    PROVE  \E h \in [SUBSET D -> Nat] : Adds(f, D, h) /\ SumFunction(f) = h[D]
<1> DEFINE iter == CHOOSE h : h = [s \in SUBSET D |->
                       IF s = {} THEN 0 ELSE f[CHOOSE x \in s : TRUE] + h[s \ {CHOOSE x \in s : TRUE}]]
<1>1. SumFunction(f) = iter[D]
  BY DEF SumFunction, SumFunctionOnSet, FoldFunctionOnSet, MapThenFoldSet
<1>2. \E h : Adds(f, D, h)
  <2>1. Cardinality(D) \in Nat /\ Small(D, Cardinality(D)) = SUBSET D
    BY FS_CardinalityType, FS_Subset DEF Small
  <2>2. \E h \in [Small(D, Cardinality(D)) -> Nat] : AddsOn(Small(D, Cardinality(D)), f, h)
    BY <2>1, SumsUpTo, Zenon
  <2>3. PICK h \in [SUBSET D -> Nat] : AddsOn(SUBSET D, f, h)
    BY <2>1, <2>2
  <2>4. Adds(f, D, h)
    BY <2>3 DEF Adds, AddsOn
  <2> QED BY <2>4
<1>3. Adds(f, D, iter)
  BY <1>2 DEF Adds, Pick
<1>4. iter \in [SUBSET D -> Nat]
  <2> HIDE DEF iter
  <2> QED BY <1>3, AddsTyped
<1> QED BY <1>1, <1>3, <1>4

\* A sum is a natural number.
LEMMA SumNat ==
    ASSUME NEW D, IsFiniteSet(D), NEW f \in [D -> Nat]
    PROVE  SumFunction(f) \in Nat
<1>1. PICK h \in [SUBSET D -> Nat] : Adds(f, D, h) /\ SumFunction(f) = h[D]
  BY SumIs
<1> QED BY <1>1

\* To show something of all sums: of the empty one, and of one element more.
LEMMA AddsInduction ==
    ASSUME NEW D, IsFiniteSet(D), NEW G \in SUBSET SUBSET D, {} \in G,
           \A s \in SUBSET D : s # {} /\ s \ {Pick(s)} \in G => s \in G
    PROVE  D \in G
<1>1. ASSUME (SUBSET D) \ G # {} PROVE FALSE
  <2> DEFINE T == (SUBSET D) \ G
  <2>1. PICK m \in T : \A y \in T : y \subseteq m => y = m
    <3>1. T \in SUBSET SUBSET D /\ T # {}
      BY <1>1
    <3> HIDE DEF T
    <3> QED BY <3>1, LeastSubset
  <2>2. m # {} /\ Pick(m) \in m
    BY PickIn
  <2>3. m \ {Pick(m)} \in G
    BY <2>1, <2>2
  <2> QED BY <2>2, <2>3
<1> QED BY <1>1

\* One value of a sum is at most the sum.
LEMMA SumElement ==
    ASSUME NEW D, IsFiniteSet(D), NEW f \in [D -> Nat], NEW d \in D
    PROVE  f[d] <= SumFunction(f)
<1>1. PICK h \in [SUBSET D -> Nat] : Adds(f, D, h) /\ SumFunction(f) = h[D]
  BY SumIs
<1> DEFINE G == {s \in SUBSET D : d \in s => f[d] <= h[s]}
<1>2. \A s \in SUBSET D : s # {} /\ s \ {Pick(s)} \in G => s \in G
  <2> SUFFICES ASSUME NEW s \in SUBSET D, s # {}, s \ {Pick(s)} \in G, d \in s
               PROVE  f[d] <= h[s]
    OBVIOUS
  <2>1. Pick(s) \in D /\ h[s] = f[Pick(s)] + h[s \ {Pick(s)}]
    BY <1>1, PickIn DEF Adds
  <2> QED BY <2>1
<1>3. D \in G
  <2> HIDE DEF G
  <2>1. {} \in G /\ G \in SUBSET SUBSET D
    BY DEF G
  <2> QED BY <1>2, <2>1, AddsInduction
<1> QED BY <1>1, <1>3

\* Zeroes add up to zero.
LEMMA SumZero ==
    ASSUME NEW D, IsFiniteSet(D)
    PROVE  SumFunction([x \in D |-> 0]) = 0
<1> DEFINE f == [x \in D |-> 0]
<1>1. PICK h \in [SUBSET D -> Nat] : Adds(f, D, h) /\ SumFunction(f) = h[D]
  BY SumIs
<1> DEFINE G == {s \in SUBSET D : h[s] = 0}
<1>2. \A s \in SUBSET D : s # {} /\ s \ {Pick(s)} \in G => s \in G
  BY <1>1, PickIn DEF Adds
<1>3. D \in G
  <2>1. {} \in G /\ G \in SUBSET SUBSET D
    BY <1>1 DEF Adds
  <2> HIDE DEF G
  <2> QED BY <1>2, <2>1, AddsInduction
<1> QED BY <1>1, <1>3

\* A sum changes by what one of its values changes.
LEMMA SumChange ==
    ASSUME NEW D, IsFiniteSet(D), NEW f \in [D -> Nat], NEW g \in [D -> Nat],
           NEW d \in D, \A x \in D \ {d} : f[x] = g[x]
    PROVE  SumFunction(f) + g[d] = SumFunction(g) + f[d]
<1>1. PICK h \in [SUBSET D -> Nat] : Adds(f, D, h) /\ SumFunction(f) = h[D]
  BY SumIs
<1>2. PICK k \in [SUBSET D -> Nat] : Adds(g, D, k) /\ SumFunction(g) = k[D]
  BY SumIs
<1> DEFINE G == {s \in SUBSET D : IF d \in s THEN h[s] + g[d] = k[s] + f[d] ELSE h[s] = k[s]}
<1>3. \A s \in SUBSET D : s # {} /\ s \ {Pick(s)} \in G => s \in G
  <2> SUFFICES ASSUME NEW s \in SUBSET D, s # {}, s \ {Pick(s)} \in G
               PROVE  s \in G
    OBVIOUS
  <2>1. Pick(s) \in s /\ Pick(s) \in D
    BY PickIn
  <2>2. /\ h[s] = f[Pick(s)] + h[s \ {Pick(s)}]
        /\ k[s] = g[Pick(s)] + k[s \ {Pick(s)}]
    BY <1>1, <1>2 DEF Adds
  <2>3. h[s \ {Pick(s)}] \in Nat /\ k[s \ {Pick(s)}] \in Nat
    OBVIOUS
  <2> QED BY <2>1, <2>2, <2>3
<1>4. D \in G
  <2>1. {} \in G /\ G \in SUBSET SUBSET D
    BY <1>1, <1>2 DEF Adds
  <2> HIDE DEF G
  <2> QED BY <1>3, <2>1, AddsInduction
<1> QED BY <1>1, <1>2, <1>4

\* Sums add up value by value.
LEMMA SumOfSums ==
    ASSUME NEW D, IsFiniteSet(D), NEW f \in [D -> Nat], NEW g \in [D -> Nat],
           NEW b \in [D -> Nat], \A x \in D : b[x] = f[x] + g[x]
    PROVE  SumFunction(b) = SumFunction(f) + SumFunction(g)
<1>1. PICK h \in [SUBSET D -> Nat] : Adds(f, D, h) /\ SumFunction(f) = h[D]
  BY SumIs
<1>2. PICK k \in [SUBSET D -> Nat] : Adds(g, D, k) /\ SumFunction(g) = k[D]
  BY SumIs
<1>3. PICK l \in [SUBSET D -> Nat] : Adds(b, D, l) /\ SumFunction(b) = l[D]
  BY SumIs
<1> DEFINE G == {s \in SUBSET D : l[s] = h[s] + k[s]}
<1>4. \A s \in SUBSET D : s # {} /\ s \ {Pick(s)} \in G => s \in G
  <2> SUFFICES ASSUME NEW s \in SUBSET D, s # {}, s \ {Pick(s)} \in G
               PROVE  s \in G
    OBVIOUS
  <2>1. Pick(s) \in s /\ Pick(s) \in D
    BY PickIn
  <2>2. /\ h[s] = f[Pick(s)] + h[s \ {Pick(s)}]
        /\ k[s] = g[Pick(s)] + k[s \ {Pick(s)}]
        /\ l[s] = b[Pick(s)] + l[s \ {Pick(s)}]
    BY <1>1, <1>2, <1>3 DEF Adds
  <2>3. h[s \ {Pick(s)}] \in Nat /\ k[s \ {Pick(s)}] \in Nat
    OBVIOUS
  <2> QED BY <2>1, <2>2, <2>3
<1>5. D \in G
  <2>1. {} \in G /\ G \in SUBSET SUBSET D
    BY <1>1, <1>2, <1>3 DEF Adds
  <2> HIDE DEF G
  <2> QED BY <1>4, <2>1, AddsInduction
<1> QED BY <1>1, <1>2, <1>3, <1>5

\* A sum of ones and zeroes counts.
LEMMA SumCounts ==
    ASSUME NEW D, IsFiniteSet(D), NEW S \in SUBSET D
    PROVE  SumFunction([x \in D |-> IF x \in S THEN 1 ELSE 0]) = Cardinality(S)
<1> DEFINE f == [x \in D |-> IF x \in S THEN 1 ELSE 0]
<1>1. PICK h \in [SUBSET D -> Nat] : Adds(f, D, h) /\ SumFunction(f) = h[D]
  BY SumIs
<1> DEFINE G == {s \in SUBSET D : h[s] = Cardinality(s \cap S)}
<1>2. \A s \in SUBSET D : s # {} /\ s \ {Pick(s)} \in G => s \in G
  <2> SUFFICES ASSUME NEW s \in SUBSET D, s # {}, s \ {Pick(s)} \in G
               PROVE  s \in G
    OBVIOUS
  <2>1. Pick(s) \in s /\ Pick(s) \in D
    BY PickIn
  <2>2. h[s] = f[Pick(s)] + h[s \ {Pick(s)}]
    BY <1>1 DEF Adds
  <2>3. IsFiniteSet(s \cap S) /\ Cardinality(s \cap S) \in Nat
    BY FS_Subset, FS_CardinalityType
  <2>4. (s \ {Pick(s)}) \cap S = (s \cap S) \ {Pick(s)}
    OBVIOUS
  <2>5. Cardinality((s \cap S) \ {Pick(s)}) =
          IF Pick(s) \in s \cap S THEN Cardinality(s \cap S) - 1 ELSE Cardinality(s \cap S)
    BY <2>3, FS_RemoveElement, Zenon
  <2>6. h[s \ {Pick(s)}] = Cardinality((s \cap S) \ {Pick(s)})
    BY <2>4
  <2>7. h[s] = Cardinality(s \cap S)
    BY <2>1, <2>2, <2>3, <2>5, <2>6
  <2> QED BY <2>7
<1>3. D \in G
  <2>1. h[{}] = 0 /\ {} \cap S = {} /\ Cardinality({}) = 0
    BY <1>1, FS_EmptySet DEF Adds
  <2>2. {} \in G /\ G \in SUBSET SUBSET D
    BY <2>1
  <2> HIDE DEF G
  <2> QED BY <1>2, <2>2, AddsInduction
<1>4. D \cap S = S
  OBVIOUS
<1> QED BY <1>1, <1>3, <1>4

\* A sum of values that are at most c is at most c times their number.
LEMMA SumAtMost ==
    ASSUME NEW D, IsFiniteSet(D), NEW f \in [D -> Nat], NEW c \in Nat,
           \A x \in D : f[x] <= c
    PROVE  SumFunction(f) <= c * Cardinality(D)
<1>1. PICK h \in [SUBSET D -> Nat] : Adds(f, D, h) /\ SumFunction(f) = h[D]
  BY SumIs
<1> DEFINE G == {s \in SUBSET D : h[s] <= c * Cardinality(s)}
<1>2. \A s \in SUBSET D : s # {} /\ s \ {Pick(s)} \in G => s \in G
  <2> SUFFICES ASSUME NEW s \in SUBSET D, s # {}, s \ {Pick(s)} \in G
               PROVE  s \in G
    OBVIOUS
  <2>1. Pick(s) \in s /\ Pick(s) \in D
    BY PickIn
  <2>2. h[s] = f[Pick(s)] + h[s \ {Pick(s)}]
    BY <1>1 DEF Adds
  <2>3. IsFiniteSet(s) /\ Cardinality(s) \in Nat
    BY FS_Subset, FS_CardinalityType
  <2>4. Cardinality(s \ {Pick(s)}) = Cardinality(s) - 1
    BY <2>1, <2>3, FS_RemoveElement
  <2>5. h[s \ {Pick(s)}] <= c * (Cardinality(s) - 1) /\ h[s \ {Pick(s)}] \in Nat
    BY <2>4
  <2>6. f[Pick(s)] <= c /\ f[Pick(s)] \in Nat
    BY <2>1
  <2>7. \A n, x, y \in Nat : x <= c /\ y <= c * (n - 1) => x + y <= c * n
    OBVIOUS
  <2>8. h[s] <= c * Cardinality(s)
    BY <2>2, <2>3, <2>5, <2>6, <2>7
  <2> QED BY <2>8
<1>3. D \in G
  <2>1. h[{}] = 0 /\ Cardinality({}) = 0
    BY <1>1, FS_EmptySet DEF Adds
  <2>2. {} \in G /\ G \in SUBSET SUBSET D
    BY <2>1
  <2> HIDE DEF G
  <2> QED BY <1>2, <2>2, AddsInduction
<1> QED BY <1>1, <1>3

-----------------------------------------------------------------------------
(* Offsets.                                                                *)

USE ConsumerAssumption

\* The greatest element of a non-empty set of offsets is one of them (what
\* LastOffset returns when a fetch yields rows).
LEMMA MaxOfOffsets ==
    ASSUME NEW S \in SUBSET Offsets, S # {}
    PROVE  Max(S) \in S /\ \A x \in S : x <= Max(S)
<1> DEFINE T == {MaxLog - x : x \in S}
           R == OpToRel(<, Nat)
<1>1. T \subseteq Nat /\ T # {}
  BY DEF Offsets
<1>2. IsWellFoundedOn(R, Nat)
  BY NatLessThanWellFounded
<1>3. PICK m \in T : \A y \in T : ~(<<y, m>> \in R)
  <2> HIDE DEF T, R
  <2> QED BY <1>1, <1>2, WFMin
<1>4. PICK s \in S : m = MaxLog - s
  OBVIOUS
<1>5. \A x \in S : x <= s
  <2> SUFFICES ASSUME NEW x \in S PROVE x <= s
    OBVIOUS
  <2>1. MaxLog - x \in T /\ MaxLog - x \in Nat /\ m \in Nat
    BY <1>1
  <2>2. ~(MaxLog - x < m)
    BY <2>1, <1>3 DEF OpToRel
  <2> QED BY <2>1, <2>2, <1>4 DEF Offsets
<1>6. \E y \in S : \A x \in S : y >= x
  BY <1>5 DEF Offsets
<1> QED BY <1>6 DEF Max, Offsets

\* A partition's pending offset after a fetch is the old one, or that of a
\* row of the fetch.
LEMMA LastOffsetChoice ==
    ASSUME NEW rows \in SUBSET Records, NEW p \in Partitions, NEW old
    PROVE  \/ LastOffset(rows, p, old) = old
           \/ /\ LastOffset(rows, p, old) \in Offsets
              /\ <<p, LastOffset(rows, p, old)>> \in rows
<1> DEFINE offs == {o \in Offsets : <<p, o>> \in rows}
<1>1. CASE offs = {}
  BY <1>1 DEF LastOffset
<1>2. CASE offs # {}
  <2>1. Max(offs) \in offs
    BY <1>2, MaxOfOffsets
  <2> QED BY <1>2, <2>1 DEF LastOffset
<1> QED BY <1>1, <1>2

-----------------------------------------------------------------------------
(* Types.                                                                  *)

LEMMA TypeInit == Init => TypeOK
BY DEF Init, TypeOK, Offsets, Records, NoPending, NoOffset, EmptyBuffer, Locations

LEMMA PollType ==
    ASSUME TypeOK, NEW w \in Workers, Poll(w)
    PROVE  TypeOK'
<1>1. PICK n \in Fetchable(w), elapsed \in BOOLEAN :
        LET rows == NewRows(w, n)
            buf == [r \in Records |-> buffer[w][r] + (IF r \in rows THEN 1 ELSE 0)]
        IN  /\ position' = [position EXCEPT ![w] =
                               [p \in Partitions |-> @[p] + n[p]]]
            /\ buffer' = [buffer EXCEPT ![w] = buf]
            /\ pending' = [pending EXCEPT ![w] =
                               [p \in Partitions |-> LastOffset(rows, p, @[p])]]
            /\ pc' = [pc EXCEPT ![w] =
                   IF ShouldFlush(SumFunction(buf), elapsed) THEN "insert" ELSE "poll"]
  BY Zenon DEF Poll
<1> DEFINE rows == NewRows(w, n)
           buf == [r \in Records |-> buffer[w][r] + (IF r \in rows THEN 1 ELSE 0)]
<1>2. position' \in [Workers -> [Partitions -> 0 .. MaxLog]]
  <2>1. \A p \in Partitions : position[w][p] + n[p] \in 0 .. MaxLog
    <3> SUFFICES ASSUME NEW p \in Partitions
                 PROVE  position[w][p] + n[p] \in 0 .. MaxLog
      OBVIOUS
    <3>1. /\ n[p] \in 0 .. BatchMax
          /\ n[p] > 0 => position[w][p] + n[p] <= logEnd[p]
      BY DEF Fetchable
    <3>2. position[w][p] \in 0 .. MaxLog /\ logEnd[p] \in 0 .. MaxLog
      BY DEF TypeOK
    <3> QED BY <3>1, <3>2
  <2> QED BY <1>1, <2>1 DEF TypeOK
<1>3. buffer' \in [Workers -> [Records -> Nat]]
  <2>1. buf \in [Records -> Nat]
    BY DEF TypeOK
  <2> QED BY <1>1, <2>1 DEF TypeOK
<1>4. pending' \in [Workers -> [Partitions -> Offsets \cup {NoOffset}]]
  <2>1. rows \in SUBSET Records
    BY DEF NewRows, WellFormed
  <2>2. \A p \in Partitions :
          LastOffset(rows, p, pending[w][p]) \in Offsets \cup {NoOffset}
    <3> SUFFICES ASSUME NEW p \in Partitions
                 PROVE  LastOffset(rows, p, pending[w][p]) \in Offsets \cup {NoOffset}
      OBVIOUS
    <3>1. pending[w][p] \in Offsets \cup {NoOffset}
      BY DEF TypeOK
    <3> HIDE DEF rows
    <3> QED BY <2>1, <3>1, LastOffsetChoice
  <2>3. pending' = [pending EXCEPT ![w] =
            [p \in Partitions |-> LastOffset(rows, p, pending[w][p])]]
    BY <1>1
  <2> QED BY <2>2, <2>3 DEF TypeOK
<1>5. pc' \in [Workers -> Locations]
  BY <1>1 DEF TypeOK, Locations
<1> QED
  BY <1>2, <1>3, <1>4, <1>5 DEF Poll, TypeOK, broker, tables, counters

\* A flush, whichever way it ends, adds buffered rows to the tables, and puts
\* them all there when it leaves the buffer empty.
LEMMA InsertEffect ==
    ASSUME TypeOK, NEW w \in Workers, InsertOk(w) \/ InsertRaises(w)
    PROVE  /\ \E S \in SUBSET Buffered(w) : events' = events \cup S
           /\ kpi' \in [Records -> Nat]
           /\ faults' \in 0 .. MaxFaults
           /\ \/ buffer' = buffer /\ pc'[w] \notin {"commit", "finalCommit"}
              \/ /\ buffer' = [buffer EXCEPT ![w] = EmptyBuffer]
                 /\ events' = events \cup Buffered(w)
           /\ pc' \in [Workers -> Locations]
           /\ \A v \in Workers \ {w} : pc'[v] = pc[v]
<1>1. ASSUME NEW S \in SUBSET Buffered(w), StoreRows(w, S)
      PROVE  events' = events \cup S /\ kpi' \in [Records -> Nat]
  BY <1>1 DEF StoreRows, TypeOK
<1>2. CASE InsertOk(w)
  <2>1. StoreRows(w, Buffered(w))
    BY <1>2 DEF InsertOk
  <2> QED BY <1>1, <1>2, <2>1 DEF InsertOk, TypeOK, Locations, counters
<1>3. CASE InsertRaises(w)
  <2>1. \/ UNCHANGED <<events, kpi, faults>>
        \/ /\ faults < MaxFaults
           /\ faults' = faults + 1
           /\ \E S \in SUBSET Buffered(w) : StoreRows(w, S)
    BY <1>3 DEF InsertRaises, tables
  <2>2. buffer' = buffer
    BY <1>3 DEF InsertRaises, RestoredBuffer, TypeOK
  <2>3. /\ pc' \in [Workers -> Locations]
        /\ pc'[w] \in {"finalInsert", "closing"}
        /\ \A v \in Workers \ {w} : pc'[v] = pc[v]
    BY <1>3 DEF InsertRaises, AfterRaise, TypeOK, Locations
  <2>4. CASE UNCHANGED <<events, kpi, faults>>
    <3>1. {} \in SUBSET Buffered(w) /\ events' = events \cup {}
      BY <2>4
    <3>2. kpi' \in [Records -> Nat] /\ faults' \in 0 .. MaxFaults
      BY <2>4 DEF TypeOK
    <3> QED BY <2>2, <2>3, <3>1, <3>2
  <2>5. CASE /\ faults < MaxFaults
             /\ faults' = faults + 1
             /\ \E S \in SUBSET Buffered(w) : StoreRows(w, S)
    <3>1. faults' \in 0 .. MaxFaults
      BY <2>5 DEF TypeOK
    <3> QED BY <1>1, <2>2, <2>3, <2>5, <3>1
  <2> QED BY <2>1, <2>4, <2>5
<1> QED BY <1>2, <1>3

\* A commit, whichever way it ends, moves some pending partitions to the
\* offset after the pending one and leaves the others alone.
LEMMA CommitEffect ==
    ASSUME TypeOK, NEW w \in Workers, CommitOk(w) \/ CommitRaises(w)
    PROVE  /\ \E S \in SUBSET PendingPartitions(w) : committed' = Applied(w, S)
           /\ committed' \in [Partitions -> 0 .. MaxLog]
           /\ faults' \in 0 .. MaxFaults
           /\ \/ pending' = pending
              \/ pending' = [pending EXCEPT ![w] = NoPending]
<1>1. \E S \in SUBSET PendingPartitions(w) : committed' = Applied(w, S)
  <2>1. CASE CommitOk(w)
    BY <2>1 DEF CommitOk
  <2>2. CASE CommitRaises(w)
    <3>1. CASE UNCHANGED committed
      <4>1. committed' = Applied(w, {})
        BY <3>1 DEF Applied, TypeOK
      <4> QED BY <4>1
    <3>2. CASE \E S \in SUBSET PendingPartitions(w) : committed' = Applied(w, S)
      BY <3>2
    <3> QED BY <2>2, <3>1, <3>2 DEF CommitRaises
  <2> QED BY <2>1, <2>2
<1>2. \A p \in PendingPartitions(w) : CommitOffset(w, p) \in 0 .. MaxLog
  BY DEF TypeOK, PendingPartitions, CommitOffset, Offsets, NoOffset
<1>3. committed' \in [Partitions -> 0 .. MaxLog]
  BY <1>1, <1>2 DEF Applied, TypeOK
<1>4. faults' \in 0 .. MaxFaults
  BY DEF CommitOk, CommitRaises, counters, TypeOK
<1>5. pending' = pending \/ pending' = [pending EXCEPT ![w] = NoPending]
  BY DEF CommitOk, CommitRaises, memory
<1> QED BY <1>1, <1>3, <1>4, <1>5

LEMMA TypeStep == TypeOK /\ [Next]_vars => TypeOK'
<1> SUFFICES ASSUME TypeOK, [Next]_vars PROVE TypeOK'
  OBVIOUS
<1>1. ASSUME NEW p \in Partitions, Append(p) PROVE TypeOK'
  BY <1>1 DEF Append, TypeOK, tables, memory, counters
<1>2. ASSUME NEW w \in Workers, JoinGroup(w) PROVE TypeOK'
  <2>1. PICK gained \in SUBSET Owned(NoWorker) :
          /\ owner' = [p \in Partitions |-> IF p \in gained THEN w ELSE owner[p]]
          /\ assigned' = [assigned EXCEPT ![w] = Owned(w) \cup gained]
          /\ position' = [position EXCEPT ![w] =
                 [p \in Partitions |->
                    IF p \in Owned(w) \cup gained THEN ResumeOffset(p) ELSE @[p]]]
          /\ rebalances' = rebalances + (IF Owned(w) # {} THEN 1 ELSE 0)
    BY <1>2 DEF JoinGroup
  <2>2. owner' \in [Partitions -> Workers \cup {NoWorker}]
    BY <2>1 DEF TypeOK
  <2>3. assigned' \in [Workers -> SUBSET Partitions]
    BY <2>1 DEF TypeOK, Owned
  <2>4. position' \in [Workers -> [Partitions -> 0 .. MaxLog]]
    BY <2>1 DEF TypeOK, ResumeOffset
  <2>5. rebalances' \in Nat
    BY <2>1 DEF TypeOK
  <2> QED BY <1>2, <2>2, <2>3, <2>4, <2>5 DEF JoinGroup, TypeOK, tables
<1>3. ASSUME NEW w \in Workers, Evict(w) PROVE TypeOK'
  BY <1>3 DEF Evict, TypeOK, tables, memory
<1>4. ASSUME NEW w \in Workers, Start(w) PROVE TypeOK'
  BY <1>4 DEF Start, TypeOK, Locations, broker, tables, memory, counters
<1>5. ASSUME NEW w \in Workers, Poll(w) PROVE TypeOK'
  BY <1>5, PollType
<1>6. ASSUME NEW w \in Workers, LeaveLoop(w) PROVE TypeOK'
  BY <1>6 DEF LeaveLoop, TypeOK, Locations, broker, tables, memory, counters
<1>7. ASSUME NEW w \in Workers, InsertOk(w) \/ InsertRaises(w) PROVE TypeOK'
  <2>1. events' \subseteq Records
    BY <1>7, InsertEffect DEF TypeOK, Buffered
  <2>2. buffer' \in [Workers -> [Records -> Nat]]
    <3>1. buffer' = buffer \/ buffer' = [buffer EXCEPT ![w] = EmptyBuffer]
      BY <1>7, InsertEffect
    <3>2. EmptyBuffer \in [Records -> Nat]
      BY DEF EmptyBuffer
    <3> QED BY <3>1, <3>2 DEF TypeOK
  <2>3. UNCHANGED <<broker, assigned, position, pending, stop, rebalances, stops>>
    BY <1>7 DEF InsertOk, InsertRaises, counters
  <2> QED BY <1>7, <2>1, <2>2, <2>3, InsertEffect DEF TypeOK, broker
<1>9. ASSUME NEW w \in Workers, CommitOk(w) \/ CommitRaises(w) PROVE TypeOK'
  <2>1. pending' \in [Workers -> [Partitions -> Offsets \cup {NoOffset}]]
    <3>1. pending' = pending \/ pending' = [pending EXCEPT ![w] = NoPending]
      BY <1>9, CommitEffect
    <3>2. NoPending \in [Partitions -> Offsets \cup {NoOffset}]
      BY DEF NoPending
    <3> QED BY <3>1, <3>2 DEF TypeOK
  <2>2. pc' \in [Workers -> Locations]
    BY <1>9 DEF CommitOk, CommitRaises, AfterRaise, TypeOK, Locations
  <2>3. UNCHANGED <<logEnd, owner, tables, assigned, position, buffer, stop,
                    rebalances, stops>>
    BY <1>9 DEF CommitOk, CommitRaises, counters, memory
  <2> QED BY <1>9, <2>1, <2>2, <2>3, CommitEffect DEF TypeOK, tables
<1>11. ASSUME NEW w \in Workers, RequestStop(w) PROVE TypeOK'
  BY <1>11 DEF RequestStop, TypeOK, broker, tables, memory
<1>12. ASSUME NEW w \in Workers, ProcessEnds(w), faults' \in 0 .. MaxFaults
       PROVE TypeOK'
  <2>1. buffer' \in [Workers -> [Records -> Nat]]
    BY <1>12 DEF ProcessEnds, TypeOK, EmptyBuffer
  <2>2. pending' \in [Workers -> [Partitions -> Offsets \cup {NoOffset}]]
    BY <1>12 DEF ProcessEnds, TypeOK, NoPending
  <2>3. position' \in [Workers -> [Partitions -> 0 .. MaxLog]]
    BY <1>12 DEF ProcessEnds, TypeOK
  <2>4. owner' \in [Partitions -> Workers \cup {NoWorker}]
    BY <1>12 DEF ProcessEnds, TypeOK
  <2> QED BY <1>12, <2>1, <2>2, <2>3, <2>4 DEF ProcessEnds, TypeOK, Locations, tables
<1>13. ASSUME NEW w \in Workers, Close(w) PROVE TypeOK'
  BY <1>12, <1>13 DEF Close, TypeOK
<1>14. ASSUME NEW w \in Workers, Crash(w) PROVE TypeOK'
  BY <1>12, <1>14 DEF Crash, TypeOK
<1>15. CASE UNCHANGED vars
  BY <1>15 DEF TypeOK, vars, broker, tables, memory, counters
<1> QED
  BY <1>1, <1>2, <1>3, <1>4, <1>5, <1>6, <1>7, <1>9, <1>11,
     <1>13, <1>14, <1>15 DEF Next, WorkerStep

\* Every variable of the consumer keeps its type, for every log, every number
\* of workers and every bound on faults.
THEOREM TypeCorrect == Spec => []TypeOK
BY TypeInit, TypeStep, PTL DEF Spec

-----------------------------------------------------------------------------
(* No loss.                                                                *)

\* What one turn of the loop does to its worker's memory.
LEMMA PollEffect ==
    ASSUME TypeOK, NEW w \in Workers, Poll(w)
    PROVE  \E n \in Fetchable(w) :
             /\ \A p \in Partitions : position'[w][p] = position[w][p] + n[p]
             /\ \A r \in Records : buffer'[w][r] =
                    buffer[w][r] + (IF r \in NewRows(w, n) THEN 1 ELSE 0)
             /\ \A p \in Partitions : pending'[w][p] =
                    LastOffset(NewRows(w, n), p, pending[w][p])
             /\ pc'[w] \in {"insert", "poll"}
             /\ \A v \in Workers \ {w} :
                    /\ position'[v] = position[v] /\ buffer'[v] = buffer[v]
                    /\ pending'[v] = pending[v] /\ pc'[v] = pc[v]
<1>1. PICK n \in Fetchable(w), elapsed \in BOOLEAN :
        LET rows == NewRows(w, n)
            buf == [r \in Records |-> buffer[w][r] + (IF r \in rows THEN 1 ELSE 0)]
        IN  /\ position' = [position EXCEPT ![w] =
                               [p \in Partitions |-> @[p] + n[p]]]
            /\ buffer' = [buffer EXCEPT ![w] = buf]
            /\ pending' = [pending EXCEPT ![w] =
                               [p \in Partitions |-> LastOffset(rows, p, @[p])]]
            /\ pc' = [pc EXCEPT ![w] =
                   IF ShouldFlush(SumFunction(buf), elapsed) THEN "insert" ELSE "poll"]
  BY Zenon DEF Poll
<1> HIDE DEF NewRows
<1>2. \A p \in Partitions : position'[w][p] = position[w][p] + n[p]
  BY <1>1 DEF TypeOK
<1>3. \A r \in Records : buffer'[w][r] =
          buffer[w][r] + (IF r \in NewRows(w, n) THEN 1 ELSE 0)
  BY <1>1 DEF TypeOK
<1>4. \A p \in Partitions : pending'[w][p] =
          LastOffset(NewRows(w, n), p, pending[w][p])
  BY <1>1 DEF TypeOK
<1>5. pc'[w] \in {"insert", "poll"}
  BY <1>1 DEF TypeOK
<1>6. \A v \in Workers \ {w} :
          /\ position'[v] = position[v] /\ buffer'[v] = buffer[v]
          /\ pending'[v] = pending[v] /\ pc'[v] = pc[v]
  BY <1>1 DEF TypeOK
<1> QED BY <1>2, <1>3, <1>4, <1>5, <1>6

\* A poll keeps the invariant: what it moves past is in the buffer.
LEMMA PollInv ==
    ASSUME DataInv, NEW w \in Workers, Poll(w)
    PROVE  NoLoss' /\ PassedIsCovered' /\ CommitsWithEmptyBuffer' /\ WithinLog'
<1> USE DEF DataInv
<1>1. UNCHANGED <<logEnd, committed, events>>
  BY DEF Poll, broker, tables
<1>2. PICK n \in Fetchable(w) :
        /\ \A p \in Partitions : position'[w][p] = position[w][p] + n[p]
        /\ \A r \in Records : buffer'[w][r] =
               buffer[w][r] + (IF r \in NewRows(w, n) THEN 1 ELSE 0)
        /\ \A p \in Partitions : pending'[w][p] =
               LastOffset(NewRows(w, n), p, pending[w][p])
        /\ pc'[w] \in {"insert", "poll"}
        /\ \A v \in Workers \ {w} :
               /\ position'[v] = position[v] /\ buffer'[v] = buffer[v]
               /\ pending'[v] = pending[v] /\ pc'[v] = pc[v]
  BY PollEffect
<1> DEFINE rows == NewRows(w, n)
<1>3. /\ rows \in SUBSET Records /\ rows \subseteq WellFormed
      /\ \A r \in Records : r \in rows <=>
            r \in WellFormed /\ position[w][r[1]] <= r[2]
                             /\ r[2] < position'[w][r[1]]
  BY <1>2 DEF NewRows, WellFormed, Records
<1>4. ASSUME NEW p \in Partitions
      PROVE  /\ n[p] \in Nat
             /\ position[w][p] \in Nat /\ position'[w][p] \in Nat
             /\ position[w][p] <= position'[w][p]
             /\ position'[w][p] <= logEnd[p]
  <2>1. n[p] \in 0 .. BatchMax /\ (n[p] > 0 => position[w][p] + n[p] <= logEnd[p])
    BY DEF Fetchable
  <2>2. position[w][p] \in 0 .. MaxLog /\ position[w][p] <= logEnd[p]
    BY DEF TypeOK, WithinLog
  <2> QED BY <1>2, <2>1, <2>2
<1>5. ASSUME NEW p \in Partitions
      PROVE  pending'[w][p] = pending[w][p] \/ <<p, pending'[w][p]>> \in rows
  <2>1. rows \in SUBSET Records
    BY <1>3
  <2>2. pending'[w][p] = LastOffset(rows, p, pending[w][p])
    BY <1>2
  <2> HIDE DEF rows
  <2> QED BY <2>1, <2>2, LastOffsetChoice
<1> HIDE DEF rows
<1>6. NoLoss'
  BY <1>1 DEF NoLoss
<1>7. PassedIsCovered'
  <2> SUFFICES ASSUME NEW v \in Workers, NEW r \in WellFormed,
                      r[2] < position'[v][r[1]] \/ r[2] <= pending'[v][r[1]]
               PROVE  r \in events \/ buffer'[v][r] > 0
    BY <1>1 DEF PassedIsCovered, Covered
  <2>1. CASE v # w
    BY <1>2, <2>1 DEF PassedIsCovered, Covered
  <2>2. CASE v = w
    <3>1. r \in Records /\ r[1] \in Partitions /\ r[2] \in Nat
      BY DEF WellFormed, Records, Offsets
    <3>2. buffer[w][r] \in Nat
      BY <3>1 DEF TypeOK
    <3>3. CASE r[2] < position[w][r[1]] \/ r[2] <= pending[w][r[1]]
      <4>1. r \in events \/ buffer[w][r] > 0
        BY <3>3 DEF PassedIsCovered, Covered
      <4>2. buffer'[w][r] >= buffer[w][r]
        BY <1>2, <3>1, <3>2
      <4>3. buffer'[w][r] \in Nat
        BY <1>2, <3>1, <3>2
      <4> QED BY <2>2, <3>2, <4>1, <4>2, <4>3
    <3>4. CASE ~(r[2] < position[w][r[1]] \/ r[2] <= pending[w][r[1]])
      <4>1. r[2] < position'[w][r[1]]
        <5>1. CASE <<r[1], pending'[w][r[1]]>> \in rows
          <6>1. /\ <<r[1], pending'[w][r[1]]>> \in Records
                /\ pending'[w][r[1]] < position'[w][r[1]]
                /\ pending'[w][r[1]] \in Nat
            BY <1>3, <5>1 DEF Records, Offsets
          <6> QED BY <1>4, <2>2, <3>1, <6>1
        <5>2. CASE pending'[w][r[1]] = pending[w][r[1]]
          BY <2>2, <3>4, <5>2
        <5> QED BY <1>5, <3>1, <5>1, <5>2
      <4>2. r \in rows
        BY <1>3, <1>4, <3>1, <3>4, <4>1
      <4> QED BY <1>2, <2>2, <3>1, <3>2, <4>2 DEF rows
    <3> QED BY <3>3, <3>4
  <2> QED BY <2>1, <2>2
<1>8. CommitsWithEmptyBuffer'
  BY <1>2 DEF CommitsWithEmptyBuffer
<1>9. WithinLog'
  <2>1. \A v \in Workers, p \in Partitions :
          position'[v][p] <= logEnd[p] /\ pending'[v][p] < logEnd[p]
    <3> SUFFICES ASSUME NEW v \in Workers, NEW p \in Partitions
                 PROVE  position'[v][p] <= logEnd[p] /\ pending'[v][p] < logEnd[p]
      OBVIOUS
    <3>1. CASE v # w
      BY <1>2, <3>1 DEF WithinLog
    <3>2. CASE v = w
      <4>1. CASE <<p, pending'[w][p]>> \in rows
        <5>1. <<p, pending'[w][p]>> \in Records /\ pending'[w][p] < position'[w][p]
              /\ pending'[w][p] \in Nat
          BY <1>3, <4>1 DEF Records, Offsets
        <5>2. logEnd[p] \in Nat
          BY DEF TypeOK
        <5> QED BY <1>4, <3>2, <5>1, <5>2
      <4>2. CASE pending'[w][p] = pending[w][p]
        BY <1>4, <3>2, <4>2 DEF WithinLog
      <4> QED BY <1>5, <4>1, <4>2
    <3> QED BY <3>1, <3>2
  <2>2. \A v \in Workers : Buffered(v)' \subseteq Published \ Malformed
    <3> SUFFICES ASSUME NEW v \in Workers, NEW r \in Records, buffer'[v][r] > 0
                 PROVE  r \in Published \ Malformed
      BY DEF Buffered
    <3>1. CASE v # w
      BY <1>2, <3>1 DEF WithinLog, Buffered
    <3>2. CASE v = w /\ r \in rows
      <4>1. r[1] \in Partitions /\ r[2] \in Nat /\ logEnd[r[1]] \in Nat
        BY DEF Records, Offsets, TypeOK
      <4>2. r[2] < position'[w][r[1]]
        BY <1>3, <3>2
      <4>3. r[2] < logEnd[r[1]]
        BY <1>4, <4>1, <4>2
      <4> QED BY <1>3, <3>2, <4>3 DEF Published, WellFormed
    <3>3. CASE v = w /\ r \notin rows
      <4>1. buffer[w][r] \in Nat /\ buffer'[w][r] = buffer[w][r] + 0
        BY <1>2, <3>3 DEF TypeOK, rows
      <4> QED BY <3>3, <4>1 DEF WithinLog, Buffered
    <3> QED BY <3>1, <3>2, <3>3
  <2> QED BY <1>1, <2>1, <2>2 DEF WithinLog, Published
<1> QED BY <1>6, <1>7, <1>8, <1>9

\* An insert keeps the invariant: its rows are in the store or still buffered.
LEMMA InsertInv ==
    ASSUME DataInv, NEW w \in Workers, InsertOk(w) \/ InsertRaises(w)
    PROVE  NoLoss' /\ PassedIsCovered' /\ CommitsWithEmptyBuffer' /\ WithinLog'
<1> USE DEF DataInv
<1>1. UNCHANGED <<logEnd, committed, position, pending>>
  BY DEF InsertOk, InsertRaises, broker
<1>2. PICK S \in SUBSET Buffered(w) : events' = events \cup S
  BY InsertEffect
<1>3. \/ buffer' = buffer /\ pc'[w] \notin {"commit", "finalCommit"}
      \/ /\ buffer' = [buffer EXCEPT ![w] = EmptyBuffer]
         /\ events' = events \cup Buffered(w)
  BY InsertEffect
<1>4. \A v \in Workers \ {w} : pc'[v] = pc[v] /\ buffer'[v] = buffer[v]
  BY <1>3, InsertEffect DEF TypeOK
<1>5. buffer'[w] = buffer[w] \/ (buffer'[w] = EmptyBuffer /\ Buffered(w) \subseteq events')
  BY <1>3 DEF TypeOK
<1>6. NoLoss'
  BY <1>1, <1>2 DEF NoLoss
<1>7. PassedIsCovered'
  <2> SUFFICES ASSUME NEW v \in Workers, NEW r \in WellFormed, Covered(v, r)
               PROVE  r \in events' \/ buffer'[v][r] > 0
    BY <1>1 DEF PassedIsCovered, Covered
  <2>1. CASE v # w \/ buffer'[v] = buffer[v]
    BY <1>2, <1>4, <2>1 DEF Covered
  <2>2. CASE v = w /\ Buffered(w) \subseteq events'
    BY <1>2, <2>2 DEF Covered, Buffered, WellFormed
  <2> QED BY <1>5, <2>1, <2>2
<1>8. CommitsWithEmptyBuffer'
  <2> SUFFICES ASSUME NEW v \in Workers, pc'[v] \in {"commit", "finalCommit"}
               PROVE  buffer'[v] = EmptyBuffer
    BY DEF CommitsWithEmptyBuffer, EmptyBuffer
  <2>1. CASE v # w
    BY <1>4, <2>1 DEF CommitsWithEmptyBuffer
  <2>2. CASE v = w
    BY <1>3, <2>2 DEF TypeOK
  <2> QED BY <2>1, <2>2
<1>9. WithinLog'
  <2>1. \A v \in Workers : Buffered(v)' \subseteq Buffered(v)
    BY <1>4, <1>5 DEF Buffered, EmptyBuffer
  <2>2. events' \subseteq Published \ Malformed
    BY <1>2 DEF WithinLog
  <2> QED BY <1>1, <2>1, <2>2 DEF WithinLog, Published
<1> QED BY <1>6, <1>7, <1>8, <1>9

\* A commit keeps the invariant: with an empty buffer, what the worker has
\* noted as pending is in the store.
LEMMA CommitInv ==
    ASSUME DataInv, NEW w \in Workers, CommitOk(w) \/ CommitRaises(w)
    PROVE  NoLoss' /\ PassedIsCovered' /\ CommitsWithEmptyBuffer' /\ WithinLog'
<1> USE DEF DataInv
<1>1. UNCHANGED <<logEnd, events, position, buffer>>
  BY DEF CommitOk, CommitRaises, tables, memory
<1>2. PICK S \in SUBSET PendingPartitions(w) : committed' = Applied(w, S)
  BY CommitEffect
<1>3. pending' = pending \/ pending' = [pending EXCEPT ![w] = NoPending]
  BY CommitEffect
<1>4. \A v \in Workers, p \in Partitions :
        pending'[v][p] = pending[v][p] \/ pending'[v][p] = NoOffset
  <2>1. pending \in [Workers -> [Partitions -> Offsets \cup {NoOffset}]]
    BY DEF TypeOK
  <2>2. \A v \in Workers : pending'[v] = pending[v] \/ pending'[v] = NoPending
    BY ONLY <1>3, <2>1
  <2>3. \A p \in Partitions : NoPending[p] = NoOffset
    BY ONLY DEF NoPending
  <2> QED BY ONLY <2>2, <2>3
<1>5. buffer[w] = EmptyBuffer
  BY DEF CommitOk, CommitRaises, CommitsWithEmptyBuffer
<1>6. \A p \in S : /\ committed'[p] = pending[w][p] + 1
                   /\ pending[w][p] \in Nat
                   /\ pending[w][p] < logEnd[p] /\ logEnd[p] \in Nat
  <2> SUFFICES ASSUME NEW p \in S
               PROVE  /\ committed'[p] = pending[w][p] + 1
                      /\ pending[w][p] \in Nat
                      /\ pending[w][p] < logEnd[p] /\ logEnd[p] \in Nat
    OBVIOUS
  <2>1. p \in Partitions /\ pending[w][p] # NoOffset
    BY DEF PendingPartitions
  <2> QED BY <1>2, <2>1 DEF Applied, CommitOffset, TypeOK, Offsets, WithinLog
<1>7. \A p \in Partitions \ S : committed'[p] = committed[p]
  BY <1>2 DEF Applied
<1>8. NoLoss'
  <2> SUFFICES ASSUME NEW r \in WellFormed, r[2] < committed'[r[1]]
               PROVE  r \in events
    BY <1>1 DEF NoLoss
  <2>1. r \in Records /\ r[1] \in Partitions /\ r[2] \in Nat
    BY DEF WellFormed, Records, Offsets
  <2>2. CASE r[1] \in S
    <3>1. r[2] <= pending[w][r[1]]
      BY <1>6, <2>1, <2>2
    <3>2. r \in events \/ buffer[w][r] > 0
      BY <3>1 DEF PassedIsCovered, Covered
    <3>3. buffer[w][r] = 0
      BY <1>5, <2>1 DEF EmptyBuffer
    <3> QED BY <3>2, <3>3
  <2>3. CASE r[1] \notin S
    BY <1>7, <2>1, <2>3 DEF NoLoss
  <2> QED BY <2>2, <2>3
<1>9. PassedIsCovered'
  <2> SUFFICES ASSUME NEW v \in Workers, NEW r \in WellFormed,
                      r[2] < position[v][r[1]] \/ r[2] <= pending'[v][r[1]]
               PROVE  Covered(v, r)
    BY <1>1 DEF PassedIsCovered, Covered
  <2>1. r[1] \in Partitions /\ r[2] \in Nat
    BY DEF WellFormed, Records, Offsets
  <2>2. r[2] < position[v][r[1]] \/ r[2] <= pending[v][r[1]]
    BY <1>4, <2>1 DEF NoOffset
  <2> QED BY <2>2 DEF PassedIsCovered
<1>10. CommitsWithEmptyBuffer'
  <2> SUFFICES ASSUME NEW v \in Workers, pc'[v] \in {"commit", "finalCommit"}
               PROVE  buffer[v] = EmptyBuffer
    BY <1>1 DEF CommitsWithEmptyBuffer, EmptyBuffer
  <2>1. CASE v # w
    BY <2>1 DEF CommitOk, CommitRaises, TypeOK, CommitsWithEmptyBuffer
  <2> QED BY <1>5, <2>1
<1>11. WithinLog'
  <2>1. \A p \in Partitions : committed'[p] <= logEnd[p]
    BY <1>6, <1>7 DEF WithinLog, TypeOK
  <2>2. \A v \in Workers, p \in Partitions : pending'[v][p] < logEnd[p]
    <3> SUFFICES ASSUME NEW v \in Workers, NEW p \in Partitions
                 PROVE  pending'[v][p] < logEnd[p]
      OBVIOUS
    <3>1. pending[v][p] < logEnd[p] /\ logEnd[p] \in 0 .. MaxLog
      BY DEF WithinLog, TypeOK
    <3> QED BY <1>4, <3>1 DEF NoOffset
  <2> QED BY <1>1, <2>1, <2>2 DEF WithinLog, Published, Buffered
<1> QED BY <1>8, <1>9, <1>10, <1>11

\* A rebalance keeps the invariant: a worker resumes from committed offsets,
\* below which everything is in the store.
LEMMA JoinInv ==
    ASSUME DataInv, NEW w \in Workers, JoinGroup(w)
    PROVE  NoLoss' /\ PassedIsCovered' /\ CommitsWithEmptyBuffer' /\ WithinLog'
<1> USE DEF DataInv
<1>1. UNCHANGED <<logEnd, committed, events, pc, buffer, pending>>
  BY DEF JoinGroup, tables
<1>2. \A v \in Workers, p \in Partitions :
        position'[v][p] = position[v][p] \/ position'[v][p] = committed[p]
  BY DEF JoinGroup, TypeOK, ResumeOffset
<1>3. NoLoss'
  BY <1>1 DEF NoLoss
<1>4. PassedIsCovered'
  <2> SUFFICES ASSUME NEW v \in Workers, NEW r \in WellFormed,
                      r[2] < position'[v][r[1]] \/ r[2] <= pending[v][r[1]]
               PROVE  Covered(v, r)
    BY <1>1 DEF PassedIsCovered, Covered
  <2>1. r[1] \in Partitions
    BY DEF WellFormed, Records
  <2>2. CASE position'[v][r[1]] = position[v][r[1]]
    BY <2>2 DEF PassedIsCovered
  <2>3. CASE position'[v][r[1]] = committed[r[1]]
    BY <2>3 DEF PassedIsCovered, NoLoss, Covered
  <2> QED BY <1>2, <2>1, <2>2, <2>3
<1>5. CommitsWithEmptyBuffer'
  BY <1>1 DEF CommitsWithEmptyBuffer, EmptyBuffer
<1>6. WithinLog'
  <2>1. \A v \in Workers, p \in Partitions : position'[v][p] <= logEnd[p]
    BY <1>2 DEF WithinLog
  <2> QED BY <1>1, <2>1 DEF WithinLog, Published, Buffered
<1> QED BY <1>3, <1>4, <1>5, <1>6

\* The end of a process keeps the invariant: it has passed nothing any more.
LEMMA EndInv ==
    ASSUME DataInv, NEW w \in Workers, ProcessEnds(w)
    PROVE  NoLoss' /\ PassedIsCovered' /\ CommitsWithEmptyBuffer' /\ WithinLog'
<1> USE DEF DataInv
<1>1. UNCHANGED <<logEnd, committed, events>>
  BY DEF ProcessEnds, tables
<1>2. /\ \A p \in Partitions : position'[w][p] = 0 /\ pending'[w][p] = NoOffset
      /\ buffer'[w] = EmptyBuffer /\ pc'[w] = "down"
      /\ \A v \in Workers \ {w} :
            /\ position'[v] = position[v] /\ buffer'[v] = buffer[v]
            /\ pending'[v] = pending[v] /\ pc'[v] = pc[v]
  BY DEF ProcessEnds, TypeOK, NoPending
<1>3. NoLoss'
  BY <1>1 DEF NoLoss
<1>4. PassedIsCovered'
  <2> SUFFICES ASSUME NEW v \in Workers, NEW r \in WellFormed,
                      r[2] < position'[v][r[1]] \/ r[2] <= pending'[v][r[1]]
               PROVE  r \in events \/ buffer'[v][r] > 0
    BY <1>1 DEF PassedIsCovered, Covered
  <2>1. r[1] \in Partitions /\ r[2] \in Nat
    BY DEF WellFormed, Records, Offsets
  <2>2. v # w
    BY <1>2, <2>1 DEF NoOffset
  <2> QED BY <1>2, <2>2 DEF PassedIsCovered, Covered
<1>5. CommitsWithEmptyBuffer'
  BY <1>2 DEF CommitsWithEmptyBuffer, EmptyBuffer
<1>6. WithinLog'
  <2>1. \A v \in Workers, p \in Partitions :
          position'[v][p] <= logEnd[p] /\ pending'[v][p] < logEnd[p]
    <3> SUFFICES ASSUME NEW v \in Workers, NEW p \in Partitions
                 PROVE  position'[v][p] <= logEnd[p] /\ pending'[v][p] < logEnd[p]
      OBVIOUS
    <3>1. /\ position[v][p] <= logEnd[p] /\ pending[v][p] < logEnd[p]
          /\ logEnd[p] \in 0 .. MaxLog
      BY DEF WithinLog, TypeOK
    <3> QED BY <1>2, <3>1 DEF NoOffset
  <2>2. \A v \in Workers : Buffered(v)' \subseteq Buffered(v)
    BY <1>2 DEF Buffered, EmptyBuffer
  <2> QED BY <1>1, <2>1, <2>2 DEF WithinLog, Published
<1> QED BY <1>3, <1>4, <1>5, <1>6

LEMMA DataInit == Init => DataInv
<1> SUFFICES ASSUME Init PROVE DataInv
  OBVIOUS
<1>1. TypeOK
  BY TypeInit
<1>2. \A w \in Workers, p \in Partitions :
        position[w][p] = 0 /\ pending[w][p] = NoOffset
  BY DEF Init, NoPending
<1>3. NoLoss
  BY DEF Init, NoLoss, WellFormed, Records, Offsets
<1>4. PassedIsCovered
  BY <1>2 DEF PassedIsCovered, WellFormed, Records, Offsets, NoOffset
<1>5. CommitsWithEmptyBuffer
  BY DEF Init, CommitsWithEmptyBuffer
<1>6. WithinLog
  BY <1>2 DEF Init, WithinLog, Buffered, EmptyBuffer, NoOffset
<1> QED BY <1>1, <1>3, <1>4, <1>5, <1>6 DEF DataInv

LEMMA DataStep == DataInv /\ [Next]_vars => DataInv'
<1> SUFFICES ASSUME DataInv, [Next]_vars
             PROVE  NoLoss' /\ PassedIsCovered' /\ CommitsWithEmptyBuffer' /\ WithinLog'
  BY TypeStep DEF DataInv
<1> USE DEF DataInv
\* Steps that touch neither a worker's memory nor the committed offsets, and
\* start no commit.
<1>1. ASSUME UNCHANGED <<logEnd, committed, events, position, buffer, pending>>,
             \A w \in Workers : pc'[w] \in {"commit", "finalCommit"} => pc'[w] = pc[w]
      PROVE  NoLoss' /\ PassedIsCovered' /\ CommitsWithEmptyBuffer' /\ WithinLog'
  <2>1. NoLoss' /\ PassedIsCovered'
    BY <1>1 DEF NoLoss, PassedIsCovered, Covered
  <2>2. CommitsWithEmptyBuffer'
    BY <1>1 DEF CommitsWithEmptyBuffer, EmptyBuffer
  <2>3. WithinLog'
    BY <1>1 DEF WithinLog, Published, Buffered
  <2> QED BY <2>1, <2>2, <2>3
<1>2. ASSUME NEW p \in Partitions, Append(p)
      PROVE  NoLoss' /\ PassedIsCovered' /\ CommitsWithEmptyBuffer' /\ WithinLog'
  <2>1. UNCHANGED <<committed, events, position, buffer, pending, pc>>
    BY <1>2 DEF Append, tables, memory
  <2>2. \A q \in Partitions : logEnd[q] <= logEnd'[q] /\ logEnd[q] \in Nat /\ logEnd'[q] \in Nat
    BY <1>2 DEF Append, TypeOK
  <2>3. NoLoss' /\ PassedIsCovered'
    BY <2>1 DEF NoLoss, PassedIsCovered, Covered
  <2>4. CommitsWithEmptyBuffer'
    BY <2>1 DEF CommitsWithEmptyBuffer, EmptyBuffer
  <2>5. Published \subseteq Published'
    <3> SUFFICES ASSUME NEW r \in Records, r[2] < logEnd[r[1]]
                 PROVE  r[2] < logEnd'[r[1]]
      BY DEF Published
    <3>1. r[1] \in Partitions /\ r[2] \in Nat
      BY DEF Records, Offsets
    <3> QED BY <2>2, <3>1
  <2>6. ASSUME NEW q \in Partitions
        PROVE  /\ committed[q] <= logEnd'[q]
               /\ \A w \in Workers : position[w][q] <= logEnd'[q] /\ pending[w][q] < logEnd'[q]
    <3>1. committed[q] \in 0 .. MaxLog /\ committed[q] <= logEnd[q]
      BY DEF TypeOK, WithinLog
    <3>2. ASSUME NEW w \in Workers
          PROVE  position[w][q] <= logEnd'[q] /\ pending[w][q] < logEnd'[q]
      <4>1. /\ position[w][q] \in Int /\ pending[w][q] \in Int
            /\ position[w][q] <= logEnd[q] /\ pending[w][q] < logEnd[q]
        BY DEF TypeOK, WithinLog, Offsets, NoOffset
      <4> QED BY <2>2, <4>1
    <3> QED BY <2>2, <3>1, <3>2
  <2>7. WithinLog'
    BY <2>1, <2>5, <2>6 DEF WithinLog, Buffered
  <2> QED BY <2>3, <2>4, <2>7
<1>3. ASSUME NEW w \in Workers, JoinGroup(w)
      PROVE  NoLoss' /\ PassedIsCovered' /\ CommitsWithEmptyBuffer' /\ WithinLog'
  BY <1>3, JoinInv
<1>4. ASSUME NEW w \in Workers,
             Evict(w) \/ Start(w) \/ LeaveLoop(w) \/ RequestStop(w)
      PROVE  NoLoss' /\ PassedIsCovered' /\ CommitsWithEmptyBuffer' /\ WithinLog'
  <2>1. UNCHANGED <<logEnd, committed, events, position, buffer, pending>>
    BY <1>4 DEF Evict, Start, LeaveLoop, RequestStop, broker, tables, memory
  <2>2. \A v \in Workers : pc'[v] \in {"commit", "finalCommit"} => pc'[v] = pc[v]
    BY <1>4 DEF Evict, Start, LeaveLoop, RequestStop, TypeOK
  <2> QED BY <1>1, <2>1, <2>2
<1>5. ASSUME NEW w \in Workers, Poll(w)
      PROVE  NoLoss' /\ PassedIsCovered' /\ CommitsWithEmptyBuffer' /\ WithinLog'
  BY <1>5, PollInv
<1>6. ASSUME NEW w \in Workers, InsertOk(w) \/ InsertRaises(w)
      PROVE  NoLoss' /\ PassedIsCovered' /\ CommitsWithEmptyBuffer' /\ WithinLog'
  BY <1>6, InsertInv
<1>7. ASSUME NEW w \in Workers, CommitOk(w) \/ CommitRaises(w)
      PROVE  NoLoss' /\ PassedIsCovered' /\ CommitsWithEmptyBuffer' /\ WithinLog'
  BY <1>7, CommitInv
<1>8. ASSUME NEW w \in Workers, Close(w) \/ Crash(w)
      PROVE  NoLoss' /\ PassedIsCovered' /\ CommitsWithEmptyBuffer' /\ WithinLog'
  BY <1>8, EndInv DEF Close, Crash
<1>9. CASE UNCHANGED vars
  <2>1. UNCHANGED <<logEnd, committed, events, position, buffer, pending, pc>>
    BY <1>9 DEF vars, broker, tables, memory
  <2> QED BY <1>1, <2>1
<1> QED
  BY <1>2, <1>3, <1>4, <1>5, <1>6, <1>7, <1>8, <1>9 DEF Next, WorkerStep

-----------------------------------------------------------------------------
(* What is in a buffer.                                                    *)

LEMMA RecordsFinite == IsFiniteSet(Records)
<1>1. IsFiniteSet(Offsets)
  BY FS_Interval DEF Offsets
<1> QED BY <1>1, FS_Product DEF Records

\* The rows of one partition in a fetch are at most as many as were fetched.
LEMMA RowsOfPartition ==
    ASSUME TypeOK, NEW w \in Workers, NEW n \in Fetchable(w), NEW p \in Partitions
    PROVE  LET R == {r \in NewRows(w, n) : r[1] = p}
           IN  IsFiniteSet(R) /\ Cardinality(R) <= n[p]
<1> DEFINE R == {r \in NewRows(w, n) : r[1] = p}
           I == position[w][p] .. position[w][p] + n[p] - 1
           offset == [r \in R |-> r[2]]
<1>1. position[w][p] \in Nat /\ n[p] \in Nat
  BY DEF TypeOK, Fetchable
<1>2. IsFiniteSet(I) /\ Cardinality(I) = n[p]
  <2> DEFINE a == position[w][p]
             b == position[w][p] + n[p] - 1
  <2>1. a \in Int /\ b \in Int /\ (IF a > b THEN 0 ELSE b - a + 1) = n[p]
    BY <1>1
  <2>2. I = a .. b
    OBVIOUS
  <2> HIDE DEF a, b, I
  <2>3. IsFiniteSet(a .. b) /\ Cardinality(a .. b) = IF a > b THEN 0 ELSE b - a + 1
    BY <2>1, FS_Interval, Zenon
  <2> QED BY <2>1, <2>2, <2>3
<1>3. \A r \in R : r \in Records /\ r[1] = p /\ r[2] \in I /\ r = <<r[1], r[2]>>
  BY <1>1 DEF NewRows, WellFormed, Records, Offsets
<1>4. offset \in Injection(R, I)
  <2>1. offset \in [R -> I]
    BY <1>3
  <2>2. \A r, s \in R : r[2] = s[2] => r = s
    BY <1>3
  <2> QED BY <2>1, <2>2 DEF Injection, IsInjective
<1> HIDE DEF R, I, offset
<1>5. IsFiniteSet(R) /\ Cardinality(R) <= Cardinality(I)
  BY <1>2, <1>4, FS_Injection
<1> QED BY <1>2, <1>5 DEF R

\* The rows of a fetch are at most a batch.
LEMMA FetchSize ==
    ASSUME TypeOK, NEW w \in Workers, NEW n \in Fetchable(w)
    PROVE  Cardinality(NewRows(w, n)) <= BatchMax
<1>1. n \in [Partitions -> Nat] /\ SumFunction(n) <= BatchMax
  BY DEF Fetchable
<1>2. PICK h \in [SUBSET Partitions -> Nat] :
        Adds(n, Partitions, h) /\ SumFunction(n) = h[Partitions]
  BY <1>1, SumIs
<1> DEFINE rows == NewRows(w, n)
           On(s) == {r \in rows : r[1] \in s}
           G == {s \in SUBSET Partitions : IsFiniteSet(On(s)) /\ Cardinality(On(s)) <= h[s]}
<1>3. \A s \in SUBSET Partitions : s # {} /\ s \ {Pick(s)} \in G => s \in G
  <2> SUFFICES ASSUME NEW s \in SUBSET Partitions, s # {}, s \ {Pick(s)} \in G
               PROVE  IsFiniteSet(On(s)) /\ Cardinality(On(s)) <= h[s]
    OBVIOUS
  <2> DEFINE A == On(s \ {Pick(s)})
             B == {r \in rows : r[1] = Pick(s)}
  <2>1. Pick(s) \in s /\ Pick(s) \in Partitions
    BY PickIn
  <2>2. h[s] = n[Pick(s)] + h[s \ {Pick(s)}]
    BY <1>2 DEF Adds
  <2>3. IsFiniteSet(B) /\ Cardinality(B) <= n[Pick(s)]
    BY <2>1, RowsOfPartition
  <2>4. IsFiniteSet(A) /\ Cardinality(A) <= h[s \ {Pick(s)}]
    OBVIOUS
  <2>5. On(s) = A \cup B
    BY <2>1
  <2>6. n[Pick(s)] \in Nat /\ h[s \ {Pick(s)}] \in Nat
    BY <1>1, <2>1
  <2> HIDE DEF A, B, On
  <2>7. /\ IsFiniteSet(A \cup B)
        /\ Cardinality(A \cup B) = Cardinality(A) + Cardinality(B) - Cardinality(A \cap B)
    BY <2>3, <2>4, FS_Union, Zenon
  <2>8. IsFiniteSet(A \cap B)
    BY <2>3, FS_Intersection, Zenon
  <2>9. /\ Cardinality(A) \in Nat /\ Cardinality(B) \in Nat
        /\ Cardinality(A \cap B) \in Nat
    BY <2>3, <2>4, <2>8, FS_CardinalityType, Zenon
  <2> QED BY <2>2, <2>3, <2>4, <2>5, <2>6, <2>7, <2>9
<1>4. Partitions \in G
  <2>1. On({}) = {} /\ h[{}] = 0
    BY <1>2 DEF Adds
  <2>2. {} \in G
    <3>1. IsFiniteSet(On({})) /\ Cardinality(On({})) <= h[{}]
      <4> HIDE DEF On
      <4>1. IsFiniteSet(On({})) /\ Cardinality(On({})) = 0
        BY <2>1, FS_EmptySet, Zenon
      <4>2. Cardinality(On({})) = h[{}] /\ h[{}] \in Nat
        BY <2>1, <4>1
      <4> QED BY <4>1, <4>2
    <3> QED BY <3>1
  <2>3. G \in SUBSET SUBSET Partitions
    OBVIOUS
  <2> HIDE DEF G
  <2> QED BY <1>3, <2>2, <2>3, AddsInduction
<1>5. On(Partitions) = rows
  BY DEF NewRows, WellFormed, Records
<1>6. Cardinality(rows) <= SumFunction(n)
  BY <1>2, <1>4, <1>5
<1>7. Cardinality(rows) \in Nat
  <2>1. IsFiniteSet(rows)
    BY <1>4, <1>5
  <2> HIDE DEF rows
  <2> QED BY <2>1, FS_CardinalityType
<1>8. SumFunction(n) \in Nat
  BY <1>1, SumNat
<1> QED BY <1>1, <1>6, <1>7, <1>8

\* A buffer holds so many rows, an empty one none.
LEMMA BufferCounts ==
    ASSUME NEW f \in [Records -> Nat]
    PROVE  SumFunction(f) \in Nat /\ (f = EmptyBuffer => SumFunction(f) = 0)
BY RecordsFinite, SumNat, SumZero DEF EmptyBuffer

\* A poll adds at most a batch to its worker's buffer, and leaves less than a
\* batch there if the worker goes on polling.
LEMMA PollFills ==
    ASSUME TypeOK, NEW w \in Workers, Poll(w)
    PROVE  /\ BufferedRows(w)' <= BufferedRows(w) + BatchMax
           /\ pc'[w] = "poll" => BufferedRows(w)' < BatchMax
           /\ \A v \in Workers \ {w} : buffer'[v] = buffer[v] /\ pc'[v] = pc[v]
<1>1. PICK n \in Fetchable(w), elapsed \in BOOLEAN :
        LET rows == NewRows(w, n)
            buf == [r \in Records |-> buffer[w][r] + (IF r \in rows THEN 1 ELSE 0)]
        IN  /\ position' = [position EXCEPT ![w] =
                               [p \in Partitions |-> @[p] + n[p]]]
            /\ buffer' = [buffer EXCEPT ![w] = buf]
            /\ pending' = [pending EXCEPT ![w] =
                               [p \in Partitions |-> LastOffset(rows, p, @[p])]]
            /\ pc' = [pc EXCEPT ![w] =
                   IF ShouldFlush(SumFunction(buf), elapsed) THEN "insert" ELSE "poll"]
  BY Zenon DEF Poll
<1> DEFINE rows == NewRows(w, n)
           ones == [r \in Records |-> IF r \in rows THEN 1 ELSE 0]
           buf == [r \in Records |-> buffer[w][r] + (IF r \in rows THEN 1 ELSE 0)]
<1>2. /\ buffer[w] \in [Records -> Nat] /\ buf \in [Records -> Nat]
      /\ ones \in [Records -> Nat]
  BY DEF TypeOK
<1>3. \A r \in Records : buf[r] = buffer[w][r] + ones[r]
  OBVIOUS
<1>4. rows \in SUBSET Records
  BY DEF NewRows, WellFormed
<1>5. Cardinality(rows) <= BatchMax
  BY FetchSize
<1>6. buffer'[w] = buf
  BY <1>1 DEF TypeOK
<1>7. pc'[w] = "poll" => SumFunction(buf) < BatchMax
  <2>1. SumFunction(buf) \in Nat
    <3> HIDE DEF buf
    <3> QED BY <1>2, RecordsFinite, SumNat
  <2>2. pc'[w] = IF ShouldFlush(SumFunction(buf), elapsed) THEN "insert" ELSE "poll"
    BY <1>1 DEF TypeOK
  <2> QED BY <2>1, <2>2 DEF ShouldFlush
<1>8. \A v \in Workers \ {w} : buffer'[v] = buffer[v] /\ pc'[v] = pc[v]
  BY <1>1 DEF TypeOK
<1>9. SumFunction(ones) = Cardinality(rows)
  <2> HIDE DEF rows
  <2> QED BY <1>4, RecordsFinite, SumCounts
<1>10. SumFunction(buf) = SumFunction(buffer[w]) + SumFunction(ones)
  <2> HIDE DEF buf, ones
  <2> QED BY <1>2, <1>3, RecordsFinite, SumOfSums
<1>11. SumFunction(buf) <= SumFunction(buffer[w]) + BatchMax
  <2>1. SumFunction(buffer[w]) \in Nat /\ SumFunction(ones) \in Nat
    <3> HIDE DEF ones
    <3> QED BY <1>2, RecordsFinite, SumNat
  <2> HIDE DEF ones, buf, rows
  <2> QED BY <1>5, <1>9, <1>10, <2>1
<1> QED BY <1>6, <1>7, <1>8, <1>11 DEF BufferedRows

LEMMA BuffersInit == Init => BuffersInOrder
<1>1. EmptyBuffer \in [Records -> Nat]
  BY DEF EmptyBuffer
<1>2. SumFunction(EmptyBuffer) = 0
  BY <1>1, BufferCounts
<1> QED BY <1>2 DEF Init, BuffersInOrder, BufferedRows

\* A flush is due as soon as a buffer holds a batch.
LEMMA BuffersStep ==
    ASSUME DataInv, BuffersInOrder, Next
    PROVE  BuffersInOrder'
<1> DEFINE Bound(v) == (IF pc[v] \in {"down", "poll"} THEN 1 ELSE 2) * BatchMax
<1> USE DEF DataInv
<1>1. TypeOK'
  BY TypeStep
<1>2. \A v \in Workers : /\ BufferedRows(v) \in Nat /\ BufferedRows(v)' \in Nat
                         /\ buffer'[v] = EmptyBuffer => BufferedRows(v)' = 0
  <2>1. \A v \in Workers : buffer[v] \in [Records -> Nat] /\ buffer'[v] \in [Records -> Nat]
    BY <1>1 DEF TypeOK
  <2>2. \A v \in Workers : BufferedRows(v)' = SumFunction(buffer'[v])
    BY DEF BufferedRows
  <2> QED BY <2>1, <2>2, BufferCounts DEF BufferedRows
\* Steps that leave a buffer alone or empty it, and do not go back to polling.
<1>3. ASSUME NEW v \in Workers,
             \/ buffer'[v] = EmptyBuffer
             \/ /\ buffer'[v] = buffer[v]
                /\ pc'[v] \in {"down", "poll"} => pc[v] \in {"down", "poll"}
      PROVE  BufferedRows(v)' < Bound(v)'
  <2>1. CASE buffer'[v] = EmptyBuffer
    BY <1>2, <2>1
  <2>2. CASE /\ buffer'[v] = buffer[v]
             /\ pc'[v] \in {"down", "poll"} => pc[v] \in {"down", "poll"}
    BY <1>2, <2>2 DEF BuffersInOrder, BufferedRows
  <2> QED BY <1>3, <2>1, <2>2
<1>4. ASSUME NEW w \in Workers, Poll(w) PROVE BuffersInOrder'
  <2>1. /\ BufferedRows(w)' <= BufferedRows(w) + BatchMax
        /\ pc'[w] = "poll" => BufferedRows(w)' < BatchMax
        /\ \A v \in Workers \ {w} : buffer'[v] = buffer[v] /\ pc'[v] = pc[v]
    BY <1>4, PollFills
  <2>2. BufferedRows(w) < BatchMax /\ pc'[w] # "down"
    BY <1>2, <1>4, PollEffect DEF BuffersInOrder, Poll
  <2>3. BufferedRows(w)' < Bound(w)'
    BY <1>2, <2>1, <2>2
  <2> QED BY <1>3, <2>1, <2>3 DEF BuffersInOrder
<1>5. ASSUME NEW w \in Workers, InsertOk(w) \/ InsertRaises(w) PROVE BuffersInOrder'
  <2>1. \A v \in Workers \ {w} : buffer'[v] = buffer[v] /\ pc'[v] = pc[v]
    BY <1>5, InsertEffect DEF TypeOK
  <2>2. \/ buffer'[w] = EmptyBuffer
        \/ buffer'[w] = buffer[w] /\ pc'[w] \notin {"down", "poll"}
    BY <1>5 DEF InsertOk, InsertRaises, RestoredBuffer, AfterRaise, TypeOK
  <2> QED BY <1>3, <2>1, <2>2 DEF BuffersInOrder
<1>6. ASSUME NEW w \in Workers, CommitOk(w) \/ CommitRaises(w) PROVE BuffersInOrder'
  <2>1. \A v \in Workers \ {w} : buffer'[v] = buffer[v] /\ pc'[v] = pc[v]
    BY <1>6 DEF CommitOk, CommitRaises, memory, TypeOK
  <2>2. buffer'[w] = EmptyBuffer
    BY <1>6 DEF CommitOk, CommitRaises, memory, CommitsWithEmptyBuffer
  <2> QED BY <1>3, <2>1, <2>2 DEF BuffersInOrder
<1>7. ASSUME NEW w \in Workers, Close(w) \/ Crash(w) PROVE BuffersInOrder'
  <2>1. /\ buffer'[w] = EmptyBuffer
        /\ \A v \in Workers \ {w} : buffer'[v] = buffer[v] /\ pc'[v] = pc[v]
    BY <1>7 DEF Close, Crash, ProcessEnds, TypeOK
  <2> QED BY <1>3, <2>1 DEF BuffersInOrder
<1>8. ASSUME NEW w \in Workers,
             Start(w) \/ LeaveLoop(w) \/ JoinGroup(w) \/ Evict(w) \/ RequestStop(w)
      PROVE  BuffersInOrder'
  <2>1. UNCHANGED buffer
    BY <1>8 DEF Start, LeaveLoop, JoinGroup, Evict, RequestStop, memory
  <2>2. \A v \in Workers : pc'[v] \in {"down", "poll"} => pc[v] \in {"down", "poll"}
    BY <1>8 DEF Start, LeaveLoop, JoinGroup, Evict, RequestStop, TypeOK
  <2> QED BY <1>3, <2>1, <2>2 DEF BuffersInOrder
<1>9. ASSUME NEW p \in Partitions, Append(p) PROVE BuffersInOrder'
  BY <1>3, <1>9 DEF Append, memory, BuffersInOrder
<1> QED BY <1>4, <1>5, <1>6, <1>7, <1>8, <1>9 DEF Next, WorkerStep

-----------------------------------------------------------------------------
(* How often a record is counted.                                          *)

LEMMA WellFormedRecord ==
    ASSUME NEW r \in WellFormed
    PROVE  r \in Records /\ r[1] \in Partitions /\ r[2] \in Nat
BY DEF WellFormed, Records, Offsets

\* What is accounted for, worker by worker.
LEMMA CopiesTyped ==
    ASSUME TypeOK, NEW w \in Workers, NEW r \in WellFormed
    PROVE  /\ Ways(w, r) \in Nat /\ Extra(w, r) \in Nat /\ ToCome(w, r) \in Nat
           /\ buffer[w][r] \in Nat /\ buffer[w][r] <= Ways(w, r)
           /\ Ways(w, r) <= Extra(w, r) + 1
           /\ ToCome(w, r) = Ways(w, r) + (IF Undisturbed(w, r) THEN 0 ELSE 1)
<1>1. buffer[w][r] \in Nat
  BY WellFormedRecord DEF TypeOK
<1>2. Ways(w, r) \in Nat /\ buffer[w][r] <= Ways(w, r)
  BY <1>1 DEF Ways
<1> QED BY <1>1, <1>2 DEF Extra, ToCome

\* What the counters allow: two copies more for a rebalance, one per worker
\* that may be disturbed more for a fault.
LEMMA AllowedGrows ==
    ASSUME TypeOK
    PROVE  /\ CopiesAllowed \in Nat
           /\ faults' = faults /\ rebalances' = rebalances =>
                  CopiesAllowed' = CopiesAllowed
           /\ faults' = faults /\ rebalances' = rebalances + 1 =>
                  CopiesAllowed' \in Nat /\ CopiesAllowed' >= CopiesAllowed + 2
           /\ faults' = faults + 1 /\ rebalances' = rebalances =>
                  CopiesAllowed' = CopiesAllowed + 1 + rebalances
<1>1. faults \in Nat /\ rebalances \in Nat
  BY DEF TypeOK
<1>2. \A f, n \in Nat : /\ (1 + f) * (1 + n) + n \in Nat
                        /\ (1 + f) * (1 + (n + 1)) + (n + 1)
                             = (1 + f) * (1 + n) + n + (1 + f) + 1
                        /\ (1 + (f + 1)) * (1 + n) + n = (1 + f) * (1 + n) + n + 1 + n
  OBVIOUS
<1> QED BY <1>1, <1>2 DEF CopiesAllowed

\* A worker whose memory and partitions are left alone accounts for the same.
LEMMA OthersKeep ==
    ASSUME TypeOK, NEW v \in Workers, NEW r \in WellFormed,
           /\ pc'[v] = pc[v] /\ assigned'[v] = assigned[v] /\ position'[v] = position[v]
           /\ buffer'[v] = buffer[v] /\ pending'[v] = pending[v],
           Owned(v)' = Owned(v),
           \A p \in Owned(v) : committed'[p] = committed[p]
    PROVE  Extra(v, r)' = Extra(v, r) /\ ToCome(v, r)' = ToCome(v, r)
<1>1. r[1] \in Partitions
  BY WellFormedRecord
<1>2. Ways(v, r)' = Ways(v, r)
  BY DEF Ways
<1>3. (owner'[r[1]] = v) <=> (owner[r[1]] = v)
  BY <1>1 DEF Owned
<1>4. Extra(v, r)' = Extra(v, r)
  BY <1>2, <1>3 DEF Extra
<1>5. PendingPartitions(v)' = PendingPartitions(v)
  BY DEF PendingPartitions
<1>6. Undisturbed(v, r)' <=> Undisturbed(v, r)
  BY <1>5 DEF Undisturbed
<1> QED BY <1>2, <1>4, <1>6 DEF ToCome

\* A step of one worker keeps the account if the worker has no more copies to
\* spare than its rebalances allow, and what it adds is paid for.
LEMMA AccountKept ==
    ASSUME TypeOK, TypeOK', CopiesAccounted, NEW w \in Workers,
           \A v \in Workers \ {w} :
              /\ pc'[v] = pc[v] /\ assigned'[v] = assigned[v]
              /\ position'[v] = position[v] /\ buffer'[v] = buffer[v]
              /\ pending'[v] = pending[v]
              /\ Owned(v)' = Owned(v)
              /\ \A p \in Owned(v) : committed'[p] = committed[p],
           Owned(w)' \subseteq assigned'[w],
           \A r \in Malformed : kpi'[r] = kpi[r],
           \A r \in WellFormed :
              /\ Extra(w, r)' + rebalances <= Extra(w, r) + rebalances'
              /\ kpi'[r] + ToCome(w, r)' + Unowned(r)' + CopiesAllowed
                   <= kpi[r] + ToCome(w, r) + Unowned(r) + CopiesAllowed'
    PROVE  CopiesAccounted'
<1>1. \A v \in Workers : Owned(v)' \subseteq assigned'[v]
  BY DEF CopiesAccounted
<1>2. \A r \in Malformed : kpi'[r] = 0
  BY DEF CopiesAccounted
<1>3. ASSUME NEW r \in WellFormed
      PROVE  /\ SumFunction([v \in Workers |-> Extra(v, r)])' <= rebalances'
             /\ (kpi[r] + SumFunction([v \in Workers |-> ToCome(v, r)])
                   + Unowned(r) <= CopiesAllowed)'
  <2> DEFINE e == [v \in Workers |-> Extra(v, r)]
             f == [v \in Workers |-> Extra(v, r)']
             t == [v \in Workers |-> ToCome(v, r)]
             u == [v \in Workers |-> ToCome(v, r)']
  <2>1. \A v \in Workers \ {w} :
          Extra(v, r)' = Extra(v, r) /\ ToCome(v, r)' = ToCome(v, r)
    BY OthersKeep
  <2>2. \A v \in Workers : Extra(v, r) \in Nat /\ ToCome(v, r) \in Nat
    BY CopiesTyped
  <2>3. \A v \in Workers : Extra(v, r)' \in Nat /\ ToCome(v, r)' \in Nat
    <3>1. Extra(w, r)' \in Nat /\ ToCome(w, r)' \in Nat
      <4>1. buffer'[w][r] \in Nat
        BY WellFormedRecord DEF TypeOK
      <4>2. Ways(w, r)' \in Nat
        BY <4>1 DEF Ways
      <4> QED BY <4>2 DEF Extra, ToCome
    <3> QED BY <2>1, <2>2, <3>1
  <2>4. /\ e \in [Workers -> Nat] /\ f \in [Workers -> Nat]
        /\ t \in [Workers -> Nat] /\ u \in [Workers -> Nat]
    BY <2>2, <2>3
  <2>5. /\ \A v \in Workers \ {w} : e[v] = f[v] /\ t[v] = u[v]
        /\ e[w] = Extra(w, r) /\ f[w] = Extra(w, r)'
        /\ t[w] = ToCome(w, r) /\ u[w] = ToCome(w, r)'
    BY <2>1
  <2>6. /\ SumFunction(e) <= rebalances
        /\ kpi[r] + SumFunction(t) + Unowned(r) <= CopiesAllowed
    BY DEF CopiesAccounted
  <2> HIDE DEF e, f, t, u
  <2>7. SumFunction(e) + f[w] = SumFunction(f) + e[w]
    BY <2>4, <2>5, SumChange
  <2>8. SumFunction(t) + u[w] = SumFunction(u) + t[w]
    BY <2>4, <2>5, SumChange
  <2>9. /\ SumFunction(e) \in Nat /\ SumFunction(f) \in Nat
        /\ SumFunction(t) \in Nat /\ SumFunction(u) \in Nat
    BY <2>4, SumNat
  <2>10. /\ rebalances \in Nat /\ rebalances' \in Nat
         /\ kpi[r] \in Nat /\ kpi'[r] \in Nat
         /\ Unowned(r) \in Nat /\ Unowned(r)' \in Nat
    BY WellFormedRecord DEF TypeOK, Unowned
  <2>11. CopiesAllowed \in Int /\ CopiesAllowed' \in Int
    BY DEF TypeOK, CopiesAllowed
  <2>12. SumFunction(f) <= rebalances'
    BY <2>2, <2>3, <2>5, <2>6, <2>7, <2>9, <2>10
  <2>13. kpi'[r] + SumFunction(u) + Unowned(r)' <= CopiesAllowed'
    BY <2>2, <2>3, <2>5, <2>6, <2>8, <2>9, <2>10, <2>11
  <2> QED BY <2>12, <2>13 DEF f, u
<1> QED BY <1>1, <1>2, <1>3 DEF CopiesAccounted

\* A rebalance: a worker that holds nothing and gains a partition is the one
\* to come for it; one that holds some is disturbed.
LEMMA JoinAccount ==
    ASSUME TypeOK, TypeOK', CopiesAccounted, NEW w \in Workers, JoinGroup(w)
    PROVE  CopiesAccounted'
<1>1. PICK gained \in SUBSET Owned(NoWorker) :
        /\ owner' = [p \in Partitions |-> IF p \in gained THEN w ELSE owner[p]]
        /\ assigned' = [assigned EXCEPT ![w] = Owned(w) \cup gained]
        /\ position' = [position EXCEPT ![w] =
               [p \in Partitions |->
                  IF p \in Owned(w) \cup gained THEN ResumeOffset(p) ELSE @[p]]]
        /\ rebalances' = rebalances + (IF Owned(w) # {} THEN 1 ELSE 0)
  BY DEF JoinGroup
<1>2. UNCHANGED <<committed, kpi, pc, buffer, pending, faults>>
  BY DEF JoinGroup, tables
<1>3. Owned(w)' = Owned(w) \cup gained
  BY <1>1 DEF Owned
<1>4. \A v \in Workers \ {w} :
        /\ Owned(v)' = Owned(v)
        /\ assigned'[v] = assigned[v] /\ position'[v] = position[v]
  BY <1>1 DEF Owned, TypeOK
<1>5. assigned'[w] = Owned(w) \cup gained
  BY <1>1 DEF TypeOK
<1>6. \A p \in Partitions :
        position'[w][p] = IF p \in Owned(w) \cup gained THEN committed[p] ELSE position[w][p]
  BY <1>1 DEF TypeOK, ResumeOffset
<1>7. ASSUME NEW r \in WellFormed
      PROVE  /\ Extra(w, r)' + rebalances <= Extra(w, r) + rebalances'
             /\ kpi'[r] + ToCome(w, r)' + Unowned(r)' + CopiesAllowed
                  <= kpi[r] + ToCome(w, r) + Unowned(r) + CopiesAllowed'
  <2> DEFINE o == r[2]
             p == r[1]
             fresh == IF p \in Owned(w) \cup gained /\ committed[p] <= o THEN 1 ELSE 0
  <2>1. p \in Partitions /\ o \in Nat /\ buffer[w][r] \in Nat /\ kpi[r] \in Nat
        /\ committed[p] \in Nat
    BY WellFormedRecord DEF TypeOK
  <2>2. Ways(w, r)' = buffer[w][r] + fresh
    BY <1>2, <1>5, <1>6, <2>1 DEF Ways
  <2>3. Owned(w) \subseteq assigned[w]
    BY DEF CopiesAccounted
  <2>4. /\ p \in gained => owner[p] = NoWorker
        /\ owner'[p] = IF p \in gained THEN w ELSE owner[p]
        /\ p \in Owned(w) <=> owner[p] = w
    BY <1>1, <2>1 DEF Owned
  <2>5. /\ Unowned(r) \in Nat /\ Unowned(r)' \in Nat
        /\ Unowned(r)' = IF p \in gained THEN 0 ELSE Unowned(r)
        /\ p \in gained => Unowned(r) = fresh
    BY <1>2, <2>4 DEF Unowned
  <2>6. /\ Extra(w, r) = IF owner[p] = w /\ Ways(w, r) > 0
                         THEN Ways(w, r) - 1 ELSE Ways(w, r)
        /\ Extra(w, r)' = IF owner'[p] = w /\ Ways(w, r)' > 0
                          THEN Ways(w, r)' - 1 ELSE Ways(w, r)'
    BY DEF Extra
  <2>7. /\ ToCome(w, r) = Ways(w, r) + (IF Undisturbed(w, r) THEN 0 ELSE 1)
        /\ ToCome(w, r)' = Ways(w, r)' + (IF Undisturbed(w, r)' THEN 0 ELSE 1)
    BY DEF ToCome
  <2>8. Ways(w, r) \in Nat /\ buffer[w][r] <= Ways(w, r)
    BY CopiesTyped
  <2>9. rebalances \in Nat /\ CopiesAllowed \in Nat
    BY AllowedGrows DEF TypeOK
  <2>10. fresh \in {0, 1} /\ (p \notin Owned(w) \cup gained => fresh = 0)
    OBVIOUS
  <2>11. CASE Owned(w) # {}
    <3>1. rebalances' = rebalances + 1 /\ faults' = faults
      BY <1>1, <1>2, <2>11
    <3>2. CopiesAllowed' \in Nat /\ CopiesAllowed' >= CopiesAllowed + 2
      BY <3>1, AllowedGrows
    <3> HIDE DEF fresh, o, p
    <3>3. Extra(w, r)' <= Extra(w, r) + 1
      BY <2>1, <2>2, <2>4, <2>6, <2>8, <2>10
    <3>4. ToCome(w, r)' <= ToCome(w, r) + 2 /\ Unowned(r)' <= Unowned(r)
      BY <2>1, <2>2, <2>5, <2>7, <2>8, <2>10
    <3>5. /\ ToCome(w, r)' \in Nat /\ ToCome(w, r) \in Nat
          /\ Extra(w, r)' \in Nat /\ Extra(w, r) \in Nat
      BY <2>1, <2>2, <2>6, <2>7, <2>8, <2>10
    <3>6. kpi'[r] = kpi[r]
      BY <1>2
    <3> QED BY <2>1, <2>5, <2>9, <3>1, <3>2, <3>3, <3>4, <3>5, <3>6
  <2>12. CASE Owned(w) = {}
    <3>1. rebalances' = rebalances /\ faults' = faults
      BY <1>1, <1>2, <2>9, <2>12
    <3>2. CopiesAllowed' = CopiesAllowed
      BY <3>1, AllowedGrows
    <3>3. Undisturbed(w, r) => Undisturbed(w, r)'
      <4>1. SUFFICES ASSUME Undisturbed(w, r) PROVE Undisturbed(w, r)'
        OBVIOUS
      <4>2. PendingPartitions(w)' = {}
        BY <1>2, <2>12, <4>1 DEF Undisturbed, PendingPartitions
      <4>3. ~(r[1] \in Owned(w)' /\ committed'[r[1]] <= r[2] /\ r[2] < position'[w][r[1]])
        BY <1>2, <1>3, <1>6, <2>1
      <4> QED BY <1>3, <1>5, <4>2, <4>3 DEF Undisturbed
    <3> HIDE DEF fresh, o, p
    <3>4. Extra(w, r)' <= Extra(w, r)
      BY <2>1, <2>2, <2>4, <2>6, <2>8, <2>10, <2>12
    <3>5. Ways(w, r)' + Unowned(r)' <= Ways(w, r) + Unowned(r)
      BY <2>1, <2>2, <2>5, <2>8, <2>10, <2>12
    <3>6. ToCome(w, r)' + Unowned(r)' <= ToCome(w, r) + Unowned(r)
      BY <2>1, <2>2, <2>5, <2>7, <2>8, <2>10, <3>3, <3>5
    <3>7. /\ ToCome(w, r)' \in Nat /\ ToCome(w, r) \in Nat
          /\ Extra(w, r)' \in Nat /\ Extra(w, r) \in Nat
      BY <2>1, <2>2, <2>6, <2>7, <2>8, <2>10
    <3>8. kpi'[r] = kpi[r]
      BY <1>2
    <3> QED BY <2>1, <2>5, <2>9, <3>1, <3>2, <3>4, <3>6, <3>7, <3>8
  <2> QED BY <2>11, <2>12
<1> QED BY <1>2, <1>3, <1>4, <1>5, <1>7, AccountKept

\* An eviction: the worker is disturbed and its partitions are free.
LEMMA EvictAccount ==
    ASSUME TypeOK, TypeOK', CopiesAccounted, NEW w \in Workers, Evict(w)
    PROVE  CopiesAccounted'
<1>1. /\ owner' = [p \in Partitions |-> IF owner[p] = w THEN NoWorker ELSE owner[p]]
      /\ rebalances' = rebalances + 1
      /\ UNCHANGED <<committed, kpi, pc, assigned, position, buffer, pending, faults>>
  BY DEF Evict, tables, memory
<1>2. Owned(w)' = {} /\ \A v \in Workers \ {w} : Owned(v)' = Owned(v)
  BY <1>1 DEF Owned
<1>3. ASSUME NEW r \in WellFormed
      PROVE  /\ Extra(w, r)' + rebalances <= Extra(w, r) + rebalances'
             /\ kpi'[r] + ToCome(w, r)' + Unowned(r)' + CopiesAllowed
                  <= kpi[r] + ToCome(w, r) + Unowned(r) + CopiesAllowed'
  <2>1. /\ CopiesAllowed \in Nat /\ CopiesAllowed' \in Nat
        /\ CopiesAllowed' >= CopiesAllowed + 2
    BY <1>1, AllowedGrows
  <2>2. Ways(w, r)' = Ways(w, r) /\ Ways(w, r) \in Nat
    BY <1>1, CopiesTyped DEF Ways
  <2>3. Extra(w, r)' <= Extra(w, r) + 1 /\ Extra(w, r)' \in Nat /\ Extra(w, r) \in Nat
    BY <2>2 DEF Extra
  <2>4. ToCome(w, r)' <= ToCome(w, r) + 1 /\ ToCome(w, r)' \in Nat /\ ToCome(w, r) \in Nat
    BY <2>2 DEF ToCome
  <2>5. Unowned(r)' <= Unowned(r) + 1 /\ Unowned(r)' \in Nat /\ Unowned(r) \in Nat
    BY DEF Unowned
  <2>6. kpi'[r] = kpi[r] /\ kpi[r] \in Nat /\ rebalances \in Nat
    BY <1>1, WellFormedRecord DEF TypeOK
  <2> QED BY <1>1, <2>1, <2>3, <2>4, <2>5, <2>6
<1> QED BY <1>1, <1>2, <1>3, AccountKept

\* No row of a fetch lies past the partition's pending offset.
LEMMA LastOffsetGreatest ==
    ASSUME NEW rows \in SUBSET Records, NEW p \in Partitions, NEW old,
           NEW o \in Offsets, <<p, o>> \in rows
    PROVE  LastOffset(rows, p, old) >= o /\ <<p, LastOffset(rows, p, old)>> \in rows
<1> DEFINE offs == {q \in Offsets : <<p, q>> \in rows}
<1>1. o \in offs
  OBVIOUS
<1>2. Max(offs) \in offs /\ \A q \in offs : q <= Max(offs)
  BY <1>1, MaxOfOffsets
<1>3. LastOffset(rows, p, old) = Max(offs)
  BY <1>1 DEF LastOffset
<1> QED BY <1>1, <1>2, <1>3 DEF Offsets

\* A poll: what could be fetched is in the buffer, and noted as pending.
LEMMA PollAccount ==
    ASSUME TypeOK, TypeOK', CopiesAccounted, NEW w \in Workers, Poll(w)
    PROVE  CopiesAccounted'
<1>1. UNCHANGED <<committed, owner, kpi, assigned, faults, rebalances>>
  BY DEF Poll, broker, tables, counters
<1>2. PICK n \in Fetchable(w) :
        /\ \A p \in Partitions : position'[w][p] = position[w][p] + n[p]
        /\ \A r \in Records : buffer'[w][r] =
               buffer[w][r] + (IF r \in NewRows(w, n) THEN 1 ELSE 0)
        /\ \A p \in Partitions : pending'[w][p] =
               LastOffset(NewRows(w, n), p, pending[w][p])
        /\ pc'[w] \in {"insert", "poll"}
        /\ \A v \in Workers \ {w} :
               /\ position'[v] = position[v] /\ buffer'[v] = buffer[v]
               /\ pending'[v] = pending[v] /\ pc'[v] = pc[v]
  BY PollEffect
<1> DEFINE rows == NewRows(w, n)
<1>3. \A v \in Workers : Owned(v)' = Owned(v)
  BY <1>1 DEF Owned
<1>4. /\ rows \in SUBSET Records
      /\ \A r \in rows : r = <<r[1], r[2]>> /\ r[1] \in Partitions /\ r[2] \in Offsets
                         /\ position[w][r[1]] <= r[2] /\ n[r[1]] > 0
  <2>1. rows \in SUBSET Records
    BY DEF NewRows, WellFormed
  <2>2. ASSUME NEW r \in rows
        PROVE  /\ r = <<r[1], r[2]>> /\ r[1] \in Partitions /\ r[2] \in Offsets
               /\ position[w][r[1]] <= r[2] /\ n[r[1]] > 0
    <3>1. r = <<r[1], r[2]>> /\ r[1] \in Partitions /\ r[2] \in Offsets
      BY <2>1 DEF Records
    <3>2. position[w][r[1]] <= r[2] /\ r[2] < position[w][r[1]] + n[r[1]]
      BY DEF NewRows
    <3>3. position[w][r[1]] \in Nat /\ n[r[1]] \in Nat /\ r[2] \in Nat
      BY <3>1 DEF TypeOK, Fetchable, Offsets
    <3> QED BY <3>1, <3>2, <3>3
  <2> QED BY <2>1, <2>2
<1>5. \A p \in Partitions : pending'[w][p] = pending[w][p] \/ <<p, pending'[w][p]>> \in rows
  <2> HIDE DEF rows
  <2>1. \A p \in Partitions : pending'[w][p] = LastOffset(rows, p, pending[w][p])
    BY <1>2 DEF rows
  <2> QED BY <1>4, <2>1, LastOffsetChoice
<1>6. PendingPartitions(w)' \subseteq PendingPartitions(w) \cup assigned[w]
  <2> SUFFICES ASSUME NEW p \in Partitions, <<p, pending'[w][p]>> \in rows
               PROVE  p \in assigned[w]
    BY <1>5 DEF PendingPartitions
  <2>1. n[p] > 0
    BY <1>4
  <2> QED BY <2>1 DEF Fetchable
<1>7. ASSUME NEW r \in WellFormed
      PROVE  /\ Extra(w, r)' + rebalances <= Extra(w, r) + rebalances'
             /\ kpi'[r] + ToCome(w, r)' + Unowned(r)' + CopiesAllowed
                  <= kpi[r] + ToCome(w, r) + Unowned(r) + CopiesAllowed'
  <2>1. /\ r \in Records /\ r[1] \in Partitions /\ r[2] \in Nat /\ r[2] \in Offsets
        /\ r = <<r[1], r[2]>>
    BY DEF WellFormed, Records, Offsets
  <2>2. /\ position[w][r[1]] \in Nat /\ n[r[1]] \in Nat /\ buffer[w][r] \in Nat
        /\ pending[w][r[1]] \in Int /\ (n[r[1]] > 0 => r[1] \in assigned[w])
    BY <2>1 DEF TypeOK, Fetchable, Offsets, NoOffset
  <2>3. r \in rows <=> position[w][r[1]] <= r[2] /\ r[2] < position'[w][r[1]]
    BY <1>2, <2>1 DEF NewRows
  <2>4. position'[w][r[1]] = position[w][r[1]] + n[r[1]]
    BY <1>2, <2>1
  <2>5. buffer'[w][r] = buffer[w][r] + (IF r \in rows THEN 1 ELSE 0)
    BY <1>2, <2>1
  <2> HIDE DEF rows
  <2>6. Ways(w, r)' = Ways(w, r)
    BY <1>1, <2>1, <2>2, <2>3, <2>4, <2>5 DEF Ways
  <2>7. Extra(w, r)' = Extra(w, r)
    BY <1>1, <2>6 DEF Extra
  <2>8. r[2] < position'[w][r[1]] /\ r[1] \in PendingPartitions(w)' /\
        (r[2] < position[w][r[1]] /\ r[1] \in PendingPartitions(w) => r[2] <= pending[w][r[1]])
           => r[2] <= pending'[w][r[1]]
    <3> SUFFICES ASSUME r[2] < position'[w][r[1]], r[1] \in PendingPartitions(w)',
                        r[2] < position[w][r[1]] /\ r[1] \in PendingPartitions(w)
                            => r[2] <= pending[w][r[1]]
                 PROVE  r[2] <= pending'[w][r[1]]
      OBVIOUS
    <3>1. CASE r \in rows
      <4>1. LastOffset(rows, r[1], pending[w][r[1]]) >= r[2]
        BY <1>4, <2>1, <3>1, LastOffsetGreatest
      <4>2. pending'[w][r[1]] = LastOffset(rows, r[1], pending[w][r[1]])
        BY <1>2, <2>1 DEF rows
      <4>3. LastOffset(rows, r[1], pending[w][r[1]]) \in Int
        BY <4>2, <2>1 DEF TypeOK, Offsets, NoOffset
      <4> QED BY <2>1, <4>1, <4>2, <4>3
    <3>2. CASE r \notin rows
      <4>1. r[2] < position[w][r[1]]
        BY <2>1, <2>2, <2>3, <2>4, <3>2
      <4>2. CASE pending'[w][r[1]] = pending[w][r[1]]
        BY <2>1, <4>1, <4>2 DEF PendingPartitions
      <4>3. CASE <<r[1], pending'[w][r[1]]>> \in rows
        <5>1. position[w][r[1]] <= pending'[w][r[1]] /\ pending'[w][r[1]] \in Nat
          BY <1>4, <4>3 DEF Offsets
        <5> QED BY <2>1, <2>2, <4>1, <5>1
      <4> QED BY <1>5, <2>1, <4>2, <4>3
    <3> QED BY <3>1, <3>2
  <2>9. Undisturbed(w, r) => Undisturbed(w, r)'
    <3> SUFFICES ASSUME Undisturbed(w, r) PROVE Undisturbed(w, r)'
      OBVIOUS
    <3>1. assigned'[w] \cup PendingPartitions(w)' \subseteq Owned(w)'
      BY <1>1, <1>3, <1>6 DEF Undisturbed
    <3>2. ASSUME r[2] < position'[w][r[1]], r[1] \in PendingPartitions(w)'
          PROVE  r[2] <= pending'[w][r[1]]
      BY <2>8, <3>2 DEF Undisturbed
    <3>3. ASSUME r[2] < position'[w][r[1]], r[1] \in Owned(w)', committed'[r[1]] <= r[2]
          PROVE  /\ pc'[w] \in {"commit", "finalCommit"} \/ buffer'[w][r] > 0
                 /\ pc'[w] = "closing" \/ r[1] \in PendingPartitions(w)'
      <4>1. CASE r \in rows
        <5>1. buffer'[w][r] > 0
          BY <2>2, <2>5, <4>1
        <5>2. <<r[1], LastOffset(rows, r[1], pending[w][r[1]])>> \in rows
          BY <1>4, <2>1, <4>1, LastOffsetGreatest
        <5>3. pending'[w][r[1]] = LastOffset(rows, r[1], pending[w][r[1]])
          BY <1>2, <2>1 DEF rows
        <5>4. pending'[w][r[1]] \in Offsets
          BY <1>4, <5>2, <5>3
        <5>5. r[1] \in PendingPartitions(w)'
          BY <2>1, <5>4 DEF PendingPartitions, Offsets, NoOffset
        <5> QED BY <5>1, <5>5
      <4>2. CASE r \notin rows
        <5>1. r[2] < position[w][r[1]]
          BY <2>1, <2>2, <2>3, <2>4, <3>3, <4>2
        <5>2. pc[w] = "poll"
          BY DEF Poll
        <5>3. buffer[w][r] > 0 /\ r[1] \in PendingPartitions(w)
          BY <1>1, <1>3, <3>3, <5>1, <5>2 DEF Undisturbed
        <5>4. r[1] \in PendingPartitions(w)'
          <6>1. <<r[1], pending'[w][r[1]]>> \in rows => pending'[w][r[1]] \in Offsets
            BY <1>4
          <6> QED BY <1>5, <2>1, <5>3, <6>1 DEF PendingPartitions, Offsets, NoOffset
        <5> QED BY <2>2, <2>5, <5>3, <5>4
      <4> QED BY <4>1, <4>2
    <3> QED BY <3>1, <3>2, <3>3 DEF Undisturbed
  <2>10. ToCome(w, r)' <= ToCome(w, r) /\ ToCome(w, r) \in Nat /\ ToCome(w, r)' \in Nat
    BY <2>6, <2>9, CopiesTyped DEF ToCome
  <2>11. CopiesAllowed' = CopiesAllowed /\ CopiesAllowed \in Nat
    BY <1>1, AllowedGrows
  <2>12. kpi'[r] = kpi[r] /\ Unowned(r)' = Unowned(r)
    BY <1>1 DEF Unowned
  <2>13. kpi[r] \in Nat /\ Unowned(r) \in Nat /\ Extra(w, r) \in Nat /\ rebalances \in Nat
    BY <2>1, CopiesTyped DEF Unowned, TypeOK
  <2> QED BY <1>1, <2>7, <2>10, <2>11, <2>12, <2>13
<1>8. Owned(w)' \subseteq assigned'[w]
  BY <1>1, <1>3 DEF CopiesAccounted
<1> QED BY <1>1, <1>2, <1>3, <1>7, <1>8, AccountKept

\* An insert: what was in the buffer is in the table; if it failed, it may be
\* in both.
LEMMA InsertAccount ==
    ASSUME DataInv, TypeOK', CopiesAccounted, NEW w \in Workers,
           InsertOk(w) \/ InsertRaises(w)
    PROVE  CopiesAccounted'
<1>0. TypeOK
  BY DEF DataInv
<1>1. UNCHANGED <<committed, owner, assigned, position, pending, rebalances>>
  BY DEF InsertOk, InsertRaises, broker, counters
<1>2. \A v \in Workers : Owned(v)' = Owned(v) /\ PendingPartitions(v)' = PendingPartitions(v)
  BY <1>1 DEF Owned, PendingPartitions
<1>3. \A v \in Workers \ {w} : pc'[v] = pc[v] /\ buffer'[v] = buffer[v]
  <2>1. buffer' = buffer \/ buffer' = [buffer EXCEPT ![w] = EmptyBuffer]
    BY <1>0, InsertEffect
  <2> QED BY <1>0, <2>1, InsertEffect DEF TypeOK
<1>4. \A r \in Malformed : kpi'[r] = kpi[r]
  <2> SUFFICES ASSUME NEW r \in Malformed PROVE kpi'[r] = kpi[r]
    OBVIOUS
  <2>1. r \in Records /\ r \notin Buffered(w)
    BY DEF DataInv, WithinLog
  <2> QED BY <1>0, <2>1 DEF InsertOk, InsertRaises, StoreRows, tables, TypeOK
<1>5. ASSUME NEW r \in WellFormed
      PROVE  /\ Extra(w, r)' + rebalances <= Extra(w, r) + rebalances'
             /\ kpi'[r] + ToCome(w, r)' + Unowned(r)' + CopiesAllowed
                  <= kpi[r] + ToCome(w, r) + Unowned(r) + CopiesAllowed'
  <2>1. r \in Records /\ r[1] \in Partitions /\ r[2] \in Nat
    BY WellFormedRecord
  <2>2. Unowned(r)' = Unowned(r) /\ Unowned(r) \in Nat
    BY <1>1 DEF Unowned
  <2>3. /\ kpi[r] \in Nat /\ kpi'[r] \in Nat /\ buffer[w][r] \in Nat /\ rebalances \in Nat
        /\ CopiesAllowed \in Nat
    BY <1>0, <2>1, AllowedGrows DEF TypeOK
  <2>4. /\ Ways(w, r) \in Nat /\ Extra(w, r) \in Nat /\ ToCome(w, r) \in Nat
        /\ buffer[w][r] <= Ways(w, r) /\ Ways(w, r) <= Extra(w, r) + 1
    BY <1>0, CopiesTyped
  <2>5. CASE InsertOk(w)
    <3>1. /\ buffer'[w][r] = 0 /\ kpi'[r] = kpi[r] + buffer[w][r]
          /\ CopiesAllowed' = CopiesAllowed
      <4>1. faults' = faults /\ buffer'[w] = EmptyBuffer /\ StoreRows(w, Buffered(w))
        BY <1>0, <2>5 DEF InsertOk, counters, TypeOK
      <4>2. buffer[w][r] = 0 \/ r \in Buffered(w)
        BY <2>1, <2>3 DEF Buffered
      <4>3. kpi'[r] = kpi[r] + buffer[w][r]
        BY <2>1, <2>3, <4>1, <4>2 DEF StoreRows
      <4> QED BY <1>0, <1>1, <2>1, <4>1, <4>3, AllowedGrows DEF EmptyBuffer
    <3>2. Ways(w, r) = buffer[w][r] + Ways(w, r)' /\ Ways(w, r)' \in Nat
      BY <1>1, <2>3, <3>1 DEF Ways
    <3>3. Extra(w, r)' <= Extra(w, r) /\ Extra(w, r)' \in Nat
      BY <1>1, <2>3, <3>2 DEF Extra
    <3>4. Undisturbed(w, r) => Undisturbed(w, r)'
      <4> SUFFICES ASSUME Undisturbed(w, r) PROVE Undisturbed(w, r)'
        OBVIOUS
      <4>1. pc[w] \in {"insert", "finalInsert"}
        BY <2>5 DEF InsertOk
      <4>2. r[1] \in PendingPartitions(w) => HasPending(w)
        BY <2>1 DEF PendingPartitions, HasPending, NoPending
      <4>3. HasPending(w) => pc'[w] \in {"commit", "finalCommit"}
        BY <1>0, <2>5 DEF InsertOk, TypeOK
      <4> QED BY <1>1, <1>2, <4>1, <4>2, <4>3 DEF Undisturbed
    <3>5. ToCome(w, r)' + buffer[w][r] <= ToCome(w, r) /\ ToCome(w, r)' \in Nat
      BY <2>3, <3>2, <3>4 DEF ToCome
    <3> QED BY <1>1, <2>2, <2>3, <2>4, <3>1, <3>3, <3>5
  <2>6. CASE InsertRaises(w)
    <3>1. buffer' = buffer
      BY <1>0, <2>6 DEF InsertRaises, RestoredBuffer, TypeOK
    <3>2. Ways(w, r)' = Ways(w, r) /\ Extra(w, r)' = Extra(w, r)
      BY <1>1, <3>1 DEF Ways, Extra
    <3>3. Undisturbed(w, r) => Undisturbed(w, r)'
      <4> SUFFICES ASSUME Undisturbed(w, r) PROVE Undisturbed(w, r)'
        OBVIOUS
      <4>1. pc[w] \in {"insert", "finalInsert"}
        BY <2>6 DEF InsertRaises
      <4> QED BY <1>1, <1>2, <3>1, <4>1 DEF Undisturbed
    <3>4. ToCome(w, r)' <= ToCome(w, r) /\ ToCome(w, r)' \in Nat
      BY <2>4, <3>2, <3>3 DEF ToCome
    <3>5. \/ kpi' = kpi /\ faults' = faults
          \/ faults' = faults + 1 /\ \E S \in SUBSET Buffered(w) : StoreRows(w, S)
      BY <2>6 DEF InsertRaises, tables
    <3>6. CASE kpi' = kpi /\ faults' = faults
      <4>1. CopiesAllowed' = CopiesAllowed
        BY <1>0, <1>1, <3>6, AllowedGrows
      <4> QED BY <1>1, <2>2, <2>3, <2>4, <3>2, <3>4, <3>6, <4>1
    <3>7. CASE faults' = faults + 1 /\ \E S \in SUBSET Buffered(w) : StoreRows(w, S)
      <4>1. CopiesAllowed' = CopiesAllowed + 1 + rebalances
        BY <1>0, <1>1, <3>7, AllowedGrows
      <4>2. kpi'[r] <= kpi[r] + buffer[w][r]
        BY <2>1, <2>3, <3>7 DEF StoreRows
      <4>3. Extra(w, r) <= rebalances
        <5> DEFINE e == [v \in Workers |-> Extra(v, r)]
        <5>1. e \in [Workers -> Nat]
          BY <1>0, CopiesTyped
        <5>2. SumFunction(e) <= rebalances
          BY DEF CopiesAccounted
        <5>3. e[w] = Extra(w, r)
          OBVIOUS
        <5> HIDE DEF e
        <5>4. e[w] <= SumFunction(e) /\ SumFunction(e) \in Nat
          BY <5>1, SumElement, SumNat
        <5> QED BY <2>3, <2>4, <5>2, <5>3, <5>4
      <4> QED BY <1>1, <2>2, <2>3, <2>4, <3>2, <3>4, <4>1, <4>2, <4>3
    <3> QED BY <3>5, <3>6, <3>7
  <2> QED BY <2>5, <2>6
<1>6. Owned(w)' \subseteq assigned'[w]
  BY <1>1, <1>2 DEF CopiesAccounted
<1> QED BY <1>0, <1>1, <1>2, <1>3, <1>4, <1>5, <1>6, AccountKept

\* A commit: without a rebalance it is accepted and covers what the worker has
\* fetched.  It moves no offset but those of the worker's own partitions.
LEMMA CommitAccount ==
    ASSUME TypeOK, TypeOK', CopiesAccounted, NEW w \in Workers,
           CommitOk(w) \/ CommitRaises(w)
    PROVE  CopiesAccounted'
<1>1. UNCHANGED <<owner, kpi, assigned, position, buffer, rebalances>>
  BY DEF CommitOk, CommitRaises, tables, memory, counters
<1>2. \A v \in Workers : Owned(v)' = Owned(v)
  BY <1>1 DEF Owned
<1>3. \A v \in Workers \ {w} : pc'[v] = pc[v] /\ pending'[v] = pending[v]
  BY DEF CommitOk, CommitRaises, memory, TypeOK
<1>4. \A p \in Partitions : p \notin Owned(w) => committed'[p] = committed[p]
  BY DEF CommitOk, CommitRaises, Applied, TypeOK
<1>5. \A v \in Workers \ {w} : \A p \in Owned(v) : committed'[p] = committed[p]
  BY <1>4 DEF Owned
<1>6. ASSUME NEW r \in WellFormed
      PROVE  /\ Extra(w, r)' + rebalances <= Extra(w, r) + rebalances'
             /\ kpi'[r] + ToCome(w, r)' + Unowned(r)' + CopiesAllowed
                  <= kpi[r] + ToCome(w, r) + Unowned(r) + CopiesAllowed'
  <2>1. r \in Records /\ r[1] \in Partitions /\ r[2] \in Nat
    BY WellFormedRecord
  <2>2. Unowned(r)' = Unowned(r) /\ Unowned(r) \in Nat
    <3>1. owner[r[1]] = NoWorker => r[1] \notin Owned(w)
      BY DEF Owned
    <3> QED BY <1>1, <1>4, <2>1, <3>1 DEF Unowned
  <2>3. /\ kpi[r] \in Nat /\ rebalances \in Nat
        /\ CopiesAllowed \in Nat
    BY <2>1, AllowedGrows DEF TypeOK
  <2>4. Ways(w, r)' = Ways(w, r) /\ Extra(w, r)' = Extra(w, r)
    BY <1>1 DEF Ways, Extra
  <2>5. Ways(w, r) \in Nat /\ Extra(w, r) \in Nat /\ ToCome(w, r) \in Nat
    BY CopiesTyped
  <2>6. ToCome(w, r)' \in Nat /\ ToCome(w, r)' <= ToCome(w, r) + 1
        /\ (Undisturbed(w, r)' \/ ~Undisturbed(w, r) => ToCome(w, r)' <= ToCome(w, r))
    BY <2>4, <2>5 DEF ToCome
  <2>7. CASE CommitOk(w)
    <3>1. CopiesAllowed' = CopiesAllowed
      BY <1>1, <2>7, AllowedGrows DEF CommitOk, counters
    <3>2. PendingPartitions(w)' = {}
      BY <2>7 DEF CommitOk, PendingPartitions, NoPending, TypeOK
    <3>3. Undisturbed(w, r) => Undisturbed(w, r)'
      <4> SUFFICES ASSUME Undisturbed(w, r) PROVE Undisturbed(w, r)'
        OBVIOUS
      <4>1. assigned'[w] \cup PendingPartitions(w)' \subseteq Owned(w)'
        BY <1>1, <1>2, <3>2 DEF Undisturbed
      <4>2. pc[w] # "closing"
        BY <2>7 DEF CommitOk
      <4>3. ASSUME r[2] < position[w][r[1]], r[1] \in Owned(w), committed'[r[1]] <= r[2]
            PROVE  FALSE
        <5>1. CASE r[1] \in PendingPartitions(w)
          <6>1. committed'[r[1]] = pending[w][r[1]] + 1
            BY <2>1, <2>7, <5>1 DEF CommitOk, Applied, CommitOffset
          <6>2. r[2] <= pending[w][r[1]] /\ pending[w][r[1]] \in Int
            BY <2>1, <4>3, <5>1 DEF Undisturbed, TypeOK, Offsets, NoOffset
          <6> QED BY <2>1, <4>3, <6>1, <6>2
        <5>2. CASE r[1] \notin PendingPartitions(w)
          <6>1. committed'[r[1]] = committed[r[1]]
            BY <2>1, <2>7, <5>2 DEF CommitOk, Applied
          <6> QED BY <4>2, <4>3, <5>2, <6>1 DEF Undisturbed
        <5> QED BY <5>1, <5>2
      <4> QED BY <1>1, <1>2, <3>2, <4>1, <4>3 DEF Undisturbed
    <3> QED BY <1>1, <2>2, <2>3, <2>4, <2>5, <2>6, <3>1, <3>3
  <2>8. CASE CommitRaises(w)
    <3>1. \/ faults' = faults /\ ~(PendingPartitions(w) \subseteq Owned(w))
          \/ faults' = faults + 1
      BY <2>8 DEF CommitRaises
    <3>2. CASE faults' = faults /\ ~(PendingPartitions(w) \subseteq Owned(w))
      <4>1. ~Undisturbed(w, r)
        BY <3>2 DEF Undisturbed
      <4>2. CopiesAllowed' = CopiesAllowed
        BY <1>1, <3>2, AllowedGrows
      <4> QED BY <1>1, <2>2, <2>3, <2>4, <2>5, <2>6, <4>1, <4>2
    <3>3. CASE faults' = faults + 1
      <4>1. CopiesAllowed' = CopiesAllowed + 1 + rebalances
        BY <1>1, <3>3, AllowedGrows
      <4> QED BY <1>1, <2>2, <2>3, <2>4, <2>5, <2>6, <4>1
    <3> QED BY <3>1, <3>2, <3>3
  <2> QED BY <2>7, <2>8
<1>7. Owned(w)' \subseteq assigned'[w]
  BY <1>1, <1>2 DEF CopiesAccounted
<1> QED BY <1>1, <1>2, <1>3, <1>5, <1>6, <1>7, AccountKept

\* The end of a process: a crash is paid for.  After a close an undisturbed
\* worker leaves a record to be fetched again only if it has not fetched it.
LEMMA EndAccount ==
    ASSUME TypeOK, TypeOK', CopiesAccounted, NEW w \in Workers,
           Close(w) \/ Crash(w)
    PROVE  CopiesAccounted'
<1>1. /\ owner' = [p \in Partitions |-> IF owner[p] = w THEN NoWorker ELSE owner[p]]
      /\ assigned'[w] = {} /\ buffer'[w] = EmptyBuffer /\ pending'[w] = NoPending
      /\ \A v \in Workers \ {w} :
            /\ assigned'[v] = assigned[v] /\ position'[v] = position[v]
            /\ buffer'[v] = buffer[v] /\ pending'[v] = pending[v] /\ pc'[v] = pc[v]
      /\ UNCHANGED <<committed, kpi, rebalances>>
  BY DEF Close, Crash, ProcessEnds, tables, TypeOK
<1>2. Owned(w)' = {} /\ \A v \in Workers \ {w} : Owned(v)' = Owned(v)
  BY <1>1 DEF Owned
<1>3. ASSUME NEW r \in WellFormed
      PROVE  /\ Extra(w, r)' + rebalances <= Extra(w, r) + rebalances'
             /\ kpi'[r] + ToCome(w, r)' + Unowned(r)' + CopiesAllowed
                  <= kpi[r] + ToCome(w, r) + Unowned(r) + CopiesAllowed'
  <2>1. r \in Records /\ r[1] \in Partitions /\ r[2] \in Nat
    BY WellFormedRecord
  <2>2. Ways(w, r)' = 0
    BY <1>1, <2>1 DEF Ways, EmptyBuffer
  <2>3. Extra(w, r)' = 0
    BY <2>2 DEF Extra
  <2>4. PendingPartitions(w)' = {}
    BY <1>1 DEF PendingPartitions, NoPending
  <2>5. Undisturbed(w, r)'
    BY <1>1, <1>2, <2>4 DEF Undisturbed
  <2>6. ToCome(w, r)' = 0
    BY <2>2, <2>5 DEF ToCome
  <2>7. /\ kpi[r] \in Nat /\ rebalances \in Nat /\ CopiesAllowed \in Nat
        /\ Unowned(r) \in Nat /\ Unowned(r)' \in Nat /\ Unowned(r)' <= Unowned(r) + 1
    BY <2>1, AllowedGrows DEF TypeOK, Unowned
  <2>8. Extra(w, r) \in Nat /\ ToCome(w, r) \in Nat
    BY CopiesTyped
  <2>9. CASE Crash(w)
    <3>1. CopiesAllowed' = CopiesAllowed + 1 + rebalances
      BY <1>1, <2>9, AllowedGrows DEF Crash
    <3> QED BY <1>1, <2>3, <2>6, <2>7, <2>8, <3>1
  <2>10. CASE Close(w)
    <3>1. CopiesAllowed' = CopiesAllowed
      BY <1>1, <2>10, AllowedGrows DEF Close
    <3>2. Unowned(r)' <= Unowned(r) + ToCome(w, r)
      <4>1. CASE owner[r[1]] # w
        BY <1>1, <2>1, <2>7, <2>8, <4>1 DEF Unowned
      <4>2. CASE owner[r[1]] = w /\ ~(committed[r[1]] <= r[2])
        BY <1>1, <2>7, <2>8, <4>2 DEF Unowned
      <4>3. CASE owner[r[1]] = w /\ committed[r[1]] <= r[2]
        <5>1. r[1] \in Owned(w) /\ r[1] \in assigned[w]
          BY <2>1, <4>3 DEF Owned, CopiesAccounted
        <5>2. buffer[w][r] \in Nat /\ position[w][r[1]] \in Nat
          BY <2>1 DEF TypeOK
        <5>3. Undisturbed(w, r) => Ways(w, r) > 0
          <6>1. CASE position[w][r[1]] <= r[2]
            BY <5>1, <5>2, <6>1 DEF Ways
          <6>2. CASE r[2] < position[w][r[1]]
            <7>1. Undisturbed(w, r) => buffer[w][r] > 0
              BY <2>10, <4>3, <5>1, <6>2 DEF Undisturbed, Close
            <7> QED BY <5>2, <7>1 DEF Ways
          <6> QED BY <2>1, <5>2, <6>1, <6>2
        <5>4. ToCome(w, r) > 0
          BY <5>3, CopiesTyped DEF ToCome
        <5> QED BY <2>7, <2>8, <5>4
      <4> QED BY <4>1, <4>2, <4>3
    <3> QED BY <1>1, <2>3, <2>6, <2>7, <2>8, <3>1, <3>2
  <2> QED BY <2>9, <2>10
<1> QED BY <1>1, <1>2, <1>3, AccountKept

LEMMA CopiesInit == Init => CopiesAccounted
<1> SUFFICES ASSUME Init PROVE CopiesAccounted
  OBVIOUS
<1>0. TypeOK
  BY TypeInit
<1>1. \A w \in Workers : Owned(w) = {} /\ PendingPartitions(w) = {}
  BY DEF Init, Owned, PendingPartitions, NoPending
<1>2. ASSUME NEW r \in WellFormed
      PROVE  /\ SumFunction([w \in Workers |-> Extra(w, r)]) <= rebalances
             /\ kpi[r] + SumFunction([w \in Workers |-> ToCome(w, r)]) + Unowned(r)
                  <= CopiesAllowed
  <2>1. \A w \in Workers : Ways(w, r) = 0
    BY WellFormedRecord DEF Init, Ways, EmptyBuffer
  <2>2. \A w \in Workers : Undisturbed(w, r)
    BY <1>1, WellFormedRecord DEF Init, Undisturbed
  <2>3. \A w \in Workers : Extra(w, r) = 0 /\ ToCome(w, r) = 0
    BY <2>1, <2>2 DEF Extra, ToCome
  <2>4. /\ [w \in Workers |-> Extra(w, r)] = [w \in Workers |-> 0]
        /\ [w \in Workers |-> ToCome(w, r)] = [w \in Workers |-> 0]
    BY <2>3
  <2>5. SumFunction([w \in Workers |-> 0]) = 0
    BY SumZero
  <2>6. kpi[r] = 0 /\ rebalances = 0 /\ CopiesAllowed = 1
    BY WellFormedRecord DEF Init, EmptyBuffer, CopiesAllowed
  <2> QED BY <2>4, <2>5, <2>6 DEF Unowned
<1> QED BY <1>1, <1>2 DEF CopiesAccounted, Init, EmptyBuffer

\* Every copy of a record that is stored, buffered or still to be fetched is
\* accounted for.
LEMMA CopiesStep ==
    ASSUME DataInv, TypeOK', CopiesAccounted, [Next]_vars
    PROVE  CopiesAccounted'
<1>0. TypeOK
  BY DEF DataInv
\* Steps that change nothing the account looks at.
<1>1. ASSUME UNCHANGED <<committed, owner, kpi, pc, assigned, position, buffer, pending,
                         faults, rebalances>>
      PROVE  CopiesAccounted'
  <2>1. \A v \in Workers : Owned(v)' = Owned(v)
    BY <1>1 DEF Owned
  <2>2. CopiesAllowed' = CopiesAllowed
    BY <1>1 DEF CopiesAllowed
  <2>3. ASSUME NEW r \in WellFormed
        PROVE  /\ [v \in Workers |-> Extra(v, r)]' = [v \in Workers |-> Extra(v, r)]
               /\ [v \in Workers |-> ToCome(v, r)]' = [v \in Workers |-> ToCome(v, r)]
               /\ Unowned(r)' = Unowned(r)
    <3>1. \A v \in Workers : Extra(v, r)' = Extra(v, r) /\ ToCome(v, r)' = ToCome(v, r)
      BY <1>0, <1>1, <2>1, OthersKeep
    <3> QED BY <1>1, <3>1 DEF Unowned
  <2>4. \A r \in WellFormed :
          /\ SumFunction([v \in Workers |-> Extra(v, r)])' =
                SumFunction([v \in Workers |-> Extra(v, r)])
          /\ SumFunction([v \in Workers |-> ToCome(v, r)])' =
                SumFunction([v \in Workers |-> ToCome(v, r)])
          /\ Unowned(r)' = Unowned(r)
    BY <2>3
  <2> QED BY <1>1, <2>1, <2>2, <2>4 DEF CopiesAccounted
<1>2. ASSUME NEW w \in Workers, Start(w) \/ LeaveLoop(w) PROVE CopiesAccounted'
  <2>1. UNCHANGED <<committed, owner, kpi, assigned, position, buffer, pending,
                    faults, rebalances>>
    BY <1>2 DEF Start, LeaveLoop, broker, tables, memory, counters
  <2>2. \A v \in Workers : Owned(v)' = Owned(v) /\ PendingPartitions(v)' = PendingPartitions(v)
    BY <2>1 DEF Owned, PendingPartitions
  <2>3. /\ pc[w] \in {"down", "poll"}
        /\ pc'[w] \notin {"commit", "finalCommit"}
        /\ \A v \in Workers \ {w} : pc'[v] = pc[v]
    BY <1>0, <1>2 DEF Start, LeaveLoop, TypeOK
  <2>4. ASSUME NEW r \in WellFormed
        PROVE  /\ Extra(w, r)' + rebalances <= Extra(w, r) + rebalances'
               /\ kpi'[r] + ToCome(w, r)' + Unowned(r)' + CopiesAllowed
                    <= kpi[r] + ToCome(w, r) + Unowned(r) + CopiesAllowed'
    <3>1. Ways(w, r)' = Ways(w, r) /\ Ways(w, r) \in Nat /\ Extra(w, r) \in Nat
      BY <1>0, <2>1, CopiesTyped DEF Ways
    <3>2. Extra(w, r)' = Extra(w, r)
      BY <2>1, <3>1 DEF Extra
    <3>3. Undisturbed(w, r) => Undisturbed(w, r)'
      BY <2>1, <2>2, <2>3 DEF Undisturbed
    <3>4. ToCome(w, r)' <= ToCome(w, r) /\ ToCome(w, r) \in Nat /\ ToCome(w, r)' \in Nat
      BY <3>1, <3>3 DEF ToCome
    <3>5. CopiesAllowed' = CopiesAllowed /\ CopiesAllowed \in Nat
      BY <1>0, <2>1, AllowedGrows
    <3>6. /\ Unowned(r)' = Unowned(r) /\ Unowned(r) \in Nat
          /\ kpi'[r] = kpi[r] /\ kpi[r] \in Nat /\ rebalances \in Nat
      BY <1>0, <2>1, WellFormedRecord DEF Unowned, TypeOK
    <3> QED BY <2>1, <3>1, <3>2, <3>4, <3>5, <3>6
  <2>5. Owned(w)' \subseteq assigned'[w]
    BY <2>1, <2>2 DEF CopiesAccounted
  <2> QED BY <1>0, <2>1, <2>2, <2>3, <2>4, <2>5, AccountKept
<1>3. ASSUME NEW w \in Workers, RequestStop(w) PROVE CopiesAccounted'
  BY <1>1, <1>3 DEF RequestStop, broker, tables, memory
<1>4. ASSUME NEW p \in Partitions, Append(p) PROVE CopiesAccounted'
  BY <1>1, <1>4 DEF Append, tables, memory, counters
<1>5. CASE UNCHANGED vars
  BY <1>1, <1>5 DEF vars, broker, tables, memory, counters
<1>6. ASSUME NEW w \in Workers, JoinGroup(w) PROVE CopiesAccounted'
  BY <1>0, <1>6, JoinAccount
<1>7. ASSUME NEW w \in Workers, Evict(w) PROVE CopiesAccounted'
  BY <1>0, <1>7, EvictAccount
<1>8. ASSUME NEW w \in Workers, Poll(w) PROVE CopiesAccounted'
  BY <1>0, <1>8, PollAccount
<1>9. ASSUME NEW w \in Workers, InsertOk(w) \/ InsertRaises(w) PROVE CopiesAccounted'
  BY <1>9, InsertAccount
<1>10. ASSUME NEW w \in Workers, CommitOk(w) \/ CommitRaises(w) PROVE CopiesAccounted'
  BY <1>0, <1>10, CommitAccount
<1>11. ASSUME NEW w \in Workers, Close(w) \/ Crash(w) PROVE CopiesAccounted'
  BY <1>0, <1>11, EndAccount
<1> QED
  BY <1>2, <1>3, <1>4, <1>5, <1>6, <1>7, <1>8, <1>9, <1>10, <1>11 DEF Next, WorkerStep

-----------------------------------------------------------------------------
(* The order of commits.                                                   *)

\* What OffsetsInOrder says of one worker.
InOrder(w) ==
    /\ assigned[w] \cup PendingPartitions(w) \subseteq Owned(w)
    /\ \A p \in Owned(w) : committed[p] <= position[w][p]
    /\ \A p \in PendingPartitions(w) :
        committed[p] <= CommitOffset(w, p) /\ CommitOffset(w, p) <= position[w][p]

\* A worker whose memory, partitions and committed offsets are left alone.
LEMMA OrderKept ==
    ASSUME NEW v \in Workers, InOrder(v), Owned(v)' = Owned(v),
           assigned'[v] = assigned[v], position'[v] = position[v], pending'[v] = pending[v],
           \A p \in Owned(v) : committed'[p] = committed[p]
    PROVE  InOrder(v)'
<1>1. PendingPartitions(v)' = PendingPartitions(v)
  BY DEF PendingPartitions
<1>2. \A p \in PendingPartitions(v) : p \in Owned(v) /\ CommitOffset(v, p)' = CommitOffset(v, p)
  BY DEF InOrder, CommitOffset
<1> QED BY <1>1, <1>2 DEF InOrder

\* A poll notes offsets at or after its position, and moves past them.
LEMMA PollOrder ==
    ASSUME TypeOK, NEW w \in Workers, Poll(w), InOrder(w)
    PROVE  InOrder(w)'
<1>1. UNCHANGED <<committed, owner, assigned>>
  BY DEF Poll, broker
<1>2. PICK n \in Fetchable(w) :
        /\ \A p \in Partitions : position'[w][p] = position[w][p] + n[p]
        /\ \A p \in Partitions : pending'[w][p] =
               LastOffset(NewRows(w, n), p, pending[w][p])
  BY PollEffect
<1>3. Owned(w)' = Owned(w)
  BY <1>1 DEF Owned
<1>4. ASSUME NEW p \in Partitions
      PROVE  /\ position[w][p] \in Nat /\ n[p] \in Nat /\ committed[p] \in Nat
             /\ pending[w][p] \in Int
             /\ n[p] > 0 => p \in assigned[w]
  BY DEF TypeOK, Fetchable, Offsets, NoOffset
<1>5. ASSUME NEW p \in Partitions
      PROVE  \/ pending'[w][p] = pending[w][p]
             \/ /\ pending'[w][p] \in Nat
                /\ position[w][p] <= pending'[w][p] /\ pending'[w][p] < position'[w][p]
  <2> DEFINE rows == NewRows(w, n)
  <2>1. rows \in SUBSET Records
    BY DEF NewRows, WellFormed
  <2>2. pending'[w][p] = LastOffset(rows, p, pending[w][p])
    BY <1>2
  <2>3. \A o : <<p, o>> \in rows =>
          o \in Nat /\ position[w][p] <= o /\ o < position[w][p] + n[p]
    BY DEF NewRows, WellFormed, Records, Offsets
  <2> HIDE DEF rows
  <2>4. pending'[w][p] = pending[w][p] \/ <<p, pending'[w][p]>> \in rows
    BY <2>1, <2>2, LastOffsetChoice
  <2> QED BY <1>2, <2>3, <2>4
<1>6. \A p \in Partitions :
        p \in PendingPartitions(w)' => p \in PendingPartitions(w) \/ p \in assigned[w]
  BY <1>2, <1>4, <1>5 DEF PendingPartitions
<1>7. \A p \in Owned(w) : p \in Partitions
  BY DEF Owned
<1>8. \A p \in Owned(w) : committed[p] <= position'[w][p]
  BY <1>2, <1>4, <1>7 DEF InOrder
<1>9. assigned[w] \cup PendingPartitions(w)' \subseteq Owned(w)
  BY <1>6 DEF InOrder, PendingPartitions
<1>10. ASSUME NEW p \in PendingPartitions(w)'
       PROVE  /\ committed[p] <= pending'[w][p] + 1
              /\ pending'[w][p] + 1 <= position'[w][p]
  <2>1. p \in Partitions /\ p \in Owned(w) /\ pending'[w][p] # NoOffset
    BY <1>9 DEF PendingPartitions
  <2>2. CASE pending'[w][p] = pending[w][p]
    <3>1. p \in PendingPartitions(w)
      BY <2>1, <2>2 DEF PendingPartitions
    <3>2. committed[p] <= pending[w][p] + 1 /\ pending[w][p] + 1 <= position[w][p]
      BY <3>1 DEF InOrder, CommitOffset
    <3> QED BY <1>2, <1>4, <2>1, <2>2, <3>2
  <2>3. CASE /\ pending'[w][p] \in Nat
             /\ position[w][p] <= pending'[w][p] /\ pending'[w][p] < position'[w][p]
    <3>1. committed[p] <= position[w][p]
      BY <2>1 DEF InOrder
    <3> QED BY <1>2, <1>4, <2>1, <2>3, <3>1
  <2> QED BY <1>5, <2>1, <2>2, <2>3
<1> QED BY <1>1, <1>3, <1>8, <1>9, <1>10 DEF InOrder, CommitOffset

LEMMA OrderInit == Init => OffsetsInOrder
<1> SUFFICES ASSUME Init PROVE OffsetsInOrder
  OBVIOUS
<1>1. \A w \in Workers : Owned(w) = {} /\ PendingPartitions(w) = {} /\ assigned[w] = {}
  BY DEF Init, Owned, PendingPartitions, NoPending
<1> QED BY <1>1 DEF OffsetsInOrder

\* Without a rebalance a partition has one worker until that worker has ended.
LEMMA OrderStep ==
    ASSUME TypeOK, OffsetsInOrder, [Next]_vars
    PROVE  OffsetsInOrder'
<1>1. rebalances \in Nat
  BY DEF TypeOK
<1>2. SUFFICES ASSUME rebalances' = 0, rebalances = 0, \A w \in Workers : InOrder(w)
               PROVE  \A w \in Workers : InOrder(w)'
  <2>1. rebalances' = rebalances \/ rebalances' = rebalances + 1
    BY <1>1 DEF Next, WorkerStep, vars, counters, Append, JoinGroup, Evict, Start, Poll,
                LeaveLoop, Close, InsertOk, InsertRaises, CommitOk, CommitRaises,
                RequestStop, Crash, ProcessEnds
  <2>2. rebalances' = 0 => rebalances = 0
    BY <1>1, <2>1
  <2> QED BY <2>2 DEF OffsetsInOrder, InOrder
\* Steps that leave every worker's partitions and offsets alone.
<1>3. ASSUME UNCHANGED <<committed, owner, assigned, position, pending>>
      PROVE  \A v \in Workers : InOrder(v)'
  <2>1. \A v \in Workers : Owned(v)' = Owned(v)
    BY <1>3 DEF Owned
  <2> QED BY <1>2, <1>3, <2>1, OrderKept
<1>4. ASSUME NEW p \in Partitions, Append(p) PROVE \A v \in Workers : InOrder(v)'
  BY <1>3, <1>4 DEF Append, memory
<1>5. ASSUME NEW w \in Workers, JoinGroup(w) PROVE \A v \in Workers : InOrder(v)'
  <2>1. PICK gained \in SUBSET Owned(NoWorker) :
          /\ owner' = [p \in Partitions |-> IF p \in gained THEN w ELSE owner[p]]
          /\ assigned' = [assigned EXCEPT ![w] = Owned(w) \cup gained]
          /\ position' = [position EXCEPT ![w] =
                 [p \in Partitions |->
                    IF p \in Owned(w) \cup gained THEN ResumeOffset(p) ELSE @[p]]]
          /\ rebalances' = rebalances + (IF Owned(w) # {} THEN 1 ELSE 0)
    BY <1>5 DEF JoinGroup
  <2>2. UNCHANGED <<committed, pending>>
    BY <1>5 DEF JoinGroup
  <2>3. Owned(w) = {}
    BY <1>1, <1>2, <2>1
  <2>4. Owned(w)' = gained /\ assigned'[w] = gained
    BY <2>1, <2>3 DEF Owned, TypeOK
  <2>5. PendingPartitions(w)' = {}
    BY <1>2, <2>2, <2>3 DEF InOrder, PendingPartitions
  <2>6. \A p \in gained : position'[w][p] = committed[p] /\ committed[p] \in Nat
    BY <2>1 DEF TypeOK, ResumeOffset, Owned
  <2>7. InOrder(w)'
    BY <2>2, <2>4, <2>5, <2>6 DEF InOrder
  <2>8. \A v \in Workers \ {w} :
          /\ Owned(v)' = Owned(v)
          /\ assigned'[v] = assigned[v] /\ position'[v] = position[v]
    BY <2>1 DEF Owned, TypeOK
  <2> QED BY <1>2, <2>2, <2>7, <2>8, OrderKept
<1>6. ASSUME NEW w \in Workers, Evict(w) PROVE FALSE
  BY <1>1, <1>2, <1>6 DEF Evict
<1>7. ASSUME NEW w \in Workers,
             Start(w) \/ LeaveLoop(w) \/ RequestStop(w) \/ InsertOk(w) \/ InsertRaises(w)
      PROVE  \A v \in Workers : InOrder(v)'
  BY <1>3, <1>7 DEF Start, LeaveLoop, RequestStop, InsertOk, InsertRaises, broker, memory
<1>8. ASSUME NEW w \in Workers, Poll(w) PROVE \A v \in Workers : InOrder(v)'
  <2>1. InOrder(w)'
    BY <1>2, <1>8, PollOrder
  <2>2. UNCHANGED <<committed, owner, assigned>>
    BY <1>8 DEF Poll, broker
  <2>3. \A v \in Workers : Owned(v)' = Owned(v)
    BY <2>2 DEF Owned
  <2>4. \A v \in Workers \ {w} : position'[v] = position[v] /\ pending'[v] = pending[v]
    BY <1>8, PollEffect
  <2> QED BY <1>2, <2>1, <2>2, <2>3, <2>4, OrderKept
<1>9. ASSUME NEW w \in Workers, CommitOk(w) \/ CommitRaises(w)
      PROVE  \A v \in Workers : InOrder(v)'
  <2>1. UNCHANGED <<owner, assigned, position>>
    BY <1>9 DEF CommitOk, CommitRaises, memory
  <2>2. \A v \in Workers : Owned(v)' = Owned(v)
    BY <2>1 DEF Owned
  <2>3. PICK S \in SUBSET PendingPartitions(w) : committed' = Applied(w, S)
    BY <1>9, CommitEffect
  <2>4. pending' = pending \/ pending' = [pending EXCEPT ![w] = NoPending]
    BY <1>9, CommitEffect
  <2>5. S \subseteq Owned(w)
    BY <1>2, <2>3 DEF InOrder
  <2>6. ASSUME NEW v \in Workers, v # w PROVE InOrder(v)'
    <3>1. \A p \in Owned(v) : committed'[p] = committed[p]
      BY <2>3, <2>5, <2>6 DEF Applied, Owned
    <3>2. pending'[v] = pending[v]
      BY <2>4, <2>6 DEF TypeOK
    <3> QED BY <1>2, <2>1, <2>2, <3>1, <3>2, OrderKept
  <2>7. InOrder(w)'
    <3>1. \A p \in Partitions : pending'[w][p] = pending[w][p] \/ pending'[w][p] = NoOffset
      BY <2>4 DEF TypeOK, NoPending
    <3>2. PendingPartitions(w)' \subseteq PendingPartitions(w)
      BY <3>1 DEF PendingPartitions
    <3>3. \A p \in PendingPartitions(w)' : pending'[w][p] = pending[w][p]
      BY <3>1 DEF PendingPartitions
    <3>4. \A p \in Partitions :
            /\ committed'[p] = IF p \in S THEN pending[w][p] + 1 ELSE committed[p]
            /\ pending[w][p] \in Int /\ committed[p] \in Int
      BY <2>3 DEF Applied, CommitOffset, TypeOK, Offsets, NoOffset
    <3>5. \A p \in Owned(w) : committed'[p] <= position[w][p]
      BY <1>2, <2>3, <3>4 DEF InOrder, CommitOffset, Owned
    <3>6. \A p \in PendingPartitions(w)' :
            committed'[p] <= pending'[w][p] + 1 /\ pending'[w][p] + 1 <= position[w][p]
      BY <1>2, <3>2, <3>3, <3>4 DEF InOrder, CommitOffset, PendingPartitions
    <3> QED BY <1>2, <2>1, <2>2, <3>2, <3>5, <3>6 DEF InOrder, CommitOffset
  <2> QED BY <2>6, <2>7
<1>10. ASSUME NEW w \in Workers, Close(w) \/ Crash(w)
       PROVE  \A v \in Workers : InOrder(v)'
  <2>1. /\ owner' = [p \in Partitions |-> IF owner[p] = w THEN NoWorker ELSE owner[p]]
        /\ assigned'[w] = {} /\ pending'[w] = NoPending
        /\ \A v \in Workers \ {w} :
              /\ assigned'[v] = assigned[v] /\ position'[v] = position[v]
              /\ pending'[v] = pending[v]
        /\ committed' = committed
    BY <1>10 DEF Close, Crash, ProcessEnds, TypeOK
  <2>2. Owned(w)' = {} /\ \A v \in Workers \ {w} : Owned(v)' = Owned(v)
    BY <2>1 DEF Owned
  <2>3. PendingPartitions(w)' = {}
    BY <2>1 DEF PendingPartitions, NoPending
  <2>4. InOrder(w)'
    BY <2>1, <2>2, <2>3 DEF InOrder
  <2> QED BY <1>2, <2>1, <2>2, <2>4, OrderKept
<1>11. CASE UNCHANGED vars
  BY <1>3, <1>11 DEF vars, broker, memory
<1> QED
  BY <1>4, <1>5, <1>6, <1>7, <1>8, <1>9, <1>10, <1>11 DEF Next, WorkerStep

-----------------------------------------------------------------------------
(* The invariant and what follows from it.                                 *)

LEMMA InvInit == Init => IInv
BY DataInit, BuffersInit, CopiesInit, OrderInit DEF IInv

LEMMA InvStep == IInv /\ [Next]_vars => IInv'
<1> SUFFICES ASSUME IInv, [Next]_vars PROVE IInv'
  OBVIOUS
<1>1. DataInv' /\ TypeOK' /\ TypeOK /\ DataInv
  BY DataStep DEF IInv, DataInv
<1>2. BuffersInOrder'
  <2>1. CASE Next
    BY <1>1, <2>1, BuffersStep DEF IInv
  <2>2. CASE UNCHANGED vars
    BY <2>2 DEF IInv, BuffersInOrder, BufferedRows, vars, memory
  <2> QED BY <2>1, <2>2
<1>3. CopiesAccounted'
  BY <1>1, CopiesStep DEF IInv
<1>4. OffsetsInOrder'
  BY <1>1, OrderStep DEF IInv
<1> QED BY <1>1, <1>2, <1>3, <1>4 DEF IInv

\* The inductive invariant holds throughout: nothing passed is lost, buffers
\* are flushed in time, and every copy of a record is accounted for.
THEOREM Invariant == Spec => []IInv
BY InvInit, InvStep, PTL DEF Spec

LEMMA DataHolds == Spec => []DataInv
<1>1. IInv => DataInv
  BY DEF IInv
<1> QED BY <1>1, Invariant, PTL

\* No event is lost, whatever crashes, failed calls, refused commits and
\* rebalances happen: what lies below a committed offset is in the store.
THEOREM NothingLost == Spec => []NoLoss
<1>1. IInv => NoLoss
  BY DEF IInv, DataInv
<1> QED BY <1>1, Invariant, PTL

\* Until a rebalance disturbs a worker that holds partitions, committed offsets
\* only grow, across crashes, restarts and failed commits.
THEOREM CommitsOnlyGrow == Spec => CommittedNeverRegresses
<1>1. ASSUME IInv, [Next]_vars, NEW p \in Partitions, rebalances = 0
      PROVE  committed'[p] >= committed[p]
  <2>1. TypeOK /\ OffsetsInOrder
    BY <1>1 DEF IInv, DataInv
  <2>2. committed[p] \in Int
    BY <2>1 DEF TypeOK
  <2>3. CASE committed' = committed
    BY <2>2, <2>3
  <2>4. ASSUME NEW w \in Workers, CommitOk(w) \/ CommitRaises(w)
        PROVE  committed'[p] >= committed[p]
    <3>1. PICK S \in SUBSET PendingPartitions(w) : committed' = Applied(w, S)
      BY <2>1, <2>4, CommitEffect
    <3>2. \A q \in PendingPartitions(w) : CommitOffset(w, q) >= committed[q]
      <4>1. \A q \in PendingPartitions(w) :
              committed[q] <= CommitOffset(w, q) /\ committed[q] \in Int
              /\ CommitOffset(w, q) \in Int
        BY <1>1, <2>1 DEF OffsetsInOrder, PendingPartitions, TypeOK, CommitOffset,
                          Offsets, NoOffset
      <4> QED BY <4>1
    <3> QED BY <2>2, <3>1, <3>2 DEF Applied
  <2>5. committed' = committed \/ \E w \in Workers : CommitOk(w) \/ CommitRaises(w)
    BY <1>1 DEF Next, WorkerStep, vars, broker, Append, JoinGroup, Evict, Start, Poll,
                LeaveLoop, Close, InsertOk, InsertRaises, RequestStop, Crash, ProcessEnds
  <2> QED BY <2>3, <2>4, <2>5
<1>2. IInv /\ [Next]_vars =>
        [\A p \in Partitions : rebalances = 0 => committed'[p] >= committed[p]]_vars
  BY <1>1
<1> QED BY <1>2, Invariant, PTL DEF Spec, CommittedNeverRegresses

-----------------------------------------------------------------------------
(* Refinement of EventLog.                                                 *)

LEMMA RefinesInit == Init => Log!Init
BY DEF Init, Log!Init

LEMMA RefinesStep == DataInv /\ [Next]_vars => [Log!Next]_Log!vars
<1> SUFFICES ASSUME DataInv, [Next]_vars PROVE [Log!Next]_Log!vars
  OBVIOUS
<1>0. DataInv'
  BY DataStep
<1> USE DEF Log!Next, Log!vars
<1>1. ASSUME UNCHANGED <<logEnd, committed, events>> PROVE [Log!Next]_Log!vars
  BY <1>1
<1>2. ASSUME NEW p \in Partitions, Append(p) PROVE [Log!Next]_Log!vars
  <2>1. Log!Append(p)
    BY <1>2 DEF Append, Log!Append, tables
  <2> QED BY <2>1
<1>3. ASSUME NEW w \in Workers, InsertOk(w) \/ InsertRaises(w)
      PROVE  [Log!Next]_Log!vars
  <2>1. UNCHANGED <<logEnd, committed>>
    BY <1>3 DEF InsertOk, InsertRaises, broker
  <2>2. PICK S \in SUBSET Buffered(w) : events' = events \cup S
    BY <1>3, InsertEffect DEF DataInv
  <2>3. S \in SUBSET (Log!Published \ Malformed)
    BY <2>2 DEF DataInv, WithinLog, Published, Log!Published, Records, Offsets,
                Log!Records, Log!Offsets
  <2>4. Log!Store
    BY <2>1, <2>2, <2>3 DEF Log!Store
  <2> QED BY <2>4
<1>4. ASSUME NEW w \in Workers, CommitOk(w) \/ CommitRaises(w)
      PROVE  [Log!Next]_Log!vars
  <2>1. UNCHANGED <<logEnd, events>>
    BY <1>4 DEF CommitOk, CommitRaises, tables
  <2>2. committed' \in [Partitions -> 0 .. MaxLog]
    BY <1>0 DEF DataInv, TypeOK
  <2>3. \A p \in Partitions : committed'[p] <= logEnd[p]
    BY <1>0, <2>1 DEF DataInv, WithinLog
  <2>4. Log!Covers(events, committed')
    BY <1>0, <2>1 DEF DataInv, NoLoss, WellFormed, Records, Offsets,
                      Log!Covers, Log!WellFormed, Log!Records, Log!Offsets
  <2>5. Log!Commit
    BY <2>1, <2>2, <2>3, <2>4 DEF Log!Commit
  <2> QED BY <2>5
<1>5. ASSUME NEW w \in Workers,
             \/ JoinGroup(w) \/ Evict(w) \/ Start(w) \/ Poll(w) \/ LeaveLoop(w)
             \/ Close(w) \/ RequestStop(w) \/ Crash(w)
      PROVE  [Log!Next]_Log!vars
  <2>1. UNCHANGED <<logEnd, committed, events>>
    BY <1>5 DEF JoinGroup, Evict, Start, Poll, LeaveLoop, Close, RequestStop,
                Crash, ProcessEnds, broker, tables
  <2> QED BY <1>1, <2>1
<1>6. CASE UNCHANGED vars
  BY <1>1, <1>6 DEF vars, broker, tables
<1> QED BY <1>2, <1>3, <1>4, <1>5, <1>6 DEF Next, WorkerStep

\* The workers together implement the at-least-once log of EventLog: every
\* step of a worker stores published records, commits offsets that cover
\* stored records only, or changes nothing the log shows.
THEOREM Refinement == Spec => ImplementsEventLog
BY RefinesInit, RefinesStep, DataHolds, PTL DEF Spec, ImplementsEventLog, Log!Spec

-----------------------------------------------------------------------------
(* Rows the store cannot take.                                             *)

NeverStored == events \cap Unwritable = {}

LEMMA NeverStoredStep == TypeOK /\ NeverStored /\ [Next]_vars => NeverStored'
<1> SUFFICES ASSUME TypeOK, NeverStored, [Next]_vars PROVE NeverStored'
  OBVIOUS
<1>1. ASSUME UNCHANGED events PROVE NeverStored'
  BY <1>1 DEF NeverStored
<1>2. ASSUME NEW w \in Workers, InsertOk(w) PROVE NeverStored'
  BY <1>2 DEF InsertOk, StoreRows, NeverStored
<1>3. ASSUME NEW w \in Workers, InsertRaises(w) PROVE NeverStored'
  <2>1. CASE UNCHANGED events
    BY <1>1, <2>1
  <2>2. CASE /\ Buffered(w) \cap Unwritable = {}
             /\ \E S \in SUBSET Buffered(w) : StoreRows(w, S)
    BY <2>2 DEF StoreRows, NeverStored
  <2> QED BY <1>3, <2>1, <2>2 DEF InsertRaises, tables
<1>4. ASSUME NEW p \in Partitions, Append(p) PROVE NeverStored'
  BY <1>1, <1>4 DEF Append, tables
<1>5. ASSUME NEW w \in Workers,
             \/ JoinGroup(w) \/ Evict(w) \/ Start(w) \/ Poll(w) \/ LeaveLoop(w)
             \/ Close(w) \/ RequestStop(w) \/ Crash(w)
             \/ CommitOk(w) \/ CommitRaises(w)
      PROVE  NeverStored'
  <2>1. UNCHANGED events
    BY <1>5 DEF JoinGroup, Evict, Start, Poll, LeaveLoop, Close, RequestStop,
                Crash, CommitOk, CommitRaises, ProcessEnds, broker, tables
  <2> QED BY <1>1, <2>1
<1>6. CASE UNCHANGED vars
  BY <1>1, <1>6 DEF vars, tables
<1> QED BY <1>2, <1>3, <1>4, <1>5, <1>6 DEF Next, WorkerStep

\* The group never gets past a row the store cannot take: the row is not in
\* the events table, and by NoLoss no committed offset covers it.
THEOREM UnwritableHolds == Spec => []UnwritableHoldsPartition
<1>1. Init => NeverStored
  BY DEF Init, NeverStored
<1>2. DataInv => TypeOK
  BY DEF DataInv
<1>3. DataInv /\ NeverStored => UnwritableHoldsPartition
  <2> SUFFICES ASSUME DataInv, NeverStored, NEW r \in Unwritable \ Malformed
               PROVE  committed[r[1]] <= r[2] /\ r \notin events
    BY DEF UnwritableHoldsPartition
  <2>1. r \notin events
    BY DEF NeverStored
  <2>2. r \in WellFormed /\ r[1] \in Partitions /\ r[2] \in Nat
    BY DEF WellFormed, Records, Offsets
  <2>3. ~(r[2] < committed[r[1]])
    BY <2>1, <2>2 DEF DataInv, NoLoss
  <2>4. committed[r[1]] \in Nat
    BY <2>2 DEF DataInv, TypeOK
  <2> QED BY <2>1, <2>2, <2>3, <2>4
<1> QED BY <1>1, <1>2, <1>3, NeverStoredStep, DataHolds, PTL DEF Spec

\* The bounds on the rows in memory and on the copies in the store.
LEMMA BoundsHold == IInv => BufferBounded /\ DuplicatesNeedFaults
<1> SUFFICES ASSUME IInv PROVE BufferBounded /\ DuplicatesNeedFaults
  OBVIOUS
<1>1. TypeOK
  BY DEF IInv, DataInv
<1>2. BufferBounded
  <2> SUFFICES ASSUME NEW w \in Workers PROVE BufferedRows(w) < 2 * BatchMax
    BY DEF BufferBounded
  <2>1. BufferedRows(w) \in Nat
    BY <1>1, BufferCounts DEF BufferedRows, TypeOK
  <2>2. BufferedRows(w) < BatchMax \/ BufferedRows(w) < 2 * BatchMax
    BY DEF IInv, BuffersInOrder
  <2> QED BY <2>1, <2>2
<1>3. DuplicatesNeedFaults
  <2> SUFFICES ASSUME NEW r \in Records PROVE kpi[r] <= CopiesAllowed
    BY DEF DuplicatesNeedFaults
  <2>1. CopiesAllowed \in Nat /\ kpi[r] \in Nat
    BY <1>1, AllowedGrows DEF TypeOK
  <2>2. CASE r \in Malformed
    BY <2>1, <2>2 DEF IInv, CopiesAccounted
  <2>3. CASE r \in WellFormed
    <3> DEFINE t == [w \in Workers |-> ToCome(w, r)]
    <3>1. kpi[r] + SumFunction(t) + Unowned(r) <= CopiesAllowed
      BY <2>3 DEF IInv, CopiesAccounted
    <3>2. t \in [Workers -> Nat]
      BY <1>1, <2>3, CopiesTyped
    <3> HIDE DEF t
    <3>3. SumFunction(t) \in Nat /\ Unowned(r) \in Nat
      BY <3>2, SumNat DEF Unowned
    <3> QED BY <2>1, <3>1, <3>3
  <2> QED BY <2>2, <2>3 DEF WellFormed
<1> QED BY <1>2, <1>3

\* The store forgets nothing.
LEMMA StoreGrows == [Next]_vars => events \subseteq events'
BY DEF Next, WorkerStep, vars, broker, tables, Append, JoinGroup, Evict, Start, Poll, LeaveLoop,
       Close, RequestStop, Crash, ProcessEnds, InsertOk, InsertRaises, StoreRows, CommitOk,
       CommitRaises

\* What goes wrong stays bounded, whatever the interleaving: the rows in memory
\* by two batches, the copies of an event in the store by the rebalances and
\* faults so far, and the progress of the group by a row it cannot write.
THEOREM Bounded == Spec => []WithinBounds
<1>1. BufferBounded /\ DuplicatesNeedFaults /\ UnwritableHoldsPartition => WithinBounds
  BY DEF WithinBounds
<1> QED BY <1>1, BoundsHold, Invariant, UnwritableHolds, PTL
=============================================================================
