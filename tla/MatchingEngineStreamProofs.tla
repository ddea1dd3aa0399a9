---------------------- MODULE MatchingEngineStreamProofs ----------------------
(***************************************************************************)
(* What the queues keep and what the published events say, for every set   *)
(* of orders, prices and requests: proofs of the properties of module      *)
(* MatchingEngineProperties, on top of the invariant of                    *)
(* MatchingEngineProofs.                                                   *)
(***************************************************************************)
EXTENDS MatchingEngineProperties, MatchingEngineProofs, FiniteSetTheorems,
        NaturalsInduction, WellFoundedInduction

-----------------------------------------------------------------------------
(***************************************************************************)
(* Sums over finite sets of indices, for every set and every function:     *)
(* what SumFunctionOnSet of module Functions does when an index is added.  *)
(* The library defines it by recursion over subsets, in an order that      *)
(* CHOOSE picks; that the recursion is well defined and that its order     *)
(* does not matter is proved here by induction on the size of the set.     *)
(***************************************************************************)
\* Induction over a set of naturals: one that holds 0 and with n also n + 1
\* holds them all.
LEMMA SetInduction ==
    ASSUME NEW T \in SUBSET Nat, 0 \in T, \A n \in T : n + 1 \in T
    PROVE  T = Nat
<1> DEFINE rest == Nat \ T
<1>1. SUFFICES ASSUME rest # {} PROVE FALSE
  OBVIOUS
<1>2. PICK m \in rest : \A x \in rest : <<x, m>> \notin OpToRel(<, Nat)
  <2>1. rest \in SUBSET Nat
    OBVIOUS
  <2> HIDE DEF rest
  <2>2. QED
    BY <1>1, <2>1, NatLessThanWellFounded, WFMin
<1>3. \A x \in rest : ~(x < m)
  BY <1>2 DEF OpToRel
<1>4. m \in Nat /\ m # 0 /\ m - 1 \in Nat /\ m - 1 < m
  OBVIOUS
<1>5. m - 1 \in T
  BY <1>3, <1>4
<1>6. (m - 1) + 1 \in T
  BY <1>5
<1>7. QED
  BY <1>4, <1>6

\* What SumFunctionOnSet's recursion says of the table h of the sums of f over
\* the subsets of S.
IsSumTable(h, f, S) ==
    h = [s \in SUBSET S |->
            IF s = {} THEN 0
            ELSE f[CHOOSE x \in s : TRUE] + h[s \ {CHOOSE x \in s : TRUE}]]

UpTo(S, n) == {s \in SUBSET S : Cardinality(s) <= n}

\* The same for the subsets with at most n elements.
IsPartialTable(h, f, S, n) ==
    h = [s \in UpTo(S, n) |->
            IF s = {} THEN 0
            ELSE f[CHOOSE x \in s : TRUE] + h[s \ {CHOOSE x \in s : TRUE}]]

\* A set without one of its elements is smaller.
LEMMA SmallerSubset ==
    ASSUME NEW S, IsFiniteSet(S), NEW n \in Nat, NEW s \in UpTo(S, n + 1), NEW x \in s
    PROVE  s \ {x} \in UpTo(S, n)
<1>1. s \in SUBSET S /\ IsFiniteSet(s) /\ Cardinality(s) \in Nat /\ Cardinality(s) <= n + 1
  BY FS_Subset, FS_CardinalityType DEF UpTo
<1>2. Cardinality(s \ {x}) = Cardinality(s) - 1
  BY <1>1, FS_RemoveElement
<1>3. QED
  BY <1>1, <1>2 DEF UpTo

\* For every size there is a table of the sums up to that size.
LEMMA PartialTables ==
    ASSUME NEW f, NEW S, IsFiniteSet(S), NEW n \in Nat
    PROVE  \E h : IsPartialTable(h, f, S, n)
<1> DEFINE T == {k \in Nat : \E h : IsPartialTable(h, f, S, k)}
<1>1. 0 \in T
  <2>1. \A s \in UpTo(S, 0) : s = {}
    <3>1. TAKE s \in UpTo(S, 0)
    <3>2. IsFiniteSet(s) /\ Cardinality(s) \in Nat /\ Cardinality(s) <= 0
      BY FS_Subset, FS_CardinalityType DEF UpTo
    <3>3. QED
      BY <3>2, FS_EmptySet
  <2>2. IsPartialTable([s \in UpTo(S, 0) |-> 0], f, S, 0)
    BY <2>1 DEF IsPartialTable
  <2>3. QED
    BY <2>2
<1>2. ASSUME NEW k \in T PROVE k + 1 \in T
  <2>1. PICK g : IsPartialTable(g, f, S, k)
    OBVIOUS
  <2> DEFINE h == [s \in UpTo(S, k + 1) |->
                    IF s = {} THEN 0
                    ELSE f[CHOOSE x \in s : TRUE] + g[s \ {CHOOSE x \in s : TRUE}]]
  <2>2. \A s \in UpTo(S, k) : s \in UpTo(S, k + 1) /\ h[s] = g[s]
    <3>1. TAKE s \in UpTo(S, k)
    <3>2. IsFiniteSet(s) /\ Cardinality(s) \in Nat /\ Cardinality(s) <= k
      BY FS_Subset, FS_CardinalityType DEF UpTo
    <3>3. s \in UpTo(S, k + 1)
      BY <3>2 DEF UpTo
    <3>4. g[s] = IF s = {} THEN 0
                 ELSE f[CHOOSE x \in s : TRUE] + g[s \ {CHOOSE x \in s : TRUE}]
      BY <2>1 DEF IsPartialTable
    <3>5. QED
      BY <3>3, <3>4
  <2>3. ASSUME NEW s \in UpTo(S, k + 1), s # {}
        PROVE  h[s \ {CHOOSE x \in s : TRUE}] = g[s \ {CHOOSE x \in s : TRUE}]
    <3>1. s \ {CHOOSE x \in s : TRUE} \in UpTo(S, k)
      <4>1. (CHOOSE x \in s : TRUE) \in s
        BY <2>3
      <4>2. QED
        BY <4>1, SmallerSubset
    <3>2. QED
      BY <2>2, <3>1
  <2>4. IsPartialTable(h, f, S, k + 1)
    <3> DEFINE unfolded == [s \in UpTo(S, k + 1) |->
                    IF s = {} THEN 0
                    ELSE f[CHOOSE x \in s : TRUE] + h[s \ {CHOOSE x \in s : TRUE}]]
    <3>1. ASSUME NEW s \in UpTo(S, k + 1) PROVE h[s] = unfolded[s]
      <4>1. CASE s = {}
        BY <4>1
      <4>2. CASE s # {}
        <5>1. h[s] = f[CHOOSE x \in s : TRUE] + g[s \ {CHOOSE x \in s : TRUE}]
          BY <4>2
        <5>2. unfolded[s] = f[CHOOSE x \in s : TRUE] + h[s \ {CHOOSE x \in s : TRUE}]
          BY <4>2
        <5> HIDE DEF h, unfolded
        <5>3. QED
          BY <5>1, <5>2, <2>3, <4>2
      <4>3. QED
        BY <4>1, <4>2
    <3>2. /\ DOMAIN h = UpTo(S, k + 1) /\ DOMAIN unfolded = UpTo(S, k + 1)
          /\ h = [s \in DOMAIN h |-> h[s]] /\ unfolded = [s \in DOMAIN unfolded |-> unfolded[s]]
      OBVIOUS
    <3> HIDE DEF h, unfolded
    <3>3. h = unfolded
      BY <3>1, <3>2
    <3>4. QED
      BY <3>3 DEF IsPartialTable, unfolded
  <2>5. QED
    BY <2>4
<1> HIDE DEF T
<1>3. T = Nat
  <2>1. T \in SUBSET Nat
    BY DEF T
  <2>2. QED
    BY <1>1, <1>2, <2>1, SetInduction
<1>4. QED
  BY <1>3 DEF T

\* There is a table of all sums, and the library's sum is read from one.
LEMMA SumTable ==
    ASSUME NEW f, NEW S, IsFiniteSet(S)
    PROVE  \E h : IsSumTable(h, f, S) /\ SumFunctionOnSet(f, S) = h[S]
<1>1. \E h : IsSumTable(h, f, S)
  <2> DEFINE n == Cardinality(S)
  <2>1. n \in Nat /\ UpTo(S, n) = SUBSET S
    BY FS_CardinalityType, FS_Subset DEF UpTo
  <2>2. PICK h : IsPartialTable(h, f, S, n)
    BY <2>1, PartialTables
  <2>3. IsSumTable(h, f, S)
    BY <2>1, <2>2 DEF IsPartialTable, IsSumTable
  <2>4. QED
    BY <2>3
<1> DEFINE h == CHOOSE h : IsSumTable(h, f, S)
<1>2. IsSumTable(h, f, S)
  BY <1>1
<1>3. SumFunctionOnSet(f, S) = h[S]
  BY DEF SumFunctionOnSet, FoldFunctionOnSet, MapThenFoldSet, IsSumTable
<1>4. QED
  BY <1>2, <1>3

\* The table of sums may take any element of a set first.
LEMMA TableStep ==
    ASSUME NEW f, NEW S, IsFiniteSet(S), \A x \in S : f[x] \in Int,
           NEW h, IsSumTable(h, f, S), NEW n \in Nat
    PROVE  \A s \in UpTo(S, n) :
              h[s] \in Int /\ \A x \in s : h[s] = f[x] + h[s \ {x}]
<1> DEFINE Good(s) == h[s] \in Int /\ \A x \in s : h[s] = f[x] + h[s \ {x}]
           T == {k \in Nat : \A s \in UpTo(S, k) : Good(s)}
<1>1. \A s \in SUBSET S : h[s] = IF s = {} THEN 0
         ELSE f[CHOOSE x \in s : TRUE] + h[s \ {CHOOSE x \in s : TRUE}]
  BY DEF IsSumTable
<1>2. 0 \in T
  <2>1. \A s \in UpTo(S, 0) : s = {}
    <3>1. TAKE s \in UpTo(S, 0)
    <3>2. IsFiniteSet(s) /\ Cardinality(s) \in Nat /\ Cardinality(s) <= 0
      BY FS_Subset, FS_CardinalityType DEF UpTo
    <3>3. QED
      BY <3>2, FS_EmptySet
  <2>2. h[{}] = 0
    BY <1>1
  <2>3. QED
    BY <2>1, <2>2
<1>3. ASSUME NEW k \in T PROVE k + 1 \in T
  <2>1. SUFFICES ASSUME NEW s \in UpTo(S, k + 1) PROVE Good(s)
    OBVIOUS
  <2>2. \A t \in UpTo(S, k) : Good(t)
    OBVIOUS
  <2>3. s \in SUBSET S
    BY DEF UpTo
  <2>4. CASE s = {}
    BY <1>1, <2>4
  <2>5. CASE s # {}
    <3> DEFINE y == CHOOSE x \in s : TRUE
    <3>1. y \in s
      BY <2>5
    <3>2. h[s] = f[y] + h[s \ {y}]
      BY <1>1, <2>3, <2>5
    <3> HIDE DEF y
    <3>3. \A x \in s : /\ s \ {x} \in UpTo(S, k)
                      /\ h[s \ {x}] \in Int
                      /\ \A z \in s \ {x} : h[s \ {x}] = f[z] + h[(s \ {x}) \ {z}]
      BY <2>2, SmallerSubset
    <3>4. \A x \in s : f[x] \in Int
      BY <2>3
    <3>5. ASSUME NEW x \in s, x # y
          PROVE  h[s] = f[x] + h[s \ {x}]
      <4>1. h[s \ {y}] = f[x] + h[(s \ {y}) \ {x}]
        BY <3>1, <3>3, <3>5
      <4>2. h[s \ {x}] = f[y] + h[(s \ {x}) \ {y}]
        BY <3>1, <3>3, <3>5
      <4>3. (s \ {y}) \ {x} = (s \ {x}) \ {y}
        OBVIOUS
      <4> DEFINE rest == h[(s \ {x}) \ {y}]
      <4>4. rest \in Int
        <5>1. s \ {x} \in UpTo(S, k) /\ s \ {x} \in SUBSET S /\ IsFiniteSet(s \ {x})
          BY <2>3, <3>3, FS_Subset
        <5>2. Cardinality((s \ {x}) \ {y}) <= k
          <6> DEFINE t == s \ {x}
          <6>1. IsFiniteSet(t) /\ Cardinality(t) \in Nat /\ Cardinality(t) <= k
            BY <5>1, FS_CardinalityType DEF UpTo
          <6> HIDE DEF t
          <6>2. Cardinality(t \ {y}) = IF y \in t THEN Cardinality(t) - 1 ELSE Cardinality(t)
            BY <6>1, FS_RemoveElement
          <6>3. Cardinality(t \ {y}) <= k
            BY <6>1, <6>2
          <6>4. QED
            BY <6>3 DEF t
        <5>3. (s \ {x}) \ {y} \in UpTo(S, k)
          BY <5>1, <5>2 DEF UpTo
        <5>4. QED
          BY <5>3, <2>2
      <4>5. h[s \ {y}] = f[x] + rest /\ h[s \ {x}] = f[y] + rest
        BY <4>1, <4>2, <4>3
      <4> HIDE DEF rest
      <4>6. QED
        BY <3>1, <3>2, <3>4, <4>4, <4>5
    <3>6. h[s] \in Int
      BY <3>1, <3>2, <3>3, <3>4
    <3>7. QED
      BY <3>2, <3>5, <3>6
  <2>6. QED
    BY <2>4, <2>5
<1> HIDE DEF T, Good
<1>4. T = Nat
  <2>1. T \in SUBSET Nat
    BY DEF T
  <2>2. QED
    BY <1>2, <1>3, <2>1, SetInduction
<1>5. QED
  BY <1>4 DEF T, Good

\* Two tables agree where the functions do.
LEMMA TablesAgree ==
    ASSUME NEW S, IsFiniteSet(S), NEW f, NEW h, IsSumTable(h, f, S),
           NEW R, IsFiniteSet(R), NEW g, NEW j, IsSumTable(j, g, R),
           S \subseteq R, \A x \in S : f[x] = g[x], NEW n \in Nat
    PROVE  \A s \in UpTo(S, n) : h[s] = j[s]
<1> DEFINE T == {k \in Nat : \A s \in UpTo(S, k) : h[s] = j[s]}
<1>1. \A s \in SUBSET S :
        /\ h[s] = IF s = {} THEN 0
                  ELSE f[CHOOSE x \in s : TRUE] + h[s \ {CHOOSE x \in s : TRUE}]
        /\ j[s] = IF s = {} THEN 0
                  ELSE g[CHOOSE x \in s : TRUE] + j[s \ {CHOOSE x \in s : TRUE}]
  <2>1. TAKE s \in SUBSET S
  <2>2. s \in SUBSET R
    OBVIOUS
  <2>3. QED
    BY <2>2 DEF IsSumTable
<1>2. 0 \in T
  <2>1. \A s \in UpTo(S, 0) : s = {}
    <3>1. TAKE s \in UpTo(S, 0)
    <3>2. IsFiniteSet(s) /\ Cardinality(s) \in Nat /\ Cardinality(s) <= 0
      BY FS_Subset, FS_CardinalityType DEF UpTo
    <3>3. QED
      BY <3>2, FS_EmptySet
  <2>2. h[{}] = 0 /\ j[{}] = 0
    BY <1>1
  <2>3. QED
    BY <2>1, <2>2
<1>3. ASSUME NEW k \in T PROVE k + 1 \in T
  <2>1. SUFFICES ASSUME NEW s \in UpTo(S, k + 1) PROVE h[s] = j[s]
    OBVIOUS
  <2>2. s \in SUBSET S
    BY DEF UpTo
  <2>3. CASE s = {}
    BY <1>1, <2>3
  <2>4. CASE s # {}
    <3> DEFINE y == CHOOSE x \in s : TRUE
    <3>1. y \in s
      BY <2>4
    <3>2. h[s] = f[y] + h[s \ {y}] /\ j[s] = g[y] + j[s \ {y}]
      BY <1>1, <2>2, <2>4
    <3> HIDE DEF y
    <3>3. s \ {y} \in UpTo(S, k)
      BY <3>1, SmallerSubset
    <3>4. h[s \ {y}] = j[s \ {y}] /\ f[y] = g[y]
      BY <2>2, <3>1, <3>3
    <3>5. QED
      BY <3>2, <3>4
  <2>5. QED
    BY <2>3, <2>4
<1> HIDE DEF T
<1>4. T = Nat
  <2>1. T \in SUBSET Nat
    BY DEF T
  <2>2. QED
    BY <1>2, <1>3, <2>1, SetInduction
<1>5. QED
  BY <1>4 DEF T

\* The sum of nothing.
LEMMA SumOfNone == \A f : SumFunctionOnSet(f, {}) = 0
<1>1. TAKE f
<1>2. PICK h : IsSumTable(h, f, {}) /\ SumFunctionOnSet(f, {}) = h[{}]
  BY SumTable, FS_EmptySet
<1>3. QED
  BY <1>2 DEF IsSumTable

\* One index more adds its value, whatever order the sum takes them in.
LEMMA SumOfOneMore ==
    ASSUME NEW S, IsFiniteSet(S), NEW f, NEW g, NEW x, x \notin S,
           NEW R, R = S \cup {x}, g[x] \in Int, \A y \in S : f[y] \in Int, \A y \in S : g[y] = f[y]
    PROVE  SumFunctionOnSet(g, R) = SumFunctionOnSet(f, S) + g[x]
<1> DEFINE n == Cardinality(R)
<1>1. IsFiniteSet(R) /\ n \in Nat /\ Cardinality(S) \in Nat /\ Cardinality(S) <= n
  <2>1. Cardinality(S) \in Nat
    BY FS_CardinalityType
  <2>2. IsFiniteSet(R) /\ n = Cardinality(S) + 1
    BY FS_AddElement
  <2>3. QED
    BY <2>1, <2>2
<1>2. PICK h : IsSumTable(h, f, S) /\ SumFunctionOnSet(f, S) = h[S]
  BY SumTable
<1>3. PICK j : IsSumTable(j, g, R) /\ SumFunctionOnSet(g, R) = j[R]
  BY <1>1, SumTable
<1>4. h[S] = j[S]
  <2>1. S \in UpTo(S, n)
    BY <1>1 DEF UpTo
  <2>2. S \subseteq R /\ \A y \in S : f[y] = g[y]
    OBVIOUS
  <2> HIDE DEF n
  <2>3. QED
    BY <1>1, <1>2, <1>3, <2>1, <2>2, TablesAgree
<1>5. j[R] = g[x] + j[S] /\ j[S] \in Int
  <2>1. \A y \in R : g[y] \in Int
    OBVIOUS
  <2>2. R \in UpTo(R, n) /\ S \in UpTo(R, n)
    BY <1>1 DEF UpTo
  <2>3. x \in R /\ R \ {x} = S
    OBVIOUS
  <2> HIDE DEF n
  <2>4. \A s \in UpTo(R, n) : j[s] \in Int /\ \A y \in s : j[s] = g[y] + j[s \ {y}]
    BY <1>1, <1>3, <2>1, TableStep
  <2>5. QED
    BY <2>2, <2>3, <2>4
<1>6. QED
  BY <1>2, <1>3, <1>4, <1>5

\* The sum depends on nothing but the values at the indices.
LEMMA SumOfSame ==
    ASSUME NEW S, IsFiniteSet(S), NEW f, NEW g,
           \A y \in S : g[y] = f[y]
    PROVE  SumFunctionOnSet(g, S) = SumFunctionOnSet(f, S)
<1>1. PICK h : IsSumTable(h, f, S) /\ SumFunctionOnSet(f, S) = h[S]
  BY SumTable
<1>2. PICK j : IsSumTable(j, g, S) /\ SumFunctionOnSet(g, S) = j[S]
  BY SumTable
<1>3. Cardinality(S) \in Nat /\ S \in UpTo(S, Cardinality(S))
  BY FS_CardinalityType DEF UpTo
<1>4. \A s \in UpTo(S, Cardinality(S)) : h[s] = j[s]
  BY <1>1, <1>2, <1>3, TablesAgree
<1>5. QED
  BY <1>1, <1>2, <1>3, <1>4

\* Sums of integers are integers.
LEMMA SumIsInt ==
    ASSUME NEW S, IsFiniteSet(S), NEW f, \A y \in S : f[y] \in Int
    PROVE  SumFunctionOnSet(f, S) \in Int
<1>1. PICK h : IsSumTable(h, f, S) /\ SumFunctionOnSet(f, S) = h[S]
  BY SumTable
<1>2. Cardinality(S) \in Nat /\ S \in UpTo(S, Cardinality(S))
  BY FS_CardinalityType DEF UpTo
<1>3. QED
  BY <1>1, <1>2, TableStep

-----------------------------------------------------------------------------
(***************************************************************************)
(* Place in the queue.                                                     *)
(***************************************************************************)
\* Two orders that queue in old and in new stand in the same order in both.
KeepsOrder(old, new) ==
    \A i, j \in 1..Len(old) : \A k, l \in 1..Len(new) :
        old[i] = new[k] /\ old[j] = new[l] /\ i < j => k < l

\* A queue that nobody is in twice keeps its own order.
LEMMA SameQueueKeepsOrder ==
    ASSUME NEW b \in BookSides, WellFormed(b), NEW p \in Prices
    PROVE  KeepsOrder(b.queue[p], b.queue[p])
BY DEF KeepsOrder, WellFormed, QueuedOnce

\* Who is added goes behind everybody else.
LEMMA AddOrderKeepsOrder ==
    ASSUME NEW b \in BookSides, WellFormed(b),
           NEW o \in Orders, ~Resting(b, o),
           NEW price \in Prices, NEW quantity \in Int, NEW p \in Prices
    PROVE  KeepsOrder(b.queue[p], AddOrder(b, o, price, quantity).queue[p])
<1> DEFINE old == b.queue[p]
           new == AddOrder(b, o, price, quantity).queue[p]
<1>1. old \in Seq(Orders)
  BY DEF BookSides
<1>2. CASE p # price
  <2>1. new = old
    BY <1>2 DEF AddOrder, BookSides
  <2>2. QED
    BY <2>1, SameQueueKeepsOrder
<1>3. CASE p = price
  <2>1. new = Append(old, o)
    BY <1>3 DEF AddOrder, BookSides
  <2>2. /\ Len(new) = Len(old) + 1
        /\ \A i \in 1..Len(old) : new[i] = old[i]
        /\ new[Len(old) + 1] = o
    BY <1>1, <2>1, AppendProperties
  <2>3. \A i \in 1..Len(old) : old[i] # o
    BY <1>3, PricesAssumption DEF WellFormed, LookupExact, Resting, NoPrice
  <2>4. \A i, j \in 1..Len(old) : old[i] = old[j] => i = j
    BY DEF WellFormed, QueuedOnce
  <2>5. Len(old) \in Nat
    BY <1>1, LenProperties
  <2> HIDE DEF old, new
  <2>6. \A i \in 1..Len(old), k \in 1..Len(new) : old[i] = new[k] => i = k
    BY <2>2, <2>3, <2>4, <2>5
  <2>7. KeepsOrder(old, new)
    BY <2>6 DEF KeepsOrder
  <2>8. QED
    BY <2>7 DEF old, new
<1>4. QED
  BY <1>2, <1>3

\* Who is removed leaves the others in their order.
LEMMA RemoveOrderKeepsOrder ==
    ASSUME NEW b \in BookSides, WellFormed(b),
           NEW o \in Orders, Resting(b, o), NEW quantity \in Int, NEW p \in Prices
    PROVE  KeepsOrder(b.queue[p], RemoveOrder(b, o, quantity).queue[p])
<1> DEFINE price == b.orderToPrice[o]
           old == b.queue[p]
           new == RemoveOrder(b, o, quantity).queue[p]
           position == PositionOf(b.queue[price], o)
<1>1. old \in Seq(Orders) /\ price \in Prices
  BY DEF BookSides, Resting
<1>2. CASE p # price
  <2>1. new = old
    BY <1>2 DEF RemoveOrder, BookSides
  <2>2. QED
    BY <2>1, SameQueueKeepsOrder
<1>3. CASE p = price
  <2>1. \E i \in 1..Len(old) : old[i] = o
    BY <1>1, <1>3 DEF WellFormed, LookupExact
  <2>2. position \in 1..Len(old)
    BY <1>3, <2>1 DEF PositionOf
  <2>3. new = RemoveAt(old, position)
    BY <1>1, <1>3 DEF RemoveOrder, Without, BookSides
  <2> HIDE DEF position, new
  <2>4. /\ Len(new) = Len(old) - 1
        /\ \A i \in 1..(Len(old) - 1) :
                new[i] = IF i < position THEN old[i] ELSE old[i + 1]
    BY <1>1, <2>2, <2>3, RemoveAtProperties
  <2>5. \A i, j \in 1..Len(old) : old[i] = old[j] => i = j
    BY DEF WellFormed, QueuedOnce
  <2>6. Len(old) \in Nat
    BY <1>1, LenProperties
  <2> HIDE DEF old
  <2>7. \A i \in 1..Len(old), k \in 1..Len(new) :
           old[i] = new[k] => i = IF k < position THEN k ELSE k + 1
    BY <2>2, <2>4, <2>5, <2>6
  <2>8. KeepsOrder(old, new)
    BY <2>2, <2>6, <2>4, <2>7 DEF KeepsOrder
  <2>9. QED
    BY <2>8 DEF old, new
<1>4. QED
  BY <1>2, <1>3

\* Every step leaves the queues alone, drops stale prices, adds one order or
\* removes one.
LEMMA NextKeepsOrder ==
    ASSUME IInv, [Next]_vars, NEW side \in Sides, NEW p \in Prices
    PROVE  KeepsOrder(book[side].queue[p], book'[side].queue[p])
<1>1. book[side] \in BookSides /\ WellFormed(book[side]) /\ book \in [Sides -> BookSides]
  BY BookFacts DEF IInv, TypeOK
<1>2. KeepsOrder(book[side].queue[p], book[side].queue[p])
  BY <1>1, SameQueueKeepsOrder
<1>3. CASE book' = book
  BY <1>2, <1>3
<1>4. ASSUME NEW o \in Orders,
             SelectLevel(o) \/ FillFront(o) \/ Finish(o)
      PROVE  KeepsOrder(book[side].queue[p], book'[side].queue[p])
  <2> DEFINE against == Opposite(Side(o))
  <2>1. pc[o] \in {"select", "fill"}
    BY <1>4 DEF SelectLevel, FillFront, Finish
  <2>2. /\ Side(o) \in Sides /\ against \in Sides /\ against # Side(o)
        /\ ~IsMarket(o) => request[o].limit \in Prices
    BY <2>1, RequestFields, SidesFacts
  <2>3. book[against] \in BookSides /\ WellFormed(book[against])
    BY <2>2, BookFacts
  <2>4. FreshOpposite(o).queue = book[against].queue
    BY <2>2, <2>3, CleanStaleHeapTopWellFormed DEF FreshOpposite
  <2>5. CASE SelectLevel(o)
    <3>1. book' = [book EXCEPT ![against] = FreshOpposite(o)]
      BY <2>5 DEF SelectLevel
    <3>2. book'[side].queue = book[side].queue
      BY <1>1, <2>4, <3>1
    <3>3. QED
      BY <1>2, <3>2
  <2>6. CASE FillFront(o)
    <3> DEFINE maker == book[against].queue[bestPrice][1]
    <3>1. maker \in Orders /\ Resting(book[against], maker)
      BY <2>1, <2>3, <2>6, FrontRests DEF FillFront, MayFill, IInv, FillsAtBestPrice
    <3>2. \/ book' = book
          \/ book' = [book EXCEPT ![against] = RemoveOrder(book[against], maker, 0)]
      BY <2>6, Zenon DEF FillFront, FrontOrder
    <3>3. KeepsOrder(book[against].queue[p],
                     RemoveOrder(book[against], maker, 0).queue[p])
      BY <2>3, <3>1, RemoveOrderKeepsOrder
    <3> HIDE DEF maker
    <3>4. QED
      BY <1>1, <1>2, <3>2, <3>3
  <2>7. CASE Finish(o)
    <3> DEFINE mine == AddOrder(book[Side(o)], o, request[o].limit, remaining)
    <3>1. PICK opposite \in {book[against], FreshOpposite(o)} :
            IF Rests(o)
            THEN book' = [book EXCEPT ![against] = opposite, ![Side(o)] =
                                AddOrder(@, o, request[o].limit, remaining)]
            ELSE book' = [book EXCEPT ![against] = opposite]
      BY <2>7 DEF Finish
    <3>2. opposite.queue = book[against].queue
      BY <2>4, <3>1
    <3>3. Rests(o) => KeepsOrder(book[Side(o)].queue[p], mine.queue[p])
      <4>1. ~Resting(book[Side(o)], o)
        BY <2>1, <2>2 DEF IInv, OnlyOpenLimitOrdersRest
      <4>2. book[Side(o)] \in BookSides /\ WellFormed(book[Side(o)])
        BY <2>2, BookFacts
      <4>3. remaining \in Int
        BY DEF IInv, TypeOK
      <4>4. QED
        BY <2>2, <4>1, <4>2, <4>3, AddOrderKeepsOrder DEF Rests
    <3>4. Rests(o) => book'[Side(o)] = mine
      BY <1>1, <2>2, <3>1
    <3>5. ~(Rests(o) /\ side = Side(o)) => book'[side].queue = book[side].queue
      BY <1>1, <2>2, <3>1, <3>2
    <3> HIDE DEF mine
    <3>6. QED
      BY <1>2, <3>3, <3>4, <3>5
  <2>8. QED
    BY <1>4, <2>5, <2>6, <2>7
<1>5. ASSUME NEW o \in Orders, NEW s \in Sides, Cancel(o, s)
      PROVE  KeepsOrder(book[side].queue[p], book'[side].queue[p])
  <2>1. /\ Resting(book[s], o)
        /\ book' = [book EXCEPT ![s] = RemoveOrder(book[s], o, qty[o])]
    BY <1>5 DEF Cancel
  <2>2. book[s] \in BookSides /\ WellFormed(book[s]) /\ qty[o] \in Int
    BY BookFacts DEF IInv, TypeOK
  <2>3. KeepsOrder(book[s].queue[p], RemoveOrder(book[s], o, qty[o]).queue[p])
    BY <2>1, <2>2, RemoveOrderKeepsOrder
  <2>4. QED
    BY <1>1, <1>2, <2>1, <2>3
<1>6. QED
  BY <1>3, <1>4, <1>5 DEF Next, vars, Submit, Reject, Accept, LeaveLevel

\* An order that rests never loses its place to another one of its level.
THEOREM QueuePlaceKept == Spec => PlaceInQueueIsKept
<1>1. IInv /\ [Next]_vars =>
        [\A side \in Sides, p \in Prices :
            KeepsOrder(book[side].queue[p], book'[side].queue[p])]_vars
  BY NextKeepsOrder
<1>2. QED
  BY <1>1, Invariance, PTL DEF Spec, PlaceInQueueIsKept, KeepsOrder

-----------------------------------------------------------------------------
(***************************************************************************)
(* What the stream says of an order.                                       *)
(***************************************************************************)
Placed(o) == About("OrderPlaced", o)

Final(o) == About("OrderFilled", o) \cup About("OrderCancelled", o)

Executions(o) == Trades(o) \cup About("OrderPartiallyFilled", o)

Refused(o) == About("OrderRejected", o)

InBook(o) == \E side \in Sides : Resting(book[side], o)

\* An order that no handler accepted is on the stream as rejected at most.
UnseenBeforePlaced(o) ==
    pc[o] \in {"new", "waiting", "rejected"} =>
        Placed(o) = {} /\ Final(o) = {} /\ Executions(o) = {}

OnlyRefusedRejected(o) == pc[o] # "rejected" => Refused(o) = {}

\* An accepted order was placed by exactly one event, which comes first.
PlacedOnceAndFirst(o) ==
    pc[o] \in {"select", "fill", "returned"} =>
        \E j \in DOMAIN events :
            Placed(o) = {j} /\ \A i \in Final(o) \cup Executions(o) : j < i

\* Nothing final is said while an order is matched; afterwards exactly while
\* it does not rest.
FinalWhenOutOfBook(o) ==
    /\ pc[o] \in {"select", "fill"} => Final(o) = {}
    /\ pc[o] = "returned" => (Final(o) = {} <=> InBook(o))

\* What is final is said once and last.
FinalOnceAndLast(o) ==
    Final(o) # {} =>
        \E k \in DOMAIN events : Final(o) = {k} /\ \A i \in Executions(o) : i < k

\* What the stream says of one order.
StreamOf(o) ==
    /\ UnseenBeforePlaced(o)
    /\ OnlyRefusedRejected(o)
    /\ PlacedOnceAndFirst(o)
    /\ FinalWhenOutOfBook(o)
    /\ FinalOnceAndLast(o)

\* The invariant of the stream, inductive together with IInv.
StreamInv == \A o \in Orders : StreamOf(o)

-----------------------------------------------------------------------------
\* The index i when the event there is one that is asked for.
At(i, asked) == IF asked THEN {i} ELSE {}

Concerns(e, t, o) == e.type = t /\ e.order = o

TradeOf(e, o) == e.type = "TradeExecuted" /\ o \in {e.buyer, e.seller}

\* What is published stays published.
StreamExtends == \A i \in DOMAIN events : i \in DOMAIN events' /\ events'[i] = events[i]

\* Appending an event extends the stream.
LEMMA OneEventExtends ==
    ASSUME events \in Seq(Events), NEW e, events' = Append(events, e)
    PROVE  /\ StreamExtends
           /\ Len(events) + 1 \notin DOMAIN events
           /\ events'[Len(events) + 1] = e
<1>1. /\ Len(events) \in Nat
      /\ DOMAIN events = 1..Len(events)
      /\ DOMAIN events' = 1..(Len(events) + 1)
      /\ \A i \in 1..Len(events) : events'[i] = events[i]
      /\ events'[Len(events) + 1] = e
  BY LenProperties, AppendProperties
<1>2. QED
  BY <1>1 DEF StreamExtends

\* So does appending two.
LEMMA TwoEventsExtend ==
    ASSUME events \in Seq(Events), NEW more \in Seq(Events), Len(more) = 2,
           events' = events \o more
    PROVE  /\ StreamExtends
           /\ Len(events) + 1 \notin DOMAIN events
           /\ Len(events) + 2 \notin DOMAIN events
           /\ events'[Len(events) + 1] = more[1]
           /\ events'[Len(events) + 2] = more[2]
<1>1. /\ events \o more \in Seq(Events)
      /\ Len(events \o more) = Len(events) + Len(more)
      /\ \A i \in 1..(Len(events) + Len(more)) : (events \o more)[i] =
              IF i <= Len(events) THEN events[i] ELSE more[i - Len(events)]
  BY ConcatProperties, Zenon
<1>2. /\ Len(events) \in Nat
      /\ DOMAIN events = 1..Len(events)
      /\ DOMAIN (events \o more) = 1..(Len(events) + 2)
  BY <1>1, LenProperties
<1>3. QED
  BY <1>1, <1>2 DEF StreamExtends

\* Publishing adds the new events behind those of the stream.
LEMMA OneEventMore ==
    ASSUME events \in Seq(Events), NEW e, events' = Append(events, e), NEW o
    PROVE  /\ \A t : About(t, o)' = About(t, o) \cup At(Len(events) + 1, Concerns(e, t, o))
           /\ Trades(o)' = Trades(o) \cup At(Len(events) + 1, TradeOf(e, o))
<1>1. /\ Len(events) \in Nat
      /\ DOMAIN events = 1..Len(events)
      /\ DOMAIN events' = 1..(Len(events) + 1)
      /\ \A i \in 1..Len(events) : events'[i] = events[i]
      /\ events'[Len(events) + 1] = e
  BY LenProperties, AppendProperties
<1>2. ASSUME NEW t PROVE About(t, o)' = About(t, o) \cup At(Len(events) + 1, Concerns(e, t, o))
  BY <1>1 DEF About, Published, At, Concerns
<1>3. Trades(o)' = Trades(o) \cup At(Len(events) + 1, TradeOf(e, o))
  BY <1>1 DEF Trades, Published, At, TradeOf
<1>4. QED
  BY <1>2, <1>3

\* The same of two events.
LEMMA TwoEventsMore ==
    ASSUME events \in Seq(Events), NEW more \in Seq(Events), Len(more) = 2,
           events' = events \o more, NEW o
    PROVE  /\ \A t : About(t, o)' = About(t, o)
                        \cup At(Len(events) + 1, Concerns(more[1], t, o))
                        \cup At(Len(events) + 2, Concerns(more[2], t, o))
           /\ Trades(o)' = Trades(o) \cup At(Len(events) + 1, TradeOf(more[1], o))
                                     \cup At(Len(events) + 2, TradeOf(more[2], o))
<1>1. /\ Len(events) \in Nat
      /\ DOMAIN events = 1..Len(events)
      /\ DOMAIN events' = 1..(Len(events) + 2)
      /\ \A i \in 1..Len(events) : events'[i] = events[i]
      /\ events'[Len(events) + 1] = more[1]
      /\ events'[Len(events) + 2] = more[2]
  <2>1. /\ events \o more \in Seq(Events)
        /\ Len(events \o more) = Len(events) + Len(more)
        /\ \A i \in 1..(Len(events) + Len(more)) : (events \o more)[i] =
                IF i <= Len(events) THEN events[i] ELSE more[i - Len(events)]
    BY ConcatProperties, Zenon
  <2>2. /\ Len(events) \in Nat
        /\ DOMAIN events = 1..Len(events)
        /\ DOMAIN (events \o more) = 1..(Len(events) + 2)
    BY <2>1, LenProperties
  <2>3. QED
    BY <2>1, <2>2
<1>2. ASSUME NEW t
      PROVE  About(t, o)' = About(t, o) \cup At(Len(events) + 1, Concerns(more[1], t, o))
                                       \cup At(Len(events) + 2, Concerns(more[2], t, o))
  BY <1>1 DEF About, Published, At, Concerns
<1>3. Trades(o)' = Trades(o) \cup At(Len(events) + 1, TradeOf(more[1], o))
                            \cup At(Len(events) + 2, TradeOf(more[2], o))
  BY <1>1 DEF Trades, Published, At, TradeOf
<1>4. QED
  BY <1>2, <1>3

-----------------------------------------------------------------------------
\* A step keeps what the stream says of an order that it does not touch.
LEMMA UntouchedOrder ==
    ASSUME StreamInv, NEW o \in Orders,
           DOMAIN events \subseteq DOMAIN events',
           Placed(o)' = Placed(o), Final(o)' = Final(o),
           Executions(o)' = Executions(o), Refused(o)' = Refused(o),
           InBook(o)' <=> InBook(o),
           \/ pc'[o] = pc[o]
           \/ pc[o] = "new" /\ pc'[o] = "waiting"
           \/ pc[o] \in {"select", "fill"} /\ pc'[o] \in {"select", "fill"}
    PROVE  StreamOf(o)'
<1>1. StreamOf(o)
  BY DEF StreamInv
<1>2. UnseenBeforePlaced(o)' /\ OnlyRefusedRejected(o)' /\ PlacedOnceAndFirst(o)'
  BY <1>1 DEF StreamOf, UnseenBeforePlaced, OnlyRefusedRejected, PlacedOnceAndFirst
<1>3. FinalWhenOutOfBook(o)' /\ FinalOnceAndLast(o)'
  BY <1>1 DEF StreamOf, FinalWhenOutOfBook, FinalOnceAndLast
<1>4. QED
  BY <1>2, <1>3 DEF StreamOf

\* Dropping stale prices, a cancellation and the end of a match: who rests.
LEMMA SelectInBook ==
    ASSUME IInv, NEW o \in Orders, SelectLevel(o), NEW x \in Orders
    PROVE  InBook(x)' <=> InBook(x)
<1>1. Opposite(Side(o)) \in Sides
  BY RequestFields, SidesFacts DEF SelectLevel
<1>2. FreshOpposite(o).orderToPrice = book[Opposite(Side(o))].orderToPrice
  BY <1>1, BookFacts, CleanStaleHeapTopWellFormed DEF FreshOpposite
<1>3. book' = [book EXCEPT ![Opposite(Side(o))] = FreshOpposite(o)]
  BY DEF SelectLevel
<1>4. QED
  BY <1>1, <1>2, <1>3 DEF InBook, Resting, IInv, TypeOK

\* A cancel takes its order out of the book and no other.
LEMMA CancelInBook ==
    ASSUME IInv, NEW o \in Orders, NEW side \in Sides, Cancel(o, side), NEW x \in Orders
    PROVE  InBook(x)' <=> InBook(x) /\ x # o
<1>1. /\ Resting(book[side], o)
      /\ book' = [book EXCEPT ![side] = RemoveOrder(book[side], o, qty[o])]
  BY DEF Cancel
<1>2. book[side] \in BookSides /\ WellFormed(book[side]) /\ qty[o] \in Int
  BY BookFacts DEF IInv, TypeOK
<1>3. \A y \in Orders : RemoveOrder(book[side], o, qty[o]).orderToPrice[y]
                            = IF y = o THEN NoPrice ELSE book[side].orderToPrice[y]
  BY <1>1, <1>2, RemoveOrderWellFormed
<1>4. \A s \in Sides : Resting(book[s], o) => s = side
  BY <1>1 DEF IInv, OnlyOpenLimitOrdersRest
<1>5. \A s \in Sides : Resting(book'[s], x) <=> Resting(book[s], x) /\ x # o
  BY <1>1, <1>3, <1>4 DEF Resting, IInv, TypeOK
<1>6. QED
  BY <1>5 DEF InBook

\* The end of a match puts in the taker that rests, and no other.
LEMMA FinishInBook ==
    ASSUME IInv, NEW o \in Orders, Finish(o), NEW x \in Orders
    PROVE  InBook(x)' <=> InBook(x) \/ (x = o /\ Rests(o))
<1>1. /\ Side(o) \in Sides
      /\ Rests(o) => request[o].limit \in Prices
      /\ \A s \in Sides : book'[s].orderToPrice[x] =
              IF s = Side(o) /\ Rests(o) /\ x = o THEN request[o].limit
              ELSE book[s].orderToPrice[x]
  BY FinishBook
<1>2. Rests(o) => request[o].limit # NoPrice
  BY <1>1, PricesAssumption DEF NoPrice
<1>3. QED
  BY <1>1, <1>2 DEF InBook, Resting

\* Steps that publish nothing.
LEMMA SilentStream ==
    ASSUME IInv, StreamInv, NEW o \in Orders,
           \/ \E r \in Requests : Submit(o, r)
           \/ SelectLevel(o)
           \/ LeaveLevel(o)
           \/ UNCHANGED vars
    PROVE  StreamInv'
<1>1. events' = events
  BY DEF Submit, SelectLevel, LeaveLevel, vars
<1>2. \A x \in Orders : \/ pc'[x] = pc[x]
                        \/ pc[x] = "new" /\ pc'[x] = "waiting"
                        \/ pc[x] \in {"select", "fill"} /\ pc'[x] \in {"select", "fill"}
  BY DEF Submit, SelectLevel, LeaveLevel, vars, IInv, TypeOK
<1>3. \A x \in Orders : InBook(x)' <=> InBook(x)
  <2>1. CASE book' = book
    BY <2>1 DEF InBook
  <2>2. QED
    BY <2>1, SelectInBook DEF Submit, LeaveLevel, vars
<1>4. SUFFICES ASSUME NEW x \in Orders PROVE StreamOf(x)'
  BY DEF StreamInv
<1>5. /\ Placed(x)' = Placed(x) /\ Final(x)' = Final(x)
      /\ Executions(x)' = Executions(x) /\ Refused(x)' = Refused(x)
  BY <1>1 DEF Placed, Final, Executions, Refused, About, Trades, Published
<1>6. QED
  BY <1>1, <1>2, <1>3, <1>5, UntouchedOrder

\* One event more, in terms of the four kinds of what is said of an order.
LEMMA OneEventKinds ==
    ASSUME events \in Seq(Events), NEW e, events' = Append(events, e), NEW x
    PROVE  LET n == Len(events) + 1
           IN  /\ n \in DOMAIN events'
               /\ DOMAIN events \subseteq DOMAIN events'
               /\ \A i \in DOMAIN events : i < n
               /\ Placed(x)' = Placed(x) \cup At(n, Concerns(e, "OrderPlaced", x))
               /\ Final(x)' = Final(x) \cup At(n, \/ Concerns(e, "OrderFilled", x)
                                                \/ Concerns(e, "OrderCancelled", x))
               /\ Executions(x)' = Executions(x)
                    \cup At(n, TradeOf(e, x) \/ Concerns(e, "OrderPartiallyFilled", x))
               /\ Refused(x)' = Refused(x) \cup At(n, Concerns(e, "OrderRejected", x))
<1>1. /\ \A t : About(t, x)' = About(t, x) \cup At(Len(events) + 1, Concerns(e, t, x))
      /\ Trades(x)' = Trades(x) \cup At(Len(events) + 1, TradeOf(e, x))
  BY OneEventMore
<1>2. /\ Len(events) \in Nat
      /\ DOMAIN events = 1..Len(events)
      /\ DOMAIN events' = 1..(Len(events) + 1)
  BY LenProperties, AppendProperties
<1>3. QED
  BY <1>1, <1>2 DEF Placed, Final, Executions, Refused, At

\* The same of two events.
LEMMA TwoEventKinds ==
    ASSUME events \in Seq(Events), NEW more \in Seq(Events), Len(more) = 2,
           events' = events \o more, NEW x
    PROVE  LET n == Len(events) + 1
               m == Len(events) + 2
           IN  /\ n \in DOMAIN events' /\ m \in DOMAIN events' /\ n < m
               /\ DOMAIN events \subseteq DOMAIN events'
               /\ \A i \in DOMAIN events : i < n /\ i < m
               /\ Placed(x)' = Placed(x) \cup At(n, Concerns(more[1], "OrderPlaced", x))
                                        \cup At(m, Concerns(more[2], "OrderPlaced", x))
               /\ Final(x)' = Final(x) \cup At(n, \/ Concerns(more[1], "OrderFilled", x)
                                                \/ Concerns(more[1], "OrderCancelled", x))
                                      \cup At(m, \/ Concerns(more[2], "OrderFilled", x)
                                                \/ Concerns(more[2], "OrderCancelled", x))
               /\ Executions(x)' = Executions(x)
                    \cup At(n, TradeOf(more[1], x) \/ Concerns(more[1], "OrderPartiallyFilled", x))
                    \cup At(m, TradeOf(more[2], x) \/ Concerns(more[2], "OrderPartiallyFilled", x))
               /\ Refused(x)' = Refused(x) \cup At(n, Concerns(more[1], "OrderRejected", x))
                                          \cup At(m, Concerns(more[2], "OrderRejected", x))
<1>1. /\ \A t : About(t, x)' = About(t, x)
                    \cup At(Len(events) + 1, Concerns(more[1], t, x))
                    \cup At(Len(events) + 2, Concerns(more[2], t, x))
      /\ Trades(x)' = Trades(x) \cup At(Len(events) + 1, TradeOf(more[1], x))
                               \cup At(Len(events) + 2, TradeOf(more[2], x))
  BY TwoEventsMore
<1>2. /\ Len(events) \in Nat
      /\ DOMAIN events = 1..Len(events)
      /\ DOMAIN events' = 1..(Len(events) + 2)
  <2>1. events \o more \in Seq(Events) /\ Len(events \o more) = Len(events) + Len(more)
    BY ConcatProperties, Zenon
  <2>2. QED
    BY <2>1, LenProperties
<1>3. QED
  BY <1>1, <1>2 DEF Placed, Final, Executions, Refused, At

\* What is said of an order is said at places of the stream.
LEMMA KindsWithin ==
    ASSUME NEW x
    PROVE  Placed(x) \cup Final(x) \cup Executions(x) \cup Refused(x) \subseteq DOMAIN events
BY DEF Placed, Final, Executions, Refused, About, Trades, Published

\* A refusal is about the refused order alone, or about none.
LEMMA RejectStream ==
    ASSUME IInv, StreamInv, NEW o \in Orders, NEW r \in Requests, Reject(o, r)
    PROVE  StreamInv'
<1>1. /\ pc[o] = "new"
      /\ pc' = [pc EXCEPT ![o] = "rejected"]
      /\ events' = Append(events, RejectedEvent(o, r))
      /\ book' = book
  BY DEF Reject
<1>2. SUFFICES ASSUME NEW x \in Orders PROVE StreamOf(x)'
  BY DEF StreamInv
<1>3. /\ DOMAIN events \subseteq DOMAIN events'
      /\ Placed(x)' = Placed(x) /\ Final(x)' = Final(x)
      /\ Executions(x)' = Executions(x)
      /\ x # o => Refused(x)' = Refused(x)
  <2>1. events \in Seq(Events)
    BY DEF IInv, TypeOK
  <2> DEFINE e == RejectedEvent(o, r)
             n == Len(events) + 1
  <2>2. e.type = "OrderRejected" /\ e.order \in {o, NoOrder}
    BY DEF RejectedEvent
  <2> HIDE DEF e
  <2>3. events' = Append(events, e)
    BY <1>1 DEF e
  <2>4. /\ DOMAIN events \subseteq DOMAIN events'
        /\ Placed(x)' = Placed(x) \cup At(n, Concerns(e, "OrderPlaced", x))
        /\ Final(x)' = Final(x) \cup At(n, \/ Concerns(e, "OrderFilled", x)
                                         \/ Concerns(e, "OrderCancelled", x))
        /\ Executions(x)' = Executions(x)
             \cup At(n, TradeOf(e, x) \/ Concerns(e, "OrderPartiallyFilled", x))
        /\ Refused(x)' = Refused(x) \cup At(n, Concerns(e, "OrderRejected", x))
    BY <2>1, <2>3, OneEventKinds, Zenon
  <2>5. QED
    BY <2>2, <2>4, RequestsAssumption DEF Concerns, TradeOf, At
<1>4. InBook(x)' <=> InBook(x)
  BY <1>1 DEF InBook
<1>5. CASE x # o
  BY <1>1, <1>3, <1>4, <1>5, UntouchedOrder DEF IInv, TypeOK
<1>6. CASE x = o
  <2>1. pc'[x] = "rejected"
    BY <1>1, <1>6 DEF IInv, TypeOK
  <2>2. Placed(x) = {} /\ Final(x) = {} /\ Executions(x) = {}
    BY <1>1, <1>6 DEF StreamInv, StreamOf, UnseenBeforePlaced
  <2>3. QED
    BY <1>3, <2>1, <2>2 DEF StreamOf, UnseenBeforePlaced, OnlyRefusedRejected,
       PlacedOnceAndFirst, FinalWhenOutOfBook, FinalOnceAndLast
<1>7. QED
  BY <1>5, <1>6

\* Accepting says of the order that it was placed, and nothing of the others.
LEMMA AcceptStream ==
    ASSUME IInv, StreamInv, NEW o \in Orders, Accept(o)
    PROVE  StreamInv'
<1>1. /\ pc[o] = "waiting"
      /\ pc' = [pc EXCEPT ![o] = "select"]
      /\ events' = Append(events, PlacedEvent(o))
      /\ book' = book
  BY DEF Accept
<1>2. SUFFICES ASSUME NEW x \in Orders PROVE StreamOf(x)'
  BY DEF StreamInv
<1> DEFINE n == Len(events) + 1
<1>3. /\ n \in DOMAIN events'
      /\ DOMAIN events \subseteq DOMAIN events'
      /\ Placed(x)' = IF x = o THEN Placed(x) \cup {n} ELSE Placed(x)
      /\ Final(x)' = Final(x)
      /\ Executions(x)' = Executions(x)
      /\ Refused(x)' = Refused(x)
  <2>1. events \in Seq(Events)
    BY DEF IInv, TypeOK
  <2> DEFINE e == PlacedEvent(o)
  <2>2. e.type = "OrderPlaced" /\ e.order = o
    BY DEF PlacedEvent
  <2> HIDE DEF e
  <2>3. events' = Append(events, e)
    BY <1>1 DEF e
  <2>4. /\ n \in DOMAIN events'
        /\ DOMAIN events \subseteq DOMAIN events'
        /\ Placed(x)' = Placed(x) \cup At(n, Concerns(e, "OrderPlaced", x))
        /\ Final(x)' = Final(x) \cup At(n, \/ Concerns(e, "OrderFilled", x)
                                         \/ Concerns(e, "OrderCancelled", x))
        /\ Executions(x)' = Executions(x)
             \cup At(n, TradeOf(e, x) \/ Concerns(e, "OrderPartiallyFilled", x))
        /\ Refused(x)' = Refused(x) \cup At(n, Concerns(e, "OrderRejected", x))
    BY <2>1, <2>3, OneEventKinds, Zenon
  <2>5. QED
    BY <2>2, <2>4 DEF Concerns, TradeOf, At
<1> HIDE DEF n
<1>4. InBook(x)' <=> InBook(x)
  BY <1>1 DEF InBook
<1>5. CASE x # o
  BY <1>1, <1>3, <1>4, <1>5, UntouchedOrder DEF IInv, TypeOK
<1>6. CASE x = o
  <2>1. pc'[x] = "select"
    BY <1>1, <1>6 DEF IInv, TypeOK
  <2>2. Placed(x) = {} /\ Final(x) = {} /\ Executions(x) = {} /\ Refused(x) = {}
    BY <1>1, <1>6 DEF StreamInv, StreamOf, UnseenBeforePlaced, OnlyRefusedRejected
  <2>3. QED
    BY <1>3, <1>6, <2>1, <2>2 DEF StreamOf, UnseenBeforePlaced, OnlyRefusedRejected,
       PlacedOnceAndFirst, FinalWhenOutOfBook, FinalOnceAndLast
<1>7. QED
  BY <1>5, <1>6

\* A trade is said of both orders, and a fill of the maker.
LEMMA FillsEvents ==
    ASSUME IInv, NEW o \in Orders, FillFront(o),
           NEW maker \in Orders, NEW quantity \in Nat \ {0}, Fills(o, maker, quantity),
           NEW x
    PROVE  LET n == Len(events) + 1
               m == Len(events) + 2
               gone == qty[maker] = quantity
           IN  /\ StreamExtends
               /\ n \in DOMAIN events' /\ m \in DOMAIN events' /\ n < m
               /\ n \notin DOMAIN events
               /\ \A i \in DOMAIN events : i < n /\ i < m
               /\ events'[n].price = bestPrice /\ events'[n].quantity = quantity
               /\ Trades(x)' = Trades(x) \cup At(n, x \in {o, maker})
               /\ About("OrderFilled", x)' =
                    About("OrderFilled", x) \cup At(m, x = maker /\ gone)
               /\ About("OrderPartiallyFilled", x)' =
                    About("OrderPartiallyFilled", x) \cup At(m, x = maker /\ ~gone)
               /\ About("OrderPlaced", x)' = About("OrderPlaced", x)
               /\ About("OrderRejected", x)' = About("OrderRejected", x)
               /\ About("OrderCancelled", x)' = About("OrderCancelled", x)
<1> DEFINE trade == IF Side(o) = "Buy" THEN TradeEvent(o, maker, bestPrice, quantity)
                    ELSE TradeEvent(maker, o, bestPrice, quantity)
           fill == IF qty[maker] = quantity THEN FilledEvent(maker, qty[maker])
                   ELSE PartiallyFilledEvent(maker, quantity, qty[maker] - quantity)
           more == <<trade, fill>>
           gone == qty[maker] = quantity
           n == Len(events) + 1
           m == Len(events) + 2
<1>1. events \in Seq(Events) /\ events' = events \o more
  BY Zenon DEF Fills, IInv, TypeOK
<1>2. more \in Seq(Events) /\ Len(more) = 2 /\ more[1] = trade /\ more[2] = fill
  <2>1. bestPrice \in Prices /\ qty \in [Orders -> Int] /\ quantity \in Int
    BY FillFrontTrades DEF IInv, TypeOK
  <2>2. trade \in Events
    BY <2>1 DEF TradeEvent, Events
  <2>3. fill \in Events
    BY <2>1 DEF FilledEvent, PartiallyFilledEvent, Events
  <2> HIDE DEF trade, fill
  <2>4. QED
    BY <2>2, <2>3
<1>3. /\ trade.type = "TradeExecuted" /\ {trade.buyer, trade.seller} = {o, maker}
      /\ trade.price = bestPrice /\ trade.quantity = quantity
      /\ fill.order = maker
      /\ fill.type = IF gone THEN "OrderFilled" ELSE "OrderPartiallyFilled"
  BY DEF TradeEvent, FilledEvent, PartiallyFilledEvent
<1> HIDE DEF trade, fill, more
<1>4. /\ StreamExtends
      /\ n \notin DOMAIN events
      /\ events'[n] = trade
  BY <1>1, <1>2, TwoEventsExtend
<1>5. n \in DOMAIN events' /\ m \in DOMAIN events' /\ n < m
  <2>1. events \o more \in Seq(Events) /\ Len(events \o more) = Len(events) + Len(more)
    BY <1>1, <1>2, ConcatProperties, Zenon
  <2>2. QED
    BY <1>1, <1>2, <2>1, LenProperties
<1>6. \A i \in DOMAIN events : i < n /\ i < m
  BY <1>1, LenProperties
<1>7. /\ \A t : About(t, x)' = About(t, x) \cup At(n, Concerns(more[1], t, x))
                                         \cup At(m, Concerns(more[2], t, x))
      /\ Trades(x)' = Trades(x) \cup At(n, TradeOf(more[1], x))
                               \cup At(m, TradeOf(more[2], x))
  BY <1>1, <1>2, TwoEventsMore, Zenon
<1> HIDE DEF n, m, gone
<1>8. /\ \A t \in {"OrderPlaced", "OrderRejected", "OrderFilled", "OrderPartiallyFilled",
                   "OrderCancelled"} :
            About(t, x)' = About(t, x) \cup At(m, t = fill.type /\ x = maker)
      /\ Trades(x)' = Trades(x) \cup At(n, x \in {o, maker})
  BY <1>2, <1>3, <1>7 DEF Concerns, TradeOf, At
<1>9. /\ About("OrderFilled", x)' = About("OrderFilled", x) \cup At(m, x = maker /\ gone)
      /\ About("OrderPartiallyFilled", x)' =
            About("OrderPartiallyFilled", x) \cup At(m, x = maker /\ ~gone)
      /\ About("OrderPlaced", x)' = About("OrderPlaced", x)
      /\ About("OrderRejected", x)' = About("OrderRejected", x)
      /\ About("OrderCancelled", x)' = About("OrderCancelled", x)
  BY <1>3, <1>8 DEF At
<1>10. QED
  BY <1>3, <1>4, <1>5, <1>6, <1>8, <1>9 DEF n, m, gone

\* A trade is said of both orders and a fill of the maker, which is final
\* exactly when the maker leaves the book.
LEMMA FillFrontStream ==
    ASSUME IInv, StreamInv, NEW o \in Orders, FillFront(o)
    PROVE  StreamInv'
<1>1. /\ Opposite(Side(o)) \in Sides
      /\ pc[o] = "fill"
      /\ \E maker \in Orders, quantity \in Nat \ {0} : Fills(o, maker, quantity)
  BY FillFrontTrades
<1>2. PICK maker \in Orders, quantity \in Nat \ {0} : Fills(o, maker, quantity)
  BY <1>1
<1> DEFINE gone == qty[maker] = quantity
           n == Len(events) + 1
           m == Len(events) + 2
<1>3. pc' = pc /\ pc[maker] = "returned"
  BY <1>2 DEF Fills
<1>4. SUFFICES ASSUME NEW x \in Orders PROVE StreamOf(x)'
  BY DEF StreamInv
<1>5. /\ StreamExtends
      /\ n \in DOMAIN events' /\ m \in DOMAIN events' /\ n < m
      /\ \A i \in DOMAIN events : i < n /\ i < m
      /\ Trades(x)' = Trades(x) \cup At(n, x \in {o, maker})
      /\ About("OrderFilled", x)' = About("OrderFilled", x) \cup At(m, x = maker /\ gone)
      /\ About("OrderPartiallyFilled", x)' =
            About("OrderPartiallyFilled", x) \cup At(m, x = maker /\ ~gone)
      /\ About("OrderPlaced", x)' = About("OrderPlaced", x)
      /\ About("OrderRejected", x)' = About("OrderRejected", x)
      /\ About("OrderCancelled", x)' = About("OrderCancelled", x)
  BY <1>2, FillsEvents
<1> HIDE DEF n, m, gone
<1>6. /\ DOMAIN events \subseteq DOMAIN events'
      /\ Placed(x)' = Placed(x) /\ Refused(x)' = Refused(x)
      /\ Final(x)' = Final(x) \cup At(m, x = maker /\ gone)
  BY <1>5 DEF StreamExtends, Placed, Refused, Final
<1>7. Executions(x)' = Executions(x) \cup At(n, x \in {o, maker})
                                    \cup At(m, x = maker /\ ~gone)
  BY <1>5 DEF Executions
<1>8. InBook(x)' <=> InBook(x) /\ ~(x = maker /\ gone)
  BY <1>1, <1>2, FillsBook DEF InBook, gone
<1>9. InBook(maker)
  BY <1>1, <1>2 DEF Fills, InBook
<1>10. /\ StreamOf(x)
       /\ Placed(x) \cup Final(x) \cup Executions(x) \subseteq DOMAIN events
  BY KindsWithin DEF StreamInv
<1>11. x \in {o, maker} => pc[x] \in {"fill", "returned"} /\ Final(x) = {}
  BY <1>1, <1>3, <1>9, <1>10 DEF StreamOf, FinalWhenOutOfBook
<1>12. UnseenBeforePlaced(x)'
  BY <1>3, <1>5, <1>6, <1>7, <1>10, <1>11 DEF StreamOf, UnseenBeforePlaced, At
<1>13. OnlyRefusedRejected(x)'
  BY <1>3, <1>5, <1>6, <1>7, <1>10 DEF StreamOf, OnlyRefusedRejected
<1>14. PlacedOnceAndFirst(x)'
  BY <1>3, <1>5, <1>6, <1>7, <1>10 DEF StreamOf, PlacedOnceAndFirst, At
<1>15. FinalWhenOutOfBook(x)'
  BY <1>1, <1>3, <1>5, <1>6, <1>7, <1>8, <1>10, <1>11 DEF StreamOf, FinalWhenOutOfBook, At
<1>16. FinalOnceAndLast(x)'
  BY <1>5, <1>6, <1>7, <1>10, <1>11 DEF StreamOf, FinalOnceAndLast, At
<1>17. QED
  BY <1>12, <1>13, <1>14, <1>15, <1>16 DEF StreamOf

\* A cancellation is said of the cancelled order alone.
LEMMA CancelEvents ==
    ASSUME IInv, NEW o \in Orders, NEW side \in Sides, Cancel(o, side), NEW x
    PROVE  LET n == Len(events) + 1
           IN  /\ StreamExtends
               /\ n \in DOMAIN events'
               /\ n \notin DOMAIN events
               /\ \A i \in DOMAIN events : i < n
               /\ events'[n].left = qty[o]
               /\ Trades(x)' = Trades(x)
               /\ \A t \in {"OrderPlaced", "OrderRejected", "OrderFilled",
                            "OrderPartiallyFilled"} : About(t, x)' = About(t, x)
               /\ About("OrderCancelled", x)' =
                    About("OrderCancelled", x) \cup At(n, x = o)
<1> DEFINE e == CancelledEvent(o, qty[o])
           n == Len(events) + 1
<1>1. events \in Seq(Events) /\ events' = Append(events, e)
  BY DEF Cancel, IInv, TypeOK
<1>2. e.type = "OrderCancelled" /\ e.order = o /\ e.left = qty[o]
  BY DEF CancelledEvent
<1> HIDE DEF e
<1>3. StreamExtends /\ n \notin DOMAIN events /\ events'[n] = e
  BY <1>1, OneEventExtends
<1>4. n \in DOMAIN events' /\ \A i \in DOMAIN events : i < n
  BY <1>1, LenProperties, AppendProperties
<1>5. /\ \A t : About(t, x)' = About(t, x) \cup At(n, Concerns(e, t, x))
      /\ Trades(x)' = Trades(x) \cup At(n, TradeOf(e, x))
  BY <1>1, OneEventMore, Zenon
<1> HIDE DEF n
<1>6. /\ Trades(x)' = Trades(x)
      /\ \A t \in {"OrderPlaced", "OrderRejected", "OrderFilled", "OrderPartiallyFilled"} :
            About(t, x)' = About(t, x)
      /\ About("OrderCancelled", x)' = About("OrderCancelled", x) \cup At(n, x = o)
  BY <1>2, <1>5 DEF Concerns, TradeOf, At
<1>7. QED
  BY <1>2, <1>3, <1>4, <1>6 DEF n

\* A cancelled order leaves the book, and its cancellation is final.
LEMMA CancelStream ==
    ASSUME IInv, StreamInv, NEW o \in Orders, NEW side \in Sides, Cancel(o, side)
    PROVE  StreamInv'
<1> DEFINE n == Len(events) + 1
<1>1. pc' = pc /\ Resting(book[side], o)
  BY DEF Cancel
<1>2. SUFFICES ASSUME NEW x \in Orders PROVE StreamOf(x)'
  BY DEF StreamInv
<1>3. /\ n \in DOMAIN events'
      /\ DOMAIN events \subseteq DOMAIN events'
      /\ \A i \in DOMAIN events : i < n
      /\ Placed(x)' = Placed(x) /\ Refused(x)' = Refused(x)
      /\ Executions(x)' = Executions(x)
      /\ Final(x)' = Final(x) \cup At(n, x = o)
  BY CancelEvents DEF StreamExtends, Placed, Refused, Executions, Final
<1>4. InBook(o) /\ pc[o] = "returned"
  BY <1>1 DEF InBook, IInv, OnlyOpenLimitOrdersRest
<1>5. InBook(x)' <=> InBook(x) /\ x # o
  BY CancelInBook
<1> HIDE DEF n
<1>6. /\ StreamOf(x)
      /\ Placed(x) \cup Final(x) \cup Executions(x) \subseteq DOMAIN events
  BY KindsWithin DEF StreamInv
<1>7. x = o => Final(x) = {}
  BY <1>4, <1>6 DEF StreamOf, FinalWhenOutOfBook
<1>8. UnseenBeforePlaced(x)' /\ OnlyRefusedRejected(x)'
  BY <1>1, <1>3, <1>4, <1>6 DEF StreamOf, UnseenBeforePlaced, OnlyRefusedRejected, At
<1>9. PlacedOnceAndFirst(x)'
  BY <1>1, <1>3, <1>6 DEF StreamOf, PlacedOnceAndFirst, At
<1>10. FinalWhenOutOfBook(x)'
  BY <1>1, <1>3, <1>4, <1>5, <1>6 DEF StreamOf, FinalWhenOutOfBook, At
<1>11. FinalOnceAndLast(x)'
  BY <1>3, <1>6, <1>7 DEF StreamOf, FinalOnceAndLast, At
<1>12. QED
  BY <1>8, <1>9, <1>10, <1>11 DEF StreamOf

\* What is said of the taker at the end of its match: filled; or what remains,
\* reported when it is not all, and cancelled unless it rests.
LEMMA TakerEventsAre ==
    ASSUME NEW o \in Orders, remaining \in Nat, qty[o] \in Int
    PROVE  LET partial == PartiallyFilledEvent(o, qty[o] - remaining, remaining)
               cancel == CancelledEvent(o, remaining)
           IN  TakerEvents(o) =
                 IF remaining = 0 THEN <<FilledEvent(o, qty[o])>>
                 ELSE IF IsMarket(o)
                 THEN IF remaining < qty[o] THEN <<partial, cancel>> ELSE <<cancel>>
                 ELSE IF remaining < qty[o] THEN <<partial>> ELSE <<>>
<1> DEFINE partial == PartiallyFilledEvent(o, qty[o] - remaining, remaining)
           cancel == CancelledEvent(o, remaining)
           first == IF remaining < qty[o] THEN <<partial>> ELSE <<>>
           second == IF IsMarket(o) THEN <<cancel>> ELSE <<>>
<1>1. CASE remaining = 0
  BY <1>1 DEF TakerEvents
<1>2. CASE remaining > 0
  <2>1. TakerEvents(o) = first \o second
    <3>1. remaining # 0
      BY <1>2
    <3>2. QED
      BY <1>2, <3>1, Zenon DEF TakerEvents
  <2> HIDE DEF partial, cancel
  <2>2. TakerEvents(o) =
          IF IsMarket(o)
          THEN IF remaining < qty[o] THEN <<partial, cancel>> ELSE <<cancel>>
          ELSE IF remaining < qty[o] THEN <<partial>> ELSE <<>>
    <3>1. <<partial>> \o <<cancel>> = <<partial, cancel>>
      <4> DEFINE joined == <<partial>> \o <<cancel>>
      <4>1. /\ joined \in Seq({partial, cancel})
            /\ Len(joined) = 2
            /\ joined[1] = partial /\ joined[2] = cancel
        OBVIOUS
      <4>2. /\ <<partial, cancel>> \in Seq({partial, cancel})
            /\ Len(<<partial, cancel>>) = 2
            /\ <<partial, cancel>>[1] = partial /\ <<partial, cancel>>[2] = cancel
        OBVIOUS
      <4> HIDE DEF joined
      <4>3. \A i \in 1..Len(joined) : joined[i] = <<partial, cancel>>[i]
        BY <4>1, <4>2
      <4>4. joined = <<partial, cancel>>
        BY <4>1, <4>2, <4>3, SeqEqual
      <4>5. QED
        BY <4>4 DEF joined
    <3>2. \A e : <<e>> \o <<>> = <<e>> /\ <<>> \o <<e>> = <<e>>
      <4>1. TAKE e
      <4>2. <<e>> \in Seq({e})
        OBVIOUS
      <4>3. QED
        BY <4>2, ConcatEmptySeq
    <3>3. <<>> \o <<>> = <<>>
      BY EmptySeq, ConcatEmptySeq
    <3>4. QED
      BY <2>1, <3>1, <3>2, <3>3
  <2>3. remaining # 0
    BY <1>2
  <2>4. QED
    BY <2>2, <2>3 DEF partial, cancel
<1>3. QED
  BY <1>1, <1>2

\* The four things that can be said of a taker at its end.
LEMMA TakerEventsCases ==
    ASSUME NEW o \in Orders, remaining \in Nat, qty[o] \in Int
    PROVE  LET partial == PartiallyFilledEvent(o, qty[o] - remaining, remaining)
               cancel == CancelledEvent(o, remaining)
           IN  \/ remaining = 0 /\ TakerEvents(o) = <<FilledEvent(o, qty[o])>>
               \/ /\ remaining > 0 /\ IsMarket(o)
                  /\ TakerEvents(o) \in {<<partial, cancel>>, <<cancel>>}
               \/ /\ remaining > 0 /\ ~IsMarket(o)
                  /\ TakerEvents(o) \in {<<partial>>, <<>>}
<1> DEFINE partial == PartiallyFilledEvent(o, qty[o] - remaining, remaining)
           cancel == CancelledEvent(o, remaining)
           filled == FilledEvent(o, qty[o])
<1>1. TakerEvents(o) =
        IF remaining = 0 THEN <<filled>>
        ELSE IF IsMarket(o)
        THEN IF remaining < qty[o] THEN <<partial, cancel>> ELSE <<cancel>>
        ELSE IF remaining < qty[o] THEN <<partial>> ELSE <<>>
  BY TakerEventsAre, Zenon
<1>2. remaining = 0 \/ remaining > 0
  OBVIOUS
<1> HIDE DEF partial, cancel, filled
<1>3. \/ remaining = 0 /\ TakerEvents(o) = <<filled>>
      \/ remaining > 0 /\ IsMarket(o) /\ TakerEvents(o) \in {<<partial, cancel>>, <<cancel>>}
      \/ remaining > 0 /\ ~IsMarket(o) /\ TakerEvents(o) \in {<<partial>>, <<>>}
  BY <1>1, <1>2
<1>4. QED
  BY <1>3, Zenon DEF partial, cancel, filled

\* What the end of a match says: nothing of the others, of the taker a partial
\* fill at most, and then something final unless it rests.
LEMMA FinishKinds ==
    ASSUME IInv, NEW o \in Orders, Finish(o), NEW x \in Orders
    PROVE  \E k \in Nat :
            /\ \A i \in DOMAIN events : i < k
            /\ DOMAIN events \subseteq DOMAIN events'
            /\ Placed(x)' = Placed(x) /\ Refused(x)' = Refused(x)
            /\ x = o /\ ~Rests(o) => k \in DOMAIN events'
            /\ Final(x)' = Final(x) \cup At(k, x = o /\ ~Rests(o))
            /\ \/ Executions(x)' = Executions(x)
               \/ \E j \in Nat : /\ x = o /\ j < k
                                 /\ \A i \in DOMAIN events : i < j
                                 /\ Executions(x)' = Executions(x) \cup {j}
<1> DEFINE filled == FilledEvent(o, qty[o])
           partial == PartiallyFilledEvent(o, qty[o] - remaining, remaining)
           cancel == CancelledEvent(o, remaining)
           n == Len(events) + 1
           m == Len(events) + 2
<1>1. /\ events \in Seq(Events) /\ events' = events \o TakerEvents(o)
      /\ remaining \in Nat /\ qty[o] \in Int
  BY DEF Finish, IInv, TypeOK
<1>2. /\ Len(events) \in Nat /\ DOMAIN events = 1..Len(events)
      /\ n \in Nat /\ m \in Nat
  BY <1>1, LenProperties
<1>3. /\ filled.type = "OrderFilled" /\ filled.order = o
      /\ partial.type = "OrderPartiallyFilled" /\ partial.order = o
      /\ cancel.type = "OrderCancelled" /\ cancel.order = o
      /\ filled \in Events /\ partial \in Events /\ cancel \in Events
  <2>1. qty[o] - remaining \in Int /\ remaining \in Int
    BY <1>1
  <2>2. QED
    BY <1>1, <2>1 DEF FilledEvent, PartiallyFilledEvent, CancelledEvent, Events
<1>4. \/ remaining = 0 /\ TakerEvents(o) = <<filled>>
      \/ remaining > 0 /\ IsMarket(o) /\ TakerEvents(o) \in {<<partial, cancel>>, <<cancel>>}
      \/ remaining > 0 /\ ~IsMarket(o) /\ TakerEvents(o) \in {<<partial>>, <<>>}
  BY <1>1, TakerEventsCases, Zenon
<1> HIDE DEF filled, partial, cancel
<1>5. ASSUME NEW e \in Events, TakerEvents(o) = <<e>>
      PROVE  /\ n \in DOMAIN events'
             /\ DOMAIN events \subseteq DOMAIN events'
             /\ \A i \in DOMAIN events : i < n
             /\ Placed(x)' = Placed(x) \cup At(n, Concerns(e, "OrderPlaced", x))
             /\ Final(x)' = Final(x) \cup At(n, \/ Concerns(e, "OrderFilled", x)
                                              \/ Concerns(e, "OrderCancelled", x))
             /\ Executions(x)' = Executions(x)
                  \cup At(n, TradeOf(e, x) \/ Concerns(e, "OrderPartiallyFilled", x))
             /\ Refused(x)' = Refused(x) \cup At(n, Concerns(e, "OrderRejected", x))
  <2>1. events' = Append(events, e)
    BY <1>1, <1>5, AppendIsConcat
  <2>2. QED
    BY <1>1, <2>1, OneEventKinds, Zenon
<1>6. CASE TakerEvents(o) \in {<<filled>>, <<cancel>>} /\ ~Rests(o)
  <2>1. PICK e \in {filled, cancel} : TakerEvents(o) = <<e>>
    BY <1>6
  <2>2. e \in Events /\ e.type \in {"OrderFilled", "OrderCancelled"} /\ e.order = o
    BY <1>3, <2>1
  <2>3. /\ n \in DOMAIN events' /\ DOMAIN events \subseteq DOMAIN events'
        /\ \A i \in DOMAIN events : i < n
        /\ Placed(x)' = Placed(x) /\ Refused(x)' = Refused(x)
        /\ Executions(x)' = Executions(x)
        /\ Final(x)' = Final(x) \cup At(n, x = o)
    BY <1>5, <2>1, <2>2 DEF Concerns, TradeOf, At
  <2> HIDE DEF n
  <2>4. QED
    BY <1>2, <1>6, <2>3 DEF At
<1>7. CASE TakerEvents(o) = <<partial>> /\ Rests(o)
  <2>1. /\ DOMAIN events \subseteq DOMAIN events'
        /\ \A i \in DOMAIN events : i < n
        /\ Placed(x)' = Placed(x) /\ Refused(x)' = Refused(x)
        /\ Executions(x)' = Executions(x) \cup At(n, x = o)
        /\ Final(x)' = Final(x)
    BY <1>3, <1>5, <1>7 DEF Concerns, TradeOf, At
  <2>2. n < m /\ \A i \in DOMAIN events : i < m
    BY <1>2
  <2> HIDE DEF n, m
  <2>3. QED
    BY <1>2, <1>7, <2>1, <2>2 DEF At
<1>8. CASE TakerEvents(o) = <<>> /\ Rests(o)
  <2>1. events' = events
    BY <1>1, <1>8, ConcatEmptySeq
  <2>2. /\ Placed(x)' = Placed(x) /\ Refused(x)' = Refused(x)
        /\ Executions(x)' = Executions(x) /\ Final(x)' = Final(x)
    BY <2>1 DEF Placed, Final, Executions, Refused, About, Trades, Published
  <2>3. \A i \in DOMAIN events : i < m
    BY <1>2
  <2> HIDE DEF m
  <2>4. QED
    BY <1>2, <1>8, <2>1, <2>2, <2>3 DEF At
<1>9. CASE TakerEvents(o) = <<partial, cancel>> /\ ~Rests(o)
  <2> DEFINE more == <<partial, cancel>>
  <2>1. /\ more \in Seq(Events) /\ Len(more) = 2
        /\ more[1] = partial /\ more[2] = cancel
    BY <1>3
  <2>2. events' = events \o more
    BY <1>1, <1>9
  <2> HIDE DEF more
  <2>3. /\ n \in DOMAIN events' /\ m \in DOMAIN events' /\ n < m
        /\ DOMAIN events \subseteq DOMAIN events'
        /\ \A i \in DOMAIN events : i < n /\ i < m
        /\ Placed(x)' = Placed(x) \cup At(n, Concerns(more[1], "OrderPlaced", x))
                                 \cup At(m, Concerns(more[2], "OrderPlaced", x))
        /\ Final(x)' = Final(x) \cup At(n, \/ Concerns(more[1], "OrderFilled", x)
                                         \/ Concerns(more[1], "OrderCancelled", x))
                               \cup At(m, \/ Concerns(more[2], "OrderFilled", x)
                                         \/ Concerns(more[2], "OrderCancelled", x))
        /\ Executions(x)' = Executions(x)
             \cup At(n, TradeOf(more[1], x) \/ Concerns(more[1], "OrderPartiallyFilled", x))
             \cup At(m, TradeOf(more[2], x) \/ Concerns(more[2], "OrderPartiallyFilled", x))
        /\ Refused(x)' = Refused(x) \cup At(n, Concerns(more[1], "OrderRejected", x))
                                   \cup At(m, Concerns(more[2], "OrderRejected", x))
    BY <1>1, <2>1, <2>2, TwoEventKinds, Zenon
  <2> HIDE DEF n, m
  <2>4. /\ Placed(x)' = Placed(x) /\ Refused(x)' = Refused(x)
        /\ Executions(x)' = Executions(x) \cup At(n, x = o)
        /\ Final(x)' = Final(x) \cup At(m, x = o)
    BY <1>3, <2>1, <2>3 DEF Concerns, TradeOf, At
  <2>5. QED
    BY <1>2, <1>9, <2>3, <2>4 DEF At
<1>10. \/ TakerEvents(o) \in {<<filled>>, <<cancel>>} /\ ~Rests(o)
       \/ TakerEvents(o) = <<partial>> /\ Rests(o)
       \/ TakerEvents(o) = <<>> /\ Rests(o)
       \/ TakerEvents(o) = <<partial, cancel>> /\ ~Rests(o)
  <2>1. remaining = 0 => ~(remaining > 0)
    BY <1>1
  <2>2. QED
    BY <1>4, <2>1, Zenon DEF Rests
<1>11. QED
  BY <1>6, <1>7, <1>8, <1>9, <1>10, Zenon

\* At the end of its match the taker rests or something final was said of it.
LEMMA FinishStream ==
    ASSUME IInv, StreamInv, NEW o \in Orders, Finish(o)
    PROVE  StreamInv'
<1>1. SUFFICES ASSUME NEW x \in Orders PROVE StreamOf(x)'
  BY DEF StreamInv
<1>2. PICK k \in Nat :
        /\ \A i \in DOMAIN events : i < k
        /\ DOMAIN events \subseteq DOMAIN events'
        /\ Placed(x)' = Placed(x) /\ Refused(x)' = Refused(x)
        /\ x = o /\ ~Rests(o) => k \in DOMAIN events'
        /\ Final(x)' = Final(x) \cup At(k, x = o /\ ~Rests(o))
        /\ \/ Executions(x)' = Executions(x)
           \/ \E j \in Nat : /\ x = o /\ j < k
                             /\ \A i \in DOMAIN events : i < j
                             /\ Executions(x)' = Executions(x) \cup {j}
  BY FinishKinds, Zenon
<1>3. pc[o] = "select" /\ pc' = [pc EXCEPT ![o] = "returned"]
  BY DEF Finish
<1>4. InBook(x)' <=> InBook(x) \/ (x = o /\ Rests(o))
  BY FinishInBook
<1>5. ~InBook(o)
  BY <1>3 DEF InBook, IInv, OnlyOpenLimitOrdersRest
<1>6. /\ StreamOf(x)
      /\ Placed(x) \cup Final(x) \cup Executions(x) \subseteq DOMAIN events
  BY KindsWithin DEF StreamInv
<1>7. pc'[x] = IF x = o THEN "returned" ELSE pc[x]
  BY <1>3 DEF IInv, TypeOK
<1>8. x = o => Final(x) = {}
  BY <1>3, <1>6 DEF StreamOf, FinalWhenOutOfBook
<1>9. UnseenBeforePlaced(x)' /\ OnlyRefusedRejected(x)'
  BY <1>2, <1>3, <1>6, <1>7 DEF StreamOf, UnseenBeforePlaced, OnlyRefusedRejected, At
<1>10. PlacedOnceAndFirst(x)'
  <2>1. CASE pc'[x] \in {"select", "fill", "returned"}
    <3>1. PICK j \in DOMAIN events :
            Placed(x) = {j} /\ \A i \in Final(x) \cup Executions(x) : j < i
      BY <1>3, <1>6, <1>7, <2>1 DEF StreamOf, PlacedOnceAndFirst
    <3>2. \A i \in Final(x)' \cup Executions(x)' : j < i
      BY <1>2, <3>1 DEF At
    <3>3. QED
      BY <1>2, <3>1, <3>2 DEF PlacedOnceAndFirst
  <2>2. QED
    BY <2>1 DEF PlacedOnceAndFirst
<1>11. FinalWhenOutOfBook(x)'
  BY <1>2, <1>3, <1>4, <1>5, <1>6, <1>7, <1>8 DEF StreamOf, FinalWhenOutOfBook, At
<1>12. FinalOnceAndLast(x)'
  <2>1. CASE x # o
    BY <1>2, <1>6, <2>1 DEF StreamOf, FinalOnceAndLast, At
  <2>2. CASE x = o
    BY <1>2, <1>6, <1>8, <2>2 DEF FinalOnceAndLast, At
  <2>3. QED
    BY <2>1, <2>2
<1>13. QED
  BY <1>9, <1>10, <1>11, <1>12 DEF StreamOf

-----------------------------------------------------------------------------
\* Nothing was said yet when the engine starts.
LEMMA InitStream == Init => StreamInv
<1> SUFFICES ASSUME Init, NEW o \in Orders PROVE StreamOf(o)
  BY DEF StreamInv
<1>1. DOMAIN events = {}
  BY DEF Init
<1>2. Placed(o) = {} /\ Final(o) = {} /\ Executions(o) = {} /\ Refused(o) = {}
  BY <1>1, KindsWithin
<1>3. pc[o] = "new"
  BY DEF Init
<1>4. QED
  BY <1>2, <1>3 DEF StreamOf, UnseenBeforePlaced, OnlyRefusedRejected,
     PlacedOnceAndFirst, FinalWhenOutOfBook, FinalOnceAndLast

\* Every step of the engine keeps what the stream says of every order.
LEMMA NextStream == IInv /\ StreamInv /\ [Next]_vars => StreamInv'
<1> SUFFICES ASSUME IInv, StreamInv, [Next]_vars PROVE StreamInv'
  OBVIOUS
<1>1. CASE UNCHANGED vars
  <2>1. CASE Orders = {}
    BY <2>1 DEF StreamInv
  <2>2. CASE Orders # {}
    BY <1>1, <2>2, SilentStream
  <2>3. QED
    BY <2>1, <2>2
<1>2. ASSUME NEW o \in Orders, NEW r \in Requests, Submit(o, r) PROVE StreamInv'
  BY <1>2, SilentStream
<1>3. ASSUME NEW o \in Orders, NEW r \in Requests, Reject(o, r) PROVE StreamInv'
  BY <1>3, RejectStream
<1>4. ASSUME NEW o \in Orders, Accept(o) PROVE StreamInv'
  BY <1>4, AcceptStream
<1>5. ASSUME NEW o \in Orders, SelectLevel(o) \/ LeaveLevel(o) PROVE StreamInv'
  BY <1>5, SilentStream
<1>6. ASSUME NEW o \in Orders, FillFront(o) PROVE StreamInv'
  BY <1>6, FillFrontStream
<1>7. ASSUME NEW o \in Orders, Finish(o) PROVE StreamInv'
  BY <1>7, FinishStream
<1>8. ASSUME NEW o \in Orders, NEW side \in Sides, Cancel(o, side) PROVE StreamInv'
  BY <1>8, CancelStream
<1>9. QED
  BY <1>1, <1>2, <1>3, <1>4, <1>5, <1>6, <1>7, <1>8 DEF Next

\* The stream says of every order what the invariant says it does.
THEOREM StreamInvariance == Spec => []StreamInv
BY Invariance, InitStream, NextStream, PTL DEF Spec

\* The invariant orders the events of an order.
LEMMA StreamOrdersEvents ==
    ASSUME IInv, StreamInv
    PROVE  EventLifecycle
<1> SUFFICES ASSUME NEW o \in Orders
             PROVE  /\ Cardinality(Placed(o)) <= 1
                    /\ Cardinality(Final(o)) <= 1
                    /\ \A i \in Final(o) \cup Executions(o) : \E j \in Placed(o) : j < i
                    /\ \A i \in Executions(o), j \in Final(o) : i < j
                    /\ Refused(o) # {} => Placed(o) = {}
  BY DEF EventLifecycle, Placed, Final, Executions, Refused
<1>1. StreamOf(o) /\ pc[o] \in HandlerStates
  BY DEF StreamInv, IInv, TypeOK
<1>2. /\ Placed(o) = {} \/ \E j : Placed(o) = {j}
      /\ Final(o) = {} \/ \E j : Final(o) = {j}
  BY <1>1 DEF StreamOf, UnseenBeforePlaced, PlacedOnceAndFirst, FinalOnceAndLast, HandlerStates
<1>3. Cardinality(Placed(o)) <= 1 /\ Cardinality(Final(o)) <= 1
  <2>1. Cardinality({}) = 0 /\ \A j : Cardinality({j}) = 1
    BY FS_EmptySet, FS_Singleton
  <2>2. Cardinality(Placed(o)) \in {0, 1} /\ Cardinality(Final(o)) \in {0, 1}
    BY <1>2, <2>1
  <2>3. QED
    BY <2>2
<1>4. \A i \in Final(o) \cup Executions(o) : \E j \in Placed(o) : j < i
  BY <1>1 DEF StreamOf, UnseenBeforePlaced, PlacedOnceAndFirst, HandlerStates
<1>5. \A i \in Executions(o), j \in Final(o) : i < j
  BY <1>1 DEF StreamOf, FinalOnceAndLast
<1>6. Refused(o) # {} => Placed(o) = {}
  BY <1>1 DEF StreamOf, UnseenBeforePlaced, OnlyRefusedRejected
<1>7. QED
  BY <1>3, <1>4, <1>5, <1>6

\* Every order is placed at most once and before anything else about it, and
\* ends at most once and after everything else about it.
THEOREM Lifecycle == Spec => []EventLifecycle
BY Invariance, StreamInvariance, StreamOrdersEvents, PTL

\* While nobody matches, what is placed and not final is what rests.
LEMMA StreamShowsBook ==
    ASSUME IInv, StreamInv
    PROVE  StreamTellsTheBook
<1> SUFFICES ASSUME lock = NoOrder, NEW o \in Orders, NEW side \in Sides
             PROVE  Resting(book[side], o) <=>
                        Placed(o) # {} /\ Side(o) = side /\ Final(o) = {}
  BY DEF StreamTellsTheBook, Accepted, Placed, Final
<1>1. StreamOf(o) /\ pc[o] \in HandlerStates \ {"select", "fill"}
  BY RequestsAssumption DEF StreamInv, IInv, TypeOK, MutualExclusion
<1>2. \A s \in Sides : Resting(book[s], o) => pc[o] = "returned" /\ Side(o) = s
  BY DEF IInv, OnlyOpenLimitOrdersRest
<1>3. pc[o] = "returned" <=> Placed(o) # {}
  BY <1>1 DEF StreamOf, UnseenBeforePlaced, PlacedOnceAndFirst, HandlerStates
<1>4. pc[o] = "returned" => (Final(o) = {} <=> InBook(o))
  BY <1>1 DEF StreamOf, FinalWhenOutOfBook
<1>5. QED
  BY <1>2, <1>3, <1>4 DEF InBook

\* Who reads the stream can rebuild the book.
THEOREM BookFromStream == Spec => []StreamTellsTheBook
BY Invariance, StreamInvariance, StreamShowsBook, PTL

-----------------------------------------------------------------------------
(***************************************************************************)
(* Shares and cash.                                                        *)
(***************************************************************************)
\* Until it is matched an order has the quantity it came with.
QuantityAsSubmitted(o) ==
    pc[o] \in {"waiting", "select", "fill"} => qty[o] = request[o].quantity

\* The taker's remaining quantity is what did not trade; afterwards what did
\* not trade was cancelled or rests.
SharesAccounted(o) ==
    /\ pc[o] \in {"select", "fill"} => request[o].quantity = Traded(o) + remaining
    /\ pc[o] = "returned" =>
          request[o].quantity =
              Traded(o) + Cancelled(o) + (IF InBook(o) THEN qty[o] ELSE 0)

\* Who is reported as filled traded everything.
FilledTradedAll(o) ==
    About("OrderFilled", o) # {} => Traded(o) = request[o].quantity

\* Who is reported as cancelled had something left.
CancelledSomething(o) ==
    About("OrderCancelled", o) # {} => Cancelled(o) > 0

\* A market buyer's balance is what it came with less what it paid, and what it
\* paid it had.
CashAccounted(o) ==
    /\ pc[o] \in {"select", "fill"} /\ IsMarketBuy(o) =>
          /\ Spent(o) + balance = request[o].balance
          /\ Trades(o) # {} => balance >= 0
    /\ pc[o] = "returned" /\ IsMarketBuy(o) /\ Trades(o) # {} =>
          Spent(o) <= request[o].balance

SharesOf(o) ==
    /\ QuantityAsSubmitted(o)
    /\ SharesAccounted(o)
    /\ FilledTradedAll(o)
    /\ CancelledSomething(o)
    /\ CashAccounted(o)

\* The invariant of the sums, inductive together with IInv and StreamInv.
SharesInv == \A o \in Orders : SharesOf(o)

\* The terms of the sums are integers, and finitely many.
LEMMA SumTerms ==
    ASSUME events \in Seq(Events), NEW o
    PROVE  /\ IsFiniteSet(Trades(o)) /\ IsFiniteSet(About("OrderCancelled", o))
           /\ Trades(o) \cup About("OrderCancelled", o) \subseteq DOMAIN events
           /\ \A i \in Trades(o) : events[i].quantity \in Int /\ events[i].price \in Nat
           /\ \A i \in About("OrderCancelled", o) : events[i].left \in Int
<1>1. DOMAIN events = 1..Len(events) /\ Len(events) \in Nat
  BY LenProperties
<1>2. \A i \in DOMAIN events : events[i] \in Events
  BY <1>1, ElementOfSeq
<1>3. Trades(o) \cup About("OrderCancelled", o) \subseteq DOMAIN events
  BY DEF Trades, About, Published
<1>4. IsFiniteSet(1..Len(events))
  BY <1>1, FS_Interval
<1>5. IsFiniteSet(Trades(o)) /\ IsFiniteSet(About("OrderCancelled", o))
  BY <1>1, <1>3, <1>4, FS_Subset
<1>6. ASSUME NEW i \in Trades(o)
      PROVE  events[i].quantity \in Int /\ events[i].price \in Nat
  <2>1. events[i] \in Events /\ events[i].type = "TradeExecuted"
    BY <1>2, <1>3 DEF Trades, Published
  <2>2. QED
    BY <2>1, PricesAssumption DEF Events
<1>7. ASSUME NEW i \in About("OrderCancelled", o)
      PROVE  events[i].left \in Int
  <2>1. events[i] \in Events /\ events[i].type = "OrderCancelled"
    BY <1>2, <1>3 DEF About, Published
  <2>2. QED
    BY <2>1 DEF Events
<1>8. QED
  BY <1>3, <1>5, <1>6, <1>7

\* The sums are integers, and 0 of an order that did not trade or cancel.
LEMMA SumsAreInts ==
    ASSUME events \in Seq(Events), NEW o
    PROVE  /\ Traded(o) \in Int /\ Spent(o) \in Int /\ Cancelled(o) \in Int
           /\ Trades(o) = {} => Traded(o) = 0 /\ Spent(o) = 0
           /\ About("OrderCancelled", o) = {} => Cancelled(o) = 0
<1> DEFINE q == [i \in Trades(o) |-> events[i].quantity]
           c == [i \in Trades(o) |-> events[i].price * events[i].quantity]
           l == [i \in About("OrderCancelled", o) |-> events[i].left]
<1>1. /\ Traded(o) = SumFunctionOnSet(q, Trades(o))
      /\ Spent(o) = SumFunctionOnSet(c, Trades(o))
      /\ Cancelled(o) = SumFunctionOnSet(l, About("OrderCancelled", o))
  BY DEF Traded, Spent, Cancelled, SumFunction
<1>2. /\ \A i \in Trades(o) : q[i] \in Int /\ c[i] \in Int
      /\ \A i \in About("OrderCancelled", o) : l[i] \in Int
  <2>1. ASSUME NEW i \in Trades(o) PROVE q[i] \in Int /\ c[i] \in Int
    <3>1. events[i].quantity \in Int /\ events[i].price \in Int
      BY SumTerms
    <3>2. events[i].price * events[i].quantity \in Int
      BY <3>1
    <3>3. QED
      BY <3>1, <3>2
  <2>2. QED
    BY <2>1, SumTerms
<1> HIDE DEF q, c, l
<1>3. Traded(o) \in Int /\ Spent(o) \in Int /\ Cancelled(o) \in Int
  BY <1>1, <1>2, SumTerms, SumIsInt
<1>4. QED
  BY <1>1, <1>3, SumOfNone

\* What an order traded and spent changes with its trades only.
LEMMA TradedFrame ==
    ASSUME events \in Seq(Events), StreamExtends, NEW o, Trades(o)' = Trades(o)
    PROVE  Traded(o)' = Traded(o) /\ Spent(o)' = Spent(o)
<1>1. \A i \in Trades(o) : events'[i] = events[i]
  BY SumTerms DEF StreamExtends
<1>2. /\ [i \in Trades(o)' |-> events'[i].quantity] = [i \in Trades(o) |-> events[i].quantity]
      /\ [i \in Trades(o)' |-> events'[i].price * events'[i].quantity]
            = [i \in Trades(o) |-> events[i].price * events[i].quantity]
  BY <1>1
<1>3. QED
  BY <1>2 DEF Traded, Spent

\* ... and what was cancelled with its cancel only.
LEMMA CancelledFrame ==
    ASSUME events \in Seq(Events), StreamExtends, NEW o,
           About("OrderCancelled", o)' = About("OrderCancelled", o)
    PROVE  Cancelled(o)' = Cancelled(o)
<1>1. \A i \in About("OrderCancelled", o) : events'[i] = events[i]
  BY SumTerms DEF StreamExtends
<1>2. [i \in About("OrderCancelled", o)' |-> events'[i].left]
        = [i \in About("OrderCancelled", o) |-> events[i].left]
  BY <1>1
<1>3. QED
  BY <1>2 DEF Cancelled

\* One more trade adds its quantity, and its price times its quantity.
LEMMA TradedMore ==
    ASSUME events \in Seq(Events), StreamExtends, NEW o, NEW n,
           n \notin DOMAIN events, Trades(o)' = Trades(o) \cup {n},
           events'[n].quantity \in Int, events'[n].price \in Int
    PROVE  /\ Traded(o)' = Traded(o) + events'[n].quantity
           /\ Spent(o)' = Spent(o) + events'[n].price * events'[n].quantity
<1> DEFINE S == Trades(o)
           R == Trades(o) \cup {n}
           q == [i \in S |-> events[i].quantity]
           c == [i \in S |-> events[i].price * events[i].quantity]
           qq == [i \in R |-> events'[i].quantity]
           cc == [i \in R |-> events'[i].price * events'[i].quantity]
<1>1. /\ Traded(o) = SumFunctionOnSet(q, S)
      /\ Spent(o) = SumFunctionOnSet(c, S)
      /\ Traded(o)' = SumFunctionOnSet(qq, R)
      /\ Spent(o)' = SumFunctionOnSet(cc, R)
  BY DEF Traded, Spent, SumFunction
<1>2. IsFiniteSet(S) /\ n \notin S /\ \A i \in S : events'[i] = events[i]
  BY SumTerms DEF StreamExtends
<1>3. \A i \in S : q[i] \in Int /\ qq[i] = q[i]
  BY <1>2, SumTerms
<1>4. \A i \in S : c[i] \in Int /\ cc[i] = c[i]
  <2>1. TAKE i \in S
  <2>2. events[i].quantity \in Int /\ events[i].price \in Int
    BY SumTerms
  <2>3. events[i].price * events[i].quantity \in Int
    BY <2>2
  <2>4. QED
    BY <1>2, <2>3
<1>5. qq[n] = events'[n].quantity /\ cc[n] = events'[n].price * events'[n].quantity
  OBVIOUS
<1>6. qq[n] \in Int /\ cc[n] \in Int
  <2>1. events'[n].price * events'[n].quantity \in Int
    OBVIOUS
  <2>2. QED
    BY <1>5, <2>1
<1> HIDE DEF S, q, c, qq, cc
<1>7. R = S \cup {n}
  BY DEF S
<1> HIDE DEF R
<1>8. SumFunctionOnSet(qq, R) = SumFunctionOnSet(q, S) + qq[n]
  BY <1>2, <1>3, <1>6, <1>7, SumOfOneMore
<1>9. SumFunctionOnSet(cc, R) = SumFunctionOnSet(c, S) + cc[n]
  BY <1>2, <1>4, <1>6, <1>7, SumOfOneMore
<1>10. QED
  BY <1>1, <1>5, <1>8, <1>9

\* A cancel adds what it says was left.
LEMMA CancelledMore ==
    ASSUME events \in Seq(Events), StreamExtends, NEW o, NEW n,
           n \notin DOMAIN events,
           About("OrderCancelled", o)' = About("OrderCancelled", o) \cup {n},
           events'[n].left \in Int
    PROVE  Cancelled(o)' = Cancelled(o) + events'[n].left
<1> DEFINE S == About("OrderCancelled", o)
           R == About("OrderCancelled", o) \cup {n}
           l == [i \in S |-> events[i].left]
           ll == [i \in R |-> events'[i].left]
<1>1. /\ Cancelled(o) = SumFunctionOnSet(l, S)
      /\ Cancelled(o)' = SumFunctionOnSet(ll, R)
  BY DEF Cancelled, SumFunction
<1>2. IsFiniteSet(S) /\ n \notin S /\ \A i \in S : events'[i] = events[i]
  BY SumTerms DEF StreamExtends
<1>3. \A i \in S : l[i] \in Int /\ ll[i] = l[i]
  BY <1>2, SumTerms
<1>4. ll[n] = events'[n].left
  OBVIOUS
<1>5. ll[n] \in Int
  BY <1>4
<1> HIDE DEF S, l, ll
<1>6. R = S \cup {n}
  BY DEF S
<1> HIDE DEF R
<1>7. SumFunctionOnSet(ll, R) = SumFunctionOnSet(l, S) + ll[n]
  BY <1>2, <1>3, <1>5, <1>6, SumOfOneMore
<1>8. QED
  BY <1>1, <1>4, <1>7

\* The sums of an order of which neither a trade nor a cancellation is new.
LEMMA SumsKept ==
    ASSUME IInv, StreamExtends, NEW x, Trades(x)' = Trades(x),
           About("OrderCancelled", x)' = About("OrderCancelled", x)
    PROVE  /\ Traded(x)' = Traded(x) /\ Spent(x)' = Spent(x)
           /\ Cancelled(x)' = Cancelled(x)
<1>1. events \in Seq(Events)
  BY DEF IInv, TypeOK
<1>2. QED
  BY <1>1, TradedFrame, CancelledFrame

\* A step keeps the sums of an order that it does not touch.
LEMMA UntouchedShares ==
    ASSUME IInv, SharesInv, NEW x \in Orders, StreamExtends,
           Trades(x)' = Trades(x),
           About("OrderCancelled", x)' = About("OrderCancelled", x),
           About("OrderFilled", x)' = About("OrderFilled", x),
           InBook(x)' <=> InBook(x),
           qty'[x] = qty[x],
           request'[x] = request[x],
           \/ pc'[x] = pc[x] /\ pc[x] \notin {"select", "fill"}
           \/ /\ pc[x] \in {"select", "fill"} /\ pc'[x] \in {"select", "fill"}
              /\ remaining' = remaining /\ balance' = balance
    PROVE  SharesOf(x)'
<1>1. /\ SharesOf(x)
      /\ Traded(x)' = Traded(x) /\ Spent(x)' = Spent(x) /\ Cancelled(x)' = Cancelled(x)
      /\ IsMarketBuy(x)' <=> IsMarketBuy(x)
  BY SumsKept DEF SharesInv, IsMarketBuy, IsMarket, Side
<1>2. QuantityAsSubmitted(x)' /\ FilledTradedAll(x)' /\ CancelledSomething(x)'
  BY <1>1 DEF SharesOf, QuantityAsSubmitted, FilledTradedAll, CancelledSomething
<1>3. SharesAccounted(x)'
  BY <1>1 DEF SharesOf, SharesAccounted
<1>4. CashAccounted(x)'
  BY <1>1 DEF SharesOf, CashAccounted
<1>5. QED
  BY <1>2, <1>3, <1>4 DEF SharesOf

\* An order that was not accepted yet has no sums to account for.
LEMMA UnseenShares ==
    ASSUME IInv, StreamInv, NEW x \in Orders, pc[x] \in {"new", "waiting", "rejected"}
    PROVE  /\ Trades(x) = {}
           /\ About("OrderFilled", x) = {}
           /\ About("OrderCancelled", x) = {}
BY DEF StreamInv, StreamOf, UnseenBeforePlaced, Final, Executions

\* A call that is checked: nothing is said of it but its refusal.
LEMMA SubmitShares ==
    ASSUME IInv, StreamInv, SharesInv, NEW o \in Orders, NEW r \in Requests,
           Submit(o, r) \/ Reject(o, r)
    PROVE  SharesInv'
<1>1. /\ pc[o] = "new"
      /\ pc' = [pc EXCEPT ![o] = pc'[o]]
      /\ pc'[o] \in {"waiting", "rejected"}
      /\ request' = [request EXCEPT ![o] = r]
      /\ qty' = [qty EXCEPT ![o] = r.quantity]
      /\ UNCHANGED <<book, remaining, balance>>
      /\ events' \in {events, Append(events, RejectedEvent(o, r))}
  BY DEF Submit, Reject, IInv, TypeOK
<1>2. SUFFICES ASSUME NEW x \in Orders PROVE SharesOf(x)'
  BY DEF SharesInv
<1>3. /\ StreamExtends
      /\ Trades(x)' = Trades(x)
      /\ About("OrderCancelled", x)' = About("OrderCancelled", x)
      /\ About("OrderFilled", x)' = About("OrderFilled", x)
  <2>1. CASE events' = events
    BY <2>1 DEF StreamExtends, Trades, About, Published
  <2>2. CASE events' = Append(events, RejectedEvent(o, r))
    <3> DEFINE e == RejectedEvent(o, r)
               n == Len(events) + 1
    <3>1. events \in Seq(Events)
      BY DEF IInv, TypeOK
    <3>2. e.type = "OrderRejected"
      BY DEF RejectedEvent
    <3> HIDE DEF e
    <3>3. /\ \A t : About(t, x)' = About(t, x) \cup At(n, Concerns(e, t, x))
          /\ Trades(x)' = Trades(x) \cup At(n, TradeOf(e, x))
      BY <2>2, <3>1, OneEventMore, Zenon DEF e
    <3>4. StreamExtends
      BY <2>2, <3>1, OneEventExtends
    <3>5. QED
      BY <3>2, <3>3, <3>4 DEF Concerns, TradeOf, At
  <2>3. QED
    BY <1>1, <2>1, <2>2
<1>4. InBook(x)' <=> InBook(x)
  BY <1>1 DEF InBook
<1>5. CASE x = o
  <2>1. pc'[o] \in {"waiting", "rejected"} /\ request'[o] = r /\ qty'[o] = r.quantity
    BY <1>1 DEF IInv, TypeOK
  <2>2. About("OrderFilled", x)' = {} /\ About("OrderCancelled", x)' = {}
    BY <1>1, <1>3, <1>5, UnseenShares
  <2>3. QED
    BY <1>5, <2>1, <2>2 DEF SharesOf, QuantityAsSubmitted, SharesAccounted,
       FilledTradedAll, CancelledSomething, CashAccounted
<1>6. CASE x # o
  <2>1. pc'[x] = pc[x] /\ request'[x] = request[x] /\ qty'[x] = qty[x]
    BY <1>1, <1>6 DEF IInv, TypeOK
  <2>2. QED
    BY <1>1, <1>3, <1>4, <2>1, UntouchedShares
<1>7. QED
  BY <1>5, <1>6

\* The taker starts with all of its quantity and all of its balance.
LEMMA AcceptShares ==
    ASSUME IInv, StreamInv, SharesInv, NEW o \in Orders, Accept(o)
    PROVE  SharesInv'
<1> DEFINE e == PlacedEvent(o)
           n == Len(events) + 1
<1>1. /\ pc[o] = "waiting"
      /\ lock = NoOrder
      /\ pc' = [pc EXCEPT ![o] = "select"]
      /\ remaining' = qty[o]
      /\ balance' = request[o].balance
      /\ events' = Append(events, e)
      /\ UNCHANGED <<request, qty, book>>
  BY DEF Accept
<1>2. SUFFICES ASSUME NEW x \in Orders PROVE SharesOf(x)'
  BY DEF SharesInv
<1>3. e.type = "OrderPlaced"
  BY DEF PlacedEvent
<1> HIDE DEF e
<1>4. /\ StreamExtends
      /\ Trades(x)' = Trades(x)
      /\ About("OrderCancelled", x)' = About("OrderCancelled", x)
      /\ About("OrderFilled", x)' = About("OrderFilled", x)
  <2>1. events \in Seq(Events)
    BY DEF IInv, TypeOK
  <2>2. /\ \A t : About(t, x)' = About(t, x) \cup At(n, Concerns(e, t, x))
        /\ Trades(x)' = Trades(x) \cup At(n, TradeOf(e, x))
    BY <1>1, <2>1, OneEventMore, Zenon
  <2>3. StreamExtends
    BY <1>1, <2>1, OneEventExtends
  <2>4. QED
    BY <1>3, <2>2, <2>3 DEF Concerns, TradeOf, At
<1>5. CASE x = o
  <2>1. pc'[o] = "select" /\ qty[o] = request[o].quantity
    BY <1>1 DEF IInv, TypeOK, SharesInv, SharesOf, QuantityAsSubmitted
  <2>2. /\ About("OrderFilled", x)' = {} /\ Trades(x)' = {}
        /\ Trades(x) = {} /\ About("OrderCancelled", x)' = {}
    BY <1>1, <1>4, <1>5, UnseenShares
  <2>3. Traded(x)' = 0 /\ Spent(x)' = 0
    <3>1. events \in Seq(Events)
      BY DEF IInv, TypeOK
    <3>2. Traded(x) = 0 /\ Spent(x) = 0
      BY <2>2, <3>1, SumsAreInts
    <3>3. QED
      BY <1>4, <3>2, SumsKept
  <2>4. request[o].quantity \in Int /\ request[o].balance \in Int
    BY <1>1, RequestFields DEF RequestType
  <2>5. QED
    BY <1>1, <1>5, <2>1, <2>2, <2>3, <2>4 DEF SharesOf, QuantityAsSubmitted,
       SharesAccounted, FilledTradedAll, CancelledSomething, CashAccounted
<1>6. CASE x # o
  <2>1. pc'[x] = pc[x] /\ pc[x] \notin {"select", "fill"}
    BY <1>1, <1>6, RequestsAssumption DEF IInv, TypeOK, MutualExclusion
  <2>2. InBook(x)' <=> InBook(x)
    BY <1>1 DEF InBook
  <2>3. QED
    BY <1>1, <1>4, <2>1, <2>2, UntouchedShares
<1>7. QED
  BY <1>5, <1>6

\* Choosing and leaving a level moves no shares and no cash.
LEMMA LevelShares ==
    ASSUME IInv, SharesInv, NEW o \in Orders, SelectLevel(o) \/ LeaveLevel(o)
    PROVE  SharesInv'
<1>1. /\ pc[o] \in {"select", "fill"}
      /\ pc' \in {[pc EXCEPT ![o] = "select"], [pc EXCEPT ![o] = "fill"]}
      /\ UNCHANGED <<request, qty, remaining, balance, events>>
  BY DEF SelectLevel, LeaveLevel
<1>2. SUFFICES ASSUME NEW x \in Orders PROVE SharesOf(x)'
  BY DEF SharesInv
<1>3. InBook(x)' <=> InBook(x)
  BY SelectInBook DEF LeaveLevel, InBook
<1>4. /\ StreamExtends
      /\ Trades(x)' = Trades(x)
      /\ About("OrderCancelled", x)' = About("OrderCancelled", x)
      /\ About("OrderFilled", x)' = About("OrderFilled", x)
  BY <1>1 DEF StreamExtends, Trades, About, Published
<1>5. \/ pc'[x] = pc[x] /\ pc[x] \notin {"select", "fill"}
      \/ pc[x] \in {"select", "fill"} /\ pc'[x] \in {"select", "fill"}
  BY <1>1 DEF IInv, TypeOK
<1>6. QED
  BY <1>1, <1>3, <1>4, <1>5, UntouchedShares

\* A trade moves its quantity from what remains of the taker and of the maker
\* to what they traded, and its cost from the taker's balance to what it spent.
LEMMA FillFrontShares ==
    ASSUME IInv, StreamInv, SharesInv, NEW o \in Orders, FillFront(o)
    PROVE  SharesInv'
<1>1. /\ Opposite(Side(o)) \in Sides
      /\ pc[o] = "fill"
      /\ bestPrice \in Int
      /\ \E maker \in Orders, quantity \in Nat \ {0} : Fills(o, maker, quantity)
  <2>1. bestPrice \in Prices
    BY FillFrontTrades
  <2>2. QED
    BY <2>1, FillFrontTrades, PricesAssumption
<1>2. PICK maker \in Orders, quantity \in Nat \ {0} : Fills(o, maker, quantity)
  BY <1>1
<1> DEFINE gone == qty[maker] = quantity
           n == Len(events) + 1
           m == Len(events) + 2
           cost == bestPrice * quantity
<1>3. /\ pc' = pc /\ request' = request
      /\ pc[maker] = "returned"
      /\ quantity <= qty[maker]
      /\ remaining' = remaining - quantity
      /\ qty' = [qty EXCEPT ![maker] = qty[maker] - quantity]
      /\ balance' = IF IsMarketBuy(o) THEN balance - cost ELSE balance
      /\ IsMarketBuy(o) => cost <= balance
  BY <1>2 DEF Fills
<1>4. InBook(maker) /\ ~IsMarket(maker)
  BY <1>1, <1>2 DEF Fills, InBook, IInv, OnlyOpenLimitOrdersRest
<1>5. /\ cost \in Int /\ quantity \in Int
      /\ remaining \in Int /\ balance \in Int /\ qty \in [Orders -> Int]
      /\ events \in Seq(Events)
  BY <1>1 DEF IInv, TypeOK
<1>6. SUFFICES ASSUME NEW x \in Orders PROVE SharesOf(x)'
  BY DEF SharesInv
<1>7. /\ StreamExtends
      /\ n \notin DOMAIN events
      /\ events'[n].price = bestPrice /\ events'[n].quantity = quantity
      /\ Trades(x)' = Trades(x) \cup At(n, x \in {o, maker})
      /\ About("OrderFilled", x)' = About("OrderFilled", x) \cup At(m, x = maker /\ gone)
      /\ About("OrderCancelled", x)' = About("OrderCancelled", x)
  BY <1>2, FillsEvents
<1>8. InBook(x)' <=> InBook(x) /\ ~(x = maker /\ gone)
  BY <1>1, <1>2, FillsBook DEF InBook
<1>9. SharesOf(x) /\ StreamOf(x) /\ request[x] = request'[x]
  BY <1>3 DEF SharesInv, StreamInv
<1>10. (IsMarketBuy(x)' <=> IsMarketBuy(x)) /\ (IsMarket(x)' <=> IsMarket(x))
  BY <1>3 DEF IsMarketBuy, IsMarket, Side
<1>11. Traded(x) \in Int /\ Spent(x) \in Int /\ Cancelled(x) \in Int
  BY <1>5, SumsAreInts
<1>12. Cancelled(x)' = Cancelled(x)
  BY <1>5, <1>7, CancelledFrame
<1>13. x \in {o, maker} =>
          /\ Traded(x)' = Traded(x) + quantity
          /\ Spent(x)' = Spent(x) + cost
  <2>1. SUFFICES ASSUME x \in {o, maker}
                 PROVE  Traded(x)' = Traded(x) + quantity /\ Spent(x)' = Spent(x) + cost
    OBVIOUS
  <2>2. Trades(x)' = Trades(x) \cup {n}
    BY <1>7, <2>1 DEF At
  <2>3. n \notin DOMAIN events /\ events'[n].quantity \in Int /\ events'[n].price \in Int
    BY <1>1, <1>5, <1>7
  <2> HIDE DEF n
  <2>4. /\ Traded(x)' = Traded(x) + events'[n].quantity
        /\ Spent(x)' = Spent(x) + events'[n].price * events'[n].quantity
    BY <1>5, <1>7, <2>2, <2>3, TradedMore
  <2>5. QED
    BY <1>7, <2>4 DEF n
<1> HIDE DEF cost, n, m, gone
<1>14. CASE x = o
  <2>1. o # maker /\ qty'[o] = qty[o]
    BY <1>1, <1>3, <1>5
  <2>2. Final(o) = {}
    BY <1>1, <1>9, <1>14 DEF StreamOf, FinalWhenOutOfBook
  <2>3. About("OrderFilled", x)' = {} /\ About("OrderCancelled", x)' = {}
    BY <1>7, <1>14, <2>1, <2>2 DEF Final, At
  <2>4. QuantityAsSubmitted(x)' /\ FilledTradedAll(x)' /\ CancelledSomething(x)'
    BY <1>3, <1>9, <1>14, <2>1, <2>3
       DEF SharesOf, QuantityAsSubmitted, FilledTradedAll, CancelledSomething
  <2>5. SharesAccounted(x)'
    BY <1>1, <1>3, <1>5, <1>9, <1>11, <1>13, <1>14 DEF SharesOf, SharesAccounted
  <2>6. CashAccounted(x)'
    <3>1. ASSUME IsMarketBuy(o)
          PROVE  Spent(o)' + balance' = request[o].balance /\ balance' >= 0
      <4>1. CashAccounted(o)
        BY <1>9, <1>14 DEF SharesOf
      <4>2. Spent(o) + balance = request[o].balance
        BY <1>1, <3>1, <4>1 DEF CashAccounted
      <4>3. Spent(o)' = Spent(o) + cost /\ balance' = balance - cost /\ cost <= balance
        BY <1>3, <1>13, <1>14, <3>1
      <4>4. Spent(o) \in Int /\ cost \in Int /\ balance \in Int
        BY <1>5, <1>11, <1>14
      <4>5. QED
        BY <4>2, <4>3, <4>4
    <3>2. QED
      BY <1>1, <1>3, <1>9, <1>10, <1>14, <3>1 DEF CashAccounted
  <2>7. QED
    BY <2>4, <2>5, <2>6 DEF SharesOf
<1>15. CASE x = maker
  <2>1. Final(x) = {}
    BY <1>3, <1>4, <1>9, <1>15 DEF StreamOf, FinalWhenOutOfBook
  <2>2. Cancelled(x) = 0
    BY <1>5, <2>1, SumsAreInts DEF Final
  <2>3. request[x].quantity = Traded(x) + qty[x]
    BY <1>3, <1>4, <1>5, <1>9, <1>11, <1>15, <2>2 DEF SharesOf, SharesAccounted
  <2>4. qty'[x] = qty[x] - quantity /\ Traded(x)' = Traded(x) + quantity
    BY <1>3, <1>5, <1>13, <1>15
  <2>5. request'[x].quantity = Traded(x)' + qty'[x]
    BY <1>5, <1>9, <1>11, <2>3, <2>4
  <2>6. gone => qty'[x] = 0
    BY <1>5, <1>15, <2>4 DEF gone
  <2>7. QuantityAsSubmitted(x)' /\ CashAccounted(x)' /\ CancelledSomething(x)'
    <3>1. About("OrderCancelled", x)' = {}
      BY <1>7, <2>1 DEF Final
    <3>2. QED
      BY <1>3, <1>4, <1>10, <1>15, <3>1
         DEF QuantityAsSubmitted, CashAccounted, CancelledSomething, IsMarketBuy
  <2>8. SharesAccounted(x)'
    <3>1. qty'[x] \in Int /\ Traded(x)' \in Int
      BY <1>5, <1>11, <2>4
    <3>2. InBook(x)' <=> ~gone
      BY <1>4, <1>8, <1>15
    <3>3. QED
      BY <1>3, <1>12, <1>15, <2>2, <2>5, <2>6, <3>1, <3>2 DEF SharesAccounted
  <2>9. FilledTradedAll(x)'
    <3>1. Traded(x)' \in Int
      BY <1>5, <1>11, <2>4
    <3>2. gone => Traded(x)' = request'[x].quantity
      BY <2>5, <2>6, <3>1
    <3>3. QED
      BY <1>7, <2>1, <3>2 DEF FilledTradedAll, Final, At
  <2>10. QED
    BY <2>7, <2>8, <2>9 DEF SharesOf
<1>16. CASE x \notin {o, maker}
  <2>1. /\ Trades(x)' = Trades(x)
        /\ About("OrderFilled", x)' = About("OrderFilled", x)
        /\ InBook(x)' <=> InBook(x)
    BY <1>7, <1>8, <1>16 DEF At
  <2>2. pc[x] \notin {"select", "fill"} /\ qty'[x] = qty[x]
    BY <1>1, <1>3, <1>16 DEF IInv, MutualExclusion, TypeOK
  <2>3. QED
    BY <1>3, <1>7, <2>1, <2>2, UntouchedShares
<1>17. QED
  BY <1>14, <1>15, <1>16

\* What a cancelled order still wanted is reported as cancelled.
LEMMA CancelShares ==
    ASSUME IInv, StreamInv, SharesInv, NEW o \in Orders, NEW side \in Sides, Cancel(o, side)
    PROVE  SharesInv'
<1> DEFINE n == Len(events) + 1
<1>1. /\ UNCHANGED <<request, qty, pc, remaining, balance>>
      /\ pc[o] = "returned" /\ ~IsMarket(o) /\ InBook(o) /\ qty[o] > 0
  BY DEF Cancel, IInv, OnlyOpenLimitOrdersRest, InBook
<1>2. qty \in [Orders -> Int] /\ events \in Seq(Events)
  BY DEF IInv, TypeOK
<1>3. SUFFICES ASSUME NEW x \in Orders PROVE SharesOf(x)'
  BY DEF SharesInv
<1>4. /\ StreamExtends
      /\ n \notin DOMAIN events
      /\ events'[n].left = qty[o]
      /\ Trades(x)' = Trades(x)
      /\ About("OrderFilled", x)' = About("OrderFilled", x)
      /\ About("OrderCancelled", x)' = About("OrderCancelled", x) \cup At(n, x = o)
  BY CancelEvents
<1>5. InBook(x)' <=> InBook(x) /\ x # o
  BY CancelInBook
<1> HIDE DEF n
<1>6. CASE x = o
  <2>1. SharesOf(x) /\ StreamOf(x) /\ (IsMarketBuy(x)' <=> IsMarketBuy(x))
    BY <1>1 DEF SharesInv, StreamInv, IsMarketBuy, IsMarket, Side
  <2>2. Traded(x)' = Traded(x) /\ Spent(x)' = Spent(x)
    BY <1>2, <1>4, TradedFrame
  <2>3. Cancelled(x)' = Cancelled(x) + qty[o]
    <3>1. About("OrderCancelled", x)' = About("OrderCancelled", x) \cup {n}
      BY <1>4, <1>6 DEF At
    <3>2. events'[n].left \in Int
      BY <1>2, <1>4
    <3>3. Cancelled(x)' = Cancelled(x) + events'[n].left
      BY <1>2, <1>4, <3>1, <3>2, CancelledMore
    <3>4. QED
      BY <1>4, <3>3
  <2>4. Traded(x) \in Int /\ Cancelled(x) \in Int /\ qty[o] \in Int
    BY <1>2, SumsAreInts
  <2>5. SharesAccounted(x)'
    BY <1>1, <1>5, <1>6, <2>1, <2>2, <2>3, <2>4 DEF SharesOf, SharesAccounted
  <2>6. QuantityAsSubmitted(x)' /\ FilledTradedAll(x)' /\ CashAccounted(x)'
    BY <1>1, <1>4, <1>6, <2>1, <2>2
       DEF SharesOf, QuantityAsSubmitted, FilledTradedAll, CashAccounted, IsMarketBuy
  <2>7. CancelledSomething(x)'
    <3>1. Final(x) = {}
      BY <1>1, <1>6, <2>1 DEF StreamOf, FinalWhenOutOfBook
    <3>2. Cancelled(x) = 0
      BY <1>2, <3>1, SumsAreInts DEF Final
    <3>3. QED
      BY <1>1, <2>3, <2>4, <3>2 DEF CancelledSomething
  <2>8. QED
    BY <2>5, <2>6, <2>7 DEF SharesOf
<1>7. CASE x # o
  <2>1. /\ About("OrderCancelled", x)' = About("OrderCancelled", x)
        /\ InBook(x)' <=> InBook(x)
    BY <1>4, <1>5, <1>7 DEF At
  <2>2. pc[x] \in {"select", "fill"} => remaining' = remaining /\ balance' = balance
    BY <1>1
  <2>3. QED
    BY <1>1, <1>4, <2>1, <2>2, UntouchedShares
<1>8. QED
  BY <1>6, <1>7

\* The end of a match says that the taker is filled when nothing remains, and
\* what remains of a market order as cancelled.
LEMMA FinishEvents ==
    ASSUME IInv, NEW o \in Orders, Finish(o), NEW x
    PROVE  /\ StreamExtends
           /\ Trades(x)' = Trades(x)
           /\ \E k : /\ k \notin DOMAIN events
                     /\ About("OrderFilled", x)' =
                          About("OrderFilled", x) \cup At(k, x = o /\ remaining = 0)
                     /\ About("OrderCancelled", x)' = About("OrderCancelled", x)
                          \cup At(k, x = o /\ remaining > 0 /\ IsMarket(o))
                     /\ remaining > 0 /\ IsMarket(o) => events'[k].left = remaining
<1> DEFINE filled == FilledEvent(o, qty[o])
           partial == PartiallyFilledEvent(o, qty[o] - remaining, remaining)
           cancel == CancelledEvent(o, remaining)
           n == Len(events) + 1
           m == Len(events) + 2
<1>1. /\ events \in Seq(Events) /\ events' = events \o TakerEvents(o)
      /\ remaining \in Nat /\ qty[o] \in Int
  BY DEF Finish, IInv, TypeOK
<1>2. /\ filled.type = "OrderFilled" /\ filled.order = o
      /\ partial.type = "OrderPartiallyFilled" /\ partial.order = o
      /\ cancel.type = "OrderCancelled" /\ cancel.order = o /\ cancel.left = remaining
      /\ filled \in Events /\ partial \in Events /\ cancel \in Events
  <2>1. qty[o] - remaining \in Int /\ remaining \in Int
    BY <1>1
  <2>2. QED
    BY <1>1, <2>1 DEF FilledEvent, PartiallyFilledEvent, CancelledEvent, Events
<1>3. \/ remaining = 0 /\ TakerEvents(o) = <<filled>>
      \/ remaining > 0 /\ IsMarket(o) /\ TakerEvents(o) \in {<<partial, cancel>>, <<cancel>>}
      \/ remaining > 0 /\ ~IsMarket(o) /\ TakerEvents(o) \in {<<partial>>, <<>>}
  BY <1>1, TakerEventsCases, Zenon
<1> HIDE DEF filled, partial, cancel
<1>4. ASSUME NEW e \in Events, TakerEvents(o) = <<e>>
      PROVE  /\ StreamExtends
             /\ n \notin DOMAIN events
             /\ events'[n] = e
             /\ \A t : About(t, x)' = About(t, x) \cup At(n, Concerns(e, t, x))
             /\ Trades(x)' = Trades(x) \cup At(n, TradeOf(e, x))
  <2>1. events' = Append(events, e)
    BY <1>1, <1>4, AppendIsConcat
  <2>2. StreamExtends /\ n \notin DOMAIN events /\ events'[n] = e
    BY <1>1, <2>1, OneEventExtends
  <2>3. /\ \A t : About(t, x)' = About(t, x) \cup At(n, Concerns(e, t, x))
        /\ Trades(x)' = Trades(x) \cup At(n, TradeOf(e, x))
    BY <1>1, <2>1, OneEventMore, Zenon
  <2>4. QED
    BY <2>2, <2>3
<1>5. CASE remaining = 0 /\ TakerEvents(o) = <<filled>>
  <2>1. /\ StreamExtends /\ n \notin DOMAIN events
        /\ Trades(x)' = Trades(x)
        /\ About("OrderFilled", x)' = About("OrderFilled", x) \cup At(n, x = o)
        /\ About("OrderCancelled", x)' = About("OrderCancelled", x)
    BY <1>2, <1>4, <1>5 DEF Concerns, TradeOf, At
  <2> HIDE DEF n
  <2>2. QED
    BY <1>5, <2>1 DEF At
<1>6. CASE remaining > 0 /\ IsMarket(o) /\ TakerEvents(o) = <<cancel>>
  <2>1. /\ StreamExtends /\ n \notin DOMAIN events
        /\ events'[n].left = remaining
        /\ Trades(x)' = Trades(x)
        /\ About("OrderFilled", x)' = About("OrderFilled", x)
        /\ About("OrderCancelled", x)' = About("OrderCancelled", x) \cup At(n, x = o)
    BY <1>2, <1>4, <1>6 DEF Concerns, TradeOf, At
  <2> HIDE DEF n
  <2>2. QED
    BY <1>6, <2>1 DEF At
<1>7. CASE remaining > 0 /\ IsMarket(o) /\ TakerEvents(o) = <<partial, cancel>>
  <2> DEFINE more == <<partial, cancel>>
  <2>1. /\ more \in Seq(Events) /\ Len(more) = 2
        /\ more[1] = partial /\ more[2] = cancel
    BY <1>2
  <2>2. events' = events \o more
    BY <1>1, <1>7
  <2> HIDE DEF more
  <2>3. StreamExtends /\ m \notin DOMAIN events /\ events'[m] = cancel
    BY <1>1, <2>1, <2>2, TwoEventsExtend
  <2>4. /\ \A t : About(t, x)' = About(t, x) \cup At(n, Concerns(more[1], t, x))
                                           \cup At(m, Concerns(more[2], t, x))
        /\ Trades(x)' = Trades(x) \cup At(n, TradeOf(more[1], x))
                                 \cup At(m, TradeOf(more[2], x))
    BY <1>1, <2>1, <2>2, TwoEventsMore, Zenon
  <2> HIDE DEF n, m
  <2>5. /\ Trades(x)' = Trades(x)
        /\ About("OrderFilled", x)' = About("OrderFilled", x)
        /\ About("OrderCancelled", x)' = About("OrderCancelled", x) \cup At(m, x = o)
    BY <1>2, <2>1, <2>4 DEF Concerns, TradeOf, At
  <2>6. events'[m].left = remaining
    BY <1>2, <2>3
  <2>7. QED
    BY <1>7, <2>3, <2>5, <2>6 DEF At
<1>8. CASE remaining > 0 /\ ~IsMarket(o) /\ TakerEvents(o) = <<partial>>
  <2>1. /\ StreamExtends /\ n \notin DOMAIN events
        /\ Trades(x)' = Trades(x)
        /\ About("OrderFilled", x)' = About("OrderFilled", x)
        /\ About("OrderCancelled", x)' = About("OrderCancelled", x)
    BY <1>2, <1>4, <1>8 DEF Concerns, TradeOf, At
  <2> HIDE DEF n
  <2>2. QED
    BY <1>8, <2>1 DEF At
<1>9. CASE remaining > 0 /\ ~IsMarket(o) /\ TakerEvents(o) = <<>>
  <2>1. events' = events
    BY <1>1, <1>9, ConcatEmptySeq
  <2>2. /\ StreamExtends
        /\ Trades(x)' = Trades(x)
        /\ About("OrderFilled", x)' = About("OrderFilled", x)
        /\ About("OrderCancelled", x)' = About("OrderCancelled", x)
    BY <2>1 DEF StreamExtends, About, Trades, Published
  <2>3. n \notin DOMAIN events
    BY <1>1, LenProperties
  <2> HIDE DEF n
  <2>4. QED
    BY <1>9, <2>2, <2>3 DEF At
<1>10. QED
  BY <1>3, <1>5, <1>6, <1>7, <1>8, <1>9, Zenon

\* At the end of its match what the taker did not trade rests or is reported
\* as cancelled.
LEMMA FinishShares ==
    ASSUME IInv, StreamInv, SharesInv, NEW o \in Orders, Finish(o)
    PROVE  SharesInv'
<1>1. /\ pc[o] = "select" /\ pc' = [pc EXCEPT ![o] = "returned"]
      /\ request' = request
  BY DEF Finish
<1>2. /\ remaining \in Nat /\ qty \in [Orders -> Int] /\ pc \in [Orders -> HandlerStates]
      /\ events \in Seq(Events) /\ balance \in Int
  BY DEF IInv, TypeOK
<1>3. qty' = IF Rests(o) THEN [qty EXCEPT ![o] = remaining] ELSE qty
  BY FinishBook
<1>4. SUFFICES ASSUME NEW x \in Orders PROVE SharesOf(x)'
  BY DEF SharesInv
<1>5. PICK k : /\ k \notin DOMAIN events
               /\ About("OrderFilled", x)' =
                    About("OrderFilled", x) \cup At(k, x = o /\ remaining = 0)
               /\ About("OrderCancelled", x)' = About("OrderCancelled", x)
                    \cup At(k, x = o /\ remaining > 0 /\ IsMarket(o))
               /\ remaining > 0 /\ IsMarket(o) => events'[k].left = remaining
  BY FinishEvents
<1>6. StreamExtends /\ Trades(x)' = Trades(x)
  BY FinishEvents
<1>7. InBook(x)' <=> InBook(x) \/ (x = o /\ Rests(o))
  BY FinishInBook
<1>8. CASE x = o
  <2>1. /\ SharesOf(x) /\ StreamOf(x)
        /\ IsMarketBuy(x)' <=> IsMarketBuy(x)
        /\ pc'[x] = "returned" /\ request'[x] = request[x]
    BY <1>1, <1>2, <1>8 DEF SharesInv, StreamInv, IsMarketBuy, IsMarket, Side
  <2>2. Final(x) = {} /\ ~InBook(x)
    BY <1>1, <1>8, <2>1
       DEF StreamOf, FinalWhenOutOfBook, InBook, IInv, OnlyOpenLimitOrdersRest
  <2>3. Traded(x)' = Traded(x) /\ Spent(x)' = Spent(x)
    BY <1>2, <1>6, TradedFrame
  <2>4. Traded(x) \in Int /\ Spent(x) \in Int /\ Cancelled(x) = 0
    BY <1>2, <2>2, SumsAreInts DEF Final
  <2>5. Cancelled(x)' = IF remaining > 0 /\ IsMarket(o) THEN remaining ELSE 0
    <3>1. CASE remaining > 0 /\ IsMarket(o)
      <4>1. About("OrderCancelled", x)' = About("OrderCancelled", x) \cup {k}
        BY <1>5, <1>8, <3>1 DEF At
      <4>2. events'[k].left \in Int /\ events'[k].left = remaining
        BY <1>2, <1>5, <3>1
      <4>3. Cancelled(x)' = Cancelled(x) + events'[k].left
        BY <1>2, <1>5, <1>6, <4>1, <4>2, CancelledMore
      <4>4. QED
        BY <1>2, <2>4, <3>1, <4>2, <4>3
    <3>2. CASE ~(remaining > 0 /\ IsMarket(o))
      <4>1. About("OrderCancelled", x)' = About("OrderCancelled", x)
        BY <1>5, <3>2 DEF At
      <4>2. Cancelled(x)' = Cancelled(x)
        BY <1>2, <1>6, <4>1, CancelledFrame
      <4>3. QED
        BY <2>4, <3>2, <4>2
    <3>3. QED
      BY <3>1, <3>2
  <2>6. request[x].quantity = Traded(x) + remaining
    BY <1>1, <1>8, <2>1 DEF SharesOf, SharesAccounted
  <2>7. SharesAccounted(x)'
    <3>1. (IF InBook(x)' THEN qty'[x] ELSE 0) = IF Rests(o) THEN remaining ELSE 0
      BY <1>2, <1>3, <1>7, <1>8, <2>2
    <3>2. request'[x].quantity =
            Traded(x)' + Cancelled(x)' + (IF InBook(x)' THEN qty'[x] ELSE 0)
      BY <1>2, <2>1, <2>3, <2>4, <2>5, <2>6, <3>1 DEF Rests
    <3>3. QED
      BY <2>1, <3>2 DEF SharesAccounted
  <2>8. FilledTradedAll(x)'
    BY <1>2, <1>5, <1>8, <2>1, <2>2, <2>3, <2>4, <2>6 DEF FilledTradedAll, Final, At
  <2>9. CashAccounted(x)'
    <3>1. IsMarketBuy(x) /\ Trades(x) # {} => Spent(x) <= request[x].balance
      BY <1>1, <1>2, <1>8, <2>1, <2>4 DEF SharesOf, CashAccounted
    <3>2. QED
      BY <1>6, <2>1, <2>3, <3>1 DEF CashAccounted
  <2>10. QuantityAsSubmitted(x)'
    BY <2>1 DEF QuantityAsSubmitted
  <2>11. CancelledSomething(x)'
    <3>1. CASE remaining > 0 /\ IsMarket(o)
      BY <2>5, <3>1 DEF CancelledSomething
    <3>2. CASE ~(remaining > 0 /\ IsMarket(o))
      BY <1>5, <2>2, <3>2 DEF CancelledSomething, Final, At
    <3>3. QED
      BY <3>1, <3>2
  <2>12. QED
    BY <2>7, <2>8, <2>9, <2>10, <2>11 DEF SharesOf
<1>9. CASE x # o
  <2>1. /\ About("OrderFilled", x)' = About("OrderFilled", x)
        /\ About("OrderCancelled", x)' = About("OrderCancelled", x)
        /\ InBook(x)' <=> InBook(x)
        /\ qty'[x] = qty[x] /\ pc'[x] = pc[x] /\ request'[x] = request[x]
    BY <1>1, <1>2, <1>3, <1>5, <1>7, <1>9 DEF At
  <2>2. pc[x] \notin {"select", "fill"}
    BY <1>1, <1>9 DEF IInv, MutualExclusion
  <2>3. QED
    BY <1>6, <2>1, <2>2, UntouchedShares
<1>10. QED
  BY <1>8, <1>9

-----------------------------------------------------------------------------
\* Nothing was traded at first.
LEMMA InitShares == Init => SharesInv
<1> SUFFICES ASSUME Init, NEW o \in Orders PROVE SharesOf(o)
  BY DEF SharesInv
<1>1. pc[o] = "new" /\ About("OrderFilled", o) = {} /\ About("OrderCancelled", o) = {}
  BY DEF Init, About, Published
<1>2. QED
  BY <1>1 DEF SharesOf, QuantityAsSubmitted, SharesAccounted, FilledTradedAll,
     CancelledSomething, CashAccounted

\* Every step of the engine keeps the accounts of shares and cash.
LEMMA NextShares == IInv /\ StreamInv /\ SharesInv /\ [Next]_vars => SharesInv'
<1> SUFFICES ASSUME IInv, StreamInv, SharesInv, [Next]_vars PROVE SharesInv'
  OBVIOUS
<1>1. CASE UNCHANGED vars
  <2>1. SUFFICES ASSUME NEW x \in Orders PROVE SharesOf(x)'
    BY DEF SharesInv
  <2>2. /\ StreamExtends
        /\ Trades(x)' = Trades(x)
        /\ About("OrderCancelled", x)' = About("OrderCancelled", x)
        /\ About("OrderFilled", x)' = About("OrderFilled", x)
        /\ InBook(x)' <=> InBook(x)
        /\ UNCHANGED <<request, qty, pc, remaining, balance>>
    BY <1>1 DEF vars, StreamExtends, Trades, About, Published, InBook
  <2>3. QED
    BY <2>2, UntouchedShares
<1>2. ASSUME NEW o \in Orders, NEW r \in Requests, Submit(o, r) \/ Reject(o, r)
      PROVE  SharesInv'
  BY <1>2, SubmitShares
<1>3. ASSUME NEW o \in Orders, Accept(o) PROVE SharesInv'
  BY <1>3, AcceptShares
<1>4. ASSUME NEW o \in Orders, SelectLevel(o) \/ LeaveLevel(o) PROVE SharesInv'
  BY <1>4, LevelShares
<1>5. ASSUME NEW o \in Orders, FillFront(o) PROVE SharesInv'
  BY <1>5, FillFrontShares
<1>6. ASSUME NEW o \in Orders, Finish(o) PROVE SharesInv'
  BY <1>6, FinishShares
<1>7. ASSUME NEW o \in Orders, NEW side \in Sides, Cancel(o, side) PROVE SharesInv'
  BY <1>7, CancelShares
<1>8. QED
  BY <1>1, <1>2, <1>3, <1>4, <1>5, <1>6, <1>7 DEF Next

\* The sums over the stream account for every share and for a market buyer's
\* cash.
THEOREM SharesInvariance == Spec => []SharesInv
BY Invariance, StreamInvariance, InitShares, NextShares, PTL DEF Spec

\* What an accepted order asked for is what it traded, what was cancelled and
\* what is open.
LEMMA AccountsConserveShares ==
    ASSUME IInv, StreamInv, SharesInv
    PROVE  SharesConserved
<1> SUFFICES ASSUME NEW o \in Orders, Accepted(o)
             PROVE  request[o].quantity = Traded(o) + Cancelled(o) + Open(o)
  BY DEF SharesConserved
<1>1. /\ StreamOf(o) /\ SharesOf(o)
      /\ pc[o] \in HandlerStates /\ remaining \in Nat /\ events \in Seq(Events)
      /\ pc[o] \in {"select", "fill"} <=> lock = o
  BY DEF StreamInv, SharesInv, IInv, TypeOK, MutualExclusion
<1>2. pc[o] \in {"select", "fill", "returned"}
  BY <1>1 DEF StreamOf, UnseenBeforePlaced, Accepted, Placed, HandlerStates
<1>3. Traded(o) \in Int /\ Cancelled(o) \in Int
  BY <1>1, SumsAreInts
<1>4. CASE lock = o
  <2>1. Final(o) = {}
    BY <1>1, <1>4 DEF StreamOf, FinalWhenOutOfBook
  <2>2. Cancelled(o) = 0
    BY <1>1, <2>1, SumsAreInts DEF Final
  <2>3. request[o].quantity = Traded(o) + remaining /\ Open(o) = remaining
    BY <1>1, <1>4 DEF SharesOf, SharesAccounted, Open
  <2>4. QED
    BY <1>1, <1>3, <2>2, <2>3
<1>5. CASE lock # o
  BY <1>1, <1>2, <1>5 DEF SharesOf, SharesAccounted, Open, InBook
<1>6. QED
  BY <1>4, <1>5

\* No share is lost or invented, at any moment of any match.
THEOREM Conservation == Spec => []SharesConserved
BY Invariance, StreamInvariance, SharesInvariance, AccountsConserveShares, PTL

\* Who traded all of it was not cancelled, which would have left something, and
\* does not rest, which would as well: so it was filled.
LEMMA AccountsTellTheFilled ==
    ASSUME IInv, StreamInv, SharesInv
    PROVE  FilledExactlyWhenAllTraded
<1> SUFFICES ASSUME NEW o \in Orders
             PROVE  About("OrderFilled", o) # {} <=>
                        Accepted(o) /\ lock # o /\ Traded(o) = request[o].quantity
  BY DEF FilledExactlyWhenAllTraded
<1>1. /\ StreamOf(o) /\ SharesOf(o)
      /\ pc[o] \in HandlerStates /\ events \in Seq(Events) /\ qty[o] \in Int
      /\ pc[o] \in {"select", "fill"} <=> lock = o
  BY DEF StreamInv, SharesInv, IInv, TypeOK, MutualExclusion
<1>2. ASSUME About("OrderFilled", o) # {}
      PROVE  Accepted(o) /\ lock # o /\ Traded(o) = request[o].quantity
  <2>1. pc[o] = "returned"
    BY <1>1, <1>2 DEF StreamOf, UnseenBeforePlaced, FinalWhenOutOfBook, Final, HandlerStates
  <2>2. Accepted(o)
    BY <1>1, <2>1 DEF StreamOf, PlacedOnceAndFirst, Accepted, Placed
  <2>3. QED
    BY <1>1, <1>2, <2>1, <2>2 DEF SharesOf, FilledTradedAll
<1>3. ASSUME Accepted(o), lock # o, Traded(o) = request[o].quantity
      PROVE  About("OrderFilled", o) # {}
  <2>1. pc[o] = "returned"
    BY <1>1, <1>3 DEF StreamOf, UnseenBeforePlaced, Accepted, Placed, HandlerStates
  <2>2. Traded(o) \in Int /\ Cancelled(o) \in Int
    BY <1>1, SumsAreInts
  <2>3. request[o].quantity =
          Traded(o) + Cancelled(o) + (IF InBook(o) THEN qty[o] ELSE 0)
    BY <1>1, <2>1 DEF SharesOf, SharesAccounted
  <2>4. InBook(o) => qty[o] > 0
    BY DEF InBook, IInv, OnlyOpenLimitOrdersRest
  <2>5. About("OrderCancelled", o) = {} => Cancelled(o) = 0
    BY <1>1, SumsAreInts
  <2>6. About("OrderCancelled", o) # {} => Cancelled(o) > 0
    BY <1>1 DEF SharesOf, CancelledSomething
  <2>7. About("OrderCancelled", o) = {} /\ ~InBook(o)
    BY <1>1, <1>3, <2>2, <2>3, <2>4, <2>5, <2>6
  <2>8. Final(o) # {}
    BY <1>1, <2>1, <2>7 DEF StreamOf, FinalWhenOutOfBook
  <2>9. QED
    BY <2>7, <2>8 DEF Final
<1>4. QED
  BY <1>2, <1>3

\* An order is reported as filled exactly when all of it traded and its own
\* match is over.
THEOREM FilledIsFilled == Spec => []FilledExactlyWhenAllTraded
BY Invariance, StreamInvariance, SharesInvariance, AccountsTellTheFilled, PTL

\* A market buy never spends more than the balance it came with.
LEMMA AccountsCoverCash ==
    ASSUME IInv, StreamInv, SharesInv
    PROVE  MarketBuyersCanPay
<1> SUFFICES ASSUME NEW o \in Orders, Accepted(o), IsMarketBuy(o), Trades(o) # {}
             PROVE  Spent(o) <= request[o].balance
  BY DEF MarketBuyersCanPay
<1>1. /\ StreamOf(o) /\ SharesOf(o)
      /\ pc[o] \in HandlerStates /\ balance \in Int /\ events \in Seq(Events)
  BY DEF StreamInv, SharesInv, IInv, TypeOK
<1>2. pc[o] \in {"select", "fill", "returned"}
  BY <1>1 DEF StreamOf, UnseenBeforePlaced, Accepted, Placed, HandlerStates
<1>3. Spent(o) \in Int
  BY <1>1, SumsAreInts
<1>4. QED
  BY <1>1, <1>2, <1>3 DEF SharesOf, CashAccounted

\* No market buy spends more than the balance it came with.
THEOREM BuyersPay == Spec => []MarketBuyersCanPay
BY Invariance, StreamInvariance, SharesInvariance, AccountsCoverCash, PTL
=============================================================================
