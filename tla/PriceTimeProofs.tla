---------------------------- MODULE PriceTimeProofs ----------------------------
(***************************************************************************)
(* The proof that the matching engine of one stock implements              *)
(* PriceTimeExchange: price-time priority for every number of orders, every*)
(* set of prices and every request.                                        *)
(***************************************************************************)
EXTENDS MatchingEngineStreamProofs

-----------------------------------------------------------------------------
(***************************************************************************)
(* The events of one type: OfType of MatchingEngineProperties.             *)
(***************************************************************************)
\* Going one index further finds one more element of type t, or none.
GrowsAt(s, t, n) ==
    /\ IsFiniteSet(Indexes(s, t, n)) /\ Cardinality(Indexes(s, t, n)) \in Nat
    /\ s[n + 1].type = t =>
         /\ Indexes(s, t, n + 1) = Indexes(s, t, n) \cup {n + 1}
         /\ Cardinality(Indexes(s, t, n + 1)) = Cardinality(Indexes(s, t, n)) + 1
    /\ s[n + 1].type # t => Indexes(s, t, n + 1) = Indexes(s, t, n)

\* One element more is one index more, if it has the type.
LEMMA IndexesGrow == ASSUME NEW s, NEW t, NEW n \in Nat PROVE GrowsAt(s, t, n)
<1> DEFINE R == Indexes(s, t, n)
<1>1. IsFiniteSet(1..n) /\ R \in SUBSET (1..n)
  BY FS_Interval DEF Indexes
<1>2. IsFiniteSet(R) /\ Cardinality(R) \in Nat
  BY <1>1, FS_Subset, FS_CardinalityType
<1>3. Indexes(s, t, n + 1) = IF s[n + 1].type = t THEN R \cup {n + 1} ELSE R
  BY DEF Indexes
<1>4. n + 1 \notin R
  BY <1>1
<1> HIDE DEF R
<1>5. Cardinality(R \cup {n + 1}) = Cardinality(R) + 1
  BY <1>2, <1>4, FS_AddElement
<1>6. QED
  BY <1>2, <1>3, <1>5 DEF R, GrowsAt

\* Every rank up to the number of elements found is taken, by induction over the
\* indexes.
LEMMA RanksTaken ==
    ASSUME NEW s, NEW t, NEW l \in Nat, NEW i \in 1..Cardinality(Indexes(s, t, l))
    PROVE  \E n \in Indexes(s, t, l) : Cardinality(Indexes(s, t, n)) = i
<1> DEFINE Taken(k) == \A j \in 1..Cardinality(Indexes(s, t, k)) :
                          \E n \in Indexes(s, t, k) : Cardinality(Indexes(s, t, n)) = j
           T == {k \in Nat : Taken(k)}
<1>1. 0 \in T
  <2>1. Indexes(s, t, 0) = {}
    BY DEF Indexes
  <2>2. Cardinality(Indexes(s, t, 0)) = 0
    BY <2>1, FS_EmptySet
  <2>3. QED
    BY <2>2
<1>2. ASSUME NEW k \in T PROVE k + 1 \in T
  <2>1. k \in Nat /\ Taken(k)
    OBVIOUS
  <2>2. /\ Cardinality(Indexes(s, t, k)) \in Nat
        /\ Indexes(s, t, k) \subseteq Indexes(s, t, k + 1)
        /\ \/ Cardinality(Indexes(s, t, k + 1)) = Cardinality(Indexes(s, t, k))
           \/ /\ k + 1 \in Indexes(s, t, k + 1)
              /\ Cardinality(Indexes(s, t, k + 1)) = Cardinality(Indexes(s, t, k)) + 1
    <3>1. k \in Nat
      BY <2>1
    <3>2. GrowsAt(s, t, k)
      BY <3>1, IndexesGrow
    <3>3. QED
      BY <3>2 DEF GrowsAt
  <2>3. ASSUME NEW j \in 1..Cardinality(Indexes(s, t, k + 1))
        PROVE  \E n \in Indexes(s, t, k + 1) : Cardinality(Indexes(s, t, n)) = j
    <3>1. CASE j \in 1..Cardinality(Indexes(s, t, k))
      BY <2>1, <2>2, <3>1
    <3>2. CASE j \notin 1..Cardinality(Indexes(s, t, k))
      BY <2>2, <3>2
    <3>3. QED
      BY <3>1, <3>2
  <2>4. QED
    BY <2>1, <2>3
<1>3. T \in SUBSET Nat
  OBVIOUS
<1> HIDE DEF T
<1>4. T = Nat
  BY <1>1, <1>2, <1>3, SetInduction
<1>5. QED
  BY <1>4 DEF T

\* Every element of OfType is an element of the sequence, of that type.
LEMMA OfTypeFinds ==
    ASSUME NEW S, NEW s \in Seq(S), NEW t
    PROVE  /\ OfType(s, t) \in Seq({e \in S : e.type = t})
           /\ Len(OfType(s, t)) = Cardinality(Indexes(s, t, Len(s)))
           /\ \A i \in 1..Len(OfType(s, t)) : Rank(s, t, i) # {}
<1> DEFINE c == Cardinality(Indexes(s, t, Len(s)))
<1>1. Len(s) \in Nat /\ c \in Nat
  BY LenProperties, IndexesGrow DEF GrowsAt
<1>2. ASSUME NEW i \in 1..c
      PROVE  Rank(s, t, i) # {} /\ OfType(s, t)[i] \in {e \in S : e.type = t}
  <2>1. Rank(s, t, i) # {}
    BY <1>1, RanksTaken DEF Rank
  <2>2. PICK n \in Rank(s, t, i) : OfType(s, t)[i] = s[n]
    BY <2>1 DEF OfType
  <2>3. n \in 1..Len(s) /\ s[n].type = t
    BY <2>2 DEF Rank, Indexes
  <2>4. s[n] \in S
    BY <2>3, ElementOfSeq
  <2>5. QED
    BY <2>1, <2>2, <2>3, <2>4
<1>3. OfType(s, t) = [i \in 1..c |-> OfType(s, t)[i]]
  BY DEF OfType
<1>4. OfType(s, t) \in Seq({e \in S : e.type = t})
  BY <1>1, <1>2, <1>3, SeqDef
<1>5. Len(OfType(s, t)) = c
  BY <1>1, <1>3, <1>4, LenProperties
<1>6. QED
  BY <1>2, <1>4, <1>5

\* One element more at the end of the sequence: the ranks of the others stay.
LEMMA OfTypeAppend ==
    ASSUME NEW S, NEW s \in Seq(S), NEW e \in S, NEW t
    PROVE  OfType(Append(s, e), t) =
              IF e.type = t THEN Append(OfType(s, t), e) ELSE OfType(s, t)
<1> DEFINE z == Append(s, e)
           l == Len(s)
           c == Cardinality(Indexes(s, t, l))
           d == Cardinality(Indexes(z, t, l + 1))
<1>1. /\ l \in Nat /\ Len(z) = l + 1 /\ z \in Seq(S)
      /\ \A i \in 1..l : z[i] = s[i]
      /\ z[l + 1] = e
  BY LenProperties, AppendProperties
<1> HIDE DEF z, l
<1>2. ASSUME NEW n \in Nat, n <= l PROVE Indexes(z, t, n) = Indexes(s, t, n)
  BY <1>1, <1>2 DEF Indexes
<1>3. /\ c \in Nat
      /\ Indexes(z, t, l + 1) =
            IF e.type = t THEN Indexes(s, t, l) \cup {l + 1} ELSE Indexes(s, t, l)
      /\ d = IF e.type = t THEN c + 1 ELSE c
  <2>1. Indexes(z, t, l) = Indexes(s, t, l)
    BY <1>1, <1>2
  <2>2. GrowsAt(z, t, l)
    BY <1>1, IndexesGrow
  <2>3. QED
    BY <1>1, <2>1, <2>2 DEF GrowsAt
<1> HIDE DEF c, d
<1>4. ASSUME NEW i \in 1..c PROVE Rank(z, t, i) = Rank(s, t, i)
  <2>1. ASSUME NEW n \in 1..l
        PROVE  n \in Indexes(z, t, l + 1) <=> n \in Indexes(s, t, l)
    BY <1>1, <1>3, <2>1
  <2>2. \A n \in Rank(z, t, i) : n \in 1..l
    <3>1. ASSUME NEW n \in Rank(z, t, i), n = l + 1 PROVE FALSE
      <4>1. n \in Indexes(z, t, l + 1) /\ d = i
        BY <1>1, <3>1 DEF Rank, d
      <4>2. l + 1 \notin Indexes(s, t, l)
        BY <1>1 DEF Indexes
      <4>3. QED
        BY <1>3, <3>1, <4>1, <4>2
    <3>2. \A n \in Rank(z, t, i) : n \in 1..(l + 1)
      BY <1>1 DEF Rank, Indexes
    <3>3. QED
      BY <1>1, <3>1, <3>2
  <2>3. \A n \in Rank(s, t, i) : n \in 1..l
    BY DEF Rank, Indexes, l
  <2>4. ASSUME NEW n \in 1..l PROVE Indexes(z, t, n) = Indexes(s, t, n)
    BY <1>1, <1>2
  <2>5. Rank(z, t, i) = {n \in Indexes(z, t, l + 1) : Cardinality(Indexes(z, t, n)) = i}
    BY <1>1 DEF Rank
  <2>6. Rank(s, t, i) = {n \in Indexes(s, t, l) : Cardinality(Indexes(s, t, n)) = i}
    BY DEF Rank, l
  <2>7. ASSUME NEW n \in 1..l PROVE n \in Rank(z, t, i) <=> n \in Rank(s, t, i)
    BY <2>1, <2>4, <2>5, <2>6
  <2>8. QED
    BY <2>2, <2>3, <2>7
<1>5. ASSUME NEW i \in 1..c PROVE OfType(z, t)[i] = OfType(s, t)[i]
  <2> DEFINE n == CHOOSE m \in Rank(s, t, i) : TRUE
  <2>1. Rank(s, t, i) # {}
    BY <1>1, RanksTaken DEF Rank, c, l
  <2>2. n \in Rank(s, t, i)
    BY <2>1
  <2>3. n = CHOOSE m \in Rank(z, t, i) : TRUE
    BY <1>4
  <2>4. n \in 1..l
    BY <2>2 DEF Rank, Indexes, l
  <2>5. OfType(s, t)[i] = s[n]
    BY DEF OfType, c, l
  <2>6. i \in 1..d
    BY <1>3
  <2>7. OfType(z, t)[i] = z[n]
    BY <1>1, <2>3, <2>6 DEF OfType, d
  <2>8. QED
    BY <1>1, <2>4, <2>5, <2>7
<1>6. /\ OfType(s, t) \in Seq(S) /\ Len(OfType(s, t)) = c
      /\ OfType(z, t) \in Seq(S) /\ Len(OfType(z, t)) = d
  <2>1. ASSUME NEW x, x \in Seq({y \in S : y.type = t}) PROVE x \in Seq(S)
    BY <2>1, SeqDef
  <2>2. /\ OfType(s, t) \in Seq({y \in S : y.type = t})
        /\ Len(OfType(s, t)) = Cardinality(Indexes(s, t, Len(s)))
    BY OfTypeFinds, Zenon
  <2>3. /\ OfType(z, t) \in Seq({y \in S : y.type = t})
        /\ Len(OfType(z, t)) = Cardinality(Indexes(z, t, Len(z)))
    BY <1>1, OfTypeFinds, Zenon
  <2>4. QED
    BY <1>1, <2>1, <2>2, <2>3 DEF c, d, l
<1>7. CASE e.type # t
  BY <1>3, <1>5, <1>6, <1>7, SeqEqual DEF z
<1>8. CASE e.type = t
  <2>1. OfType(z, t)[c + 1] = e
    <3>1. Rank(z, t, c + 1) \subseteq {l + 1}
      <4>1. ASSUME NEW n \in 1..l, n \in Rank(z, t, c + 1) PROVE FALSE
        <5>1. Cardinality(Indexes(s, t, n)) = c + 1
          BY <1>1, <1>2, <4>1 DEF Rank
        <5>2. Indexes(s, t, n) \in SUBSET Indexes(s, t, l)
          BY <1>1 DEF Indexes
        <5>3. IsFiniteSet(Indexes(s, t, l))
          BY <1>1, IndexesGrow DEF GrowsAt
        <5>4. Cardinality(Indexes(s, t, n)) <= c
          BY <5>2, <5>3, FS_Subset DEF c
        <5>5. QED
          BY <1>3, <5>1, <5>4
      <4>2. \A n \in Rank(z, t, c + 1) : n \in 1..(l + 1)
        BY <1>1 DEF Rank, Indexes
      <4>3. QED
        BY <1>1, <4>1, <4>2
    <3>2. Rank(z, t, c + 1) # {}
      <4>1. c + 1 \in 1..Len(OfType(z, t))
        BY <1>3, <1>6, <1>8
      <4>2. QED
        BY <1>1, <4>1, OfTypeFinds, Zenon
    <3>3. (CHOOSE m \in Rank(z, t, c + 1) : TRUE) = l + 1
      BY <3>1, <3>2
    <3>4. c + 1 \in 1..d
      BY <1>3, <1>8
    <3>5. QED
      BY <1>1, <3>3, <3>4 DEF OfType, d
  <2>2. /\ Append(OfType(s, t), e) \in Seq(S)
        /\ Len(Append(OfType(s, t), e)) = c + 1
        /\ \A i \in 1..c : Append(OfType(s, t), e)[i] = OfType(s, t)[i]
        /\ Append(OfType(s, t), e)[c + 1] = e
    BY <1>6, AppendProperties
  <2>3. \A i \in 1..(c + 1) : OfType(z, t)[i] = Append(OfType(s, t), e)[i]
    BY <1>3, <1>5, <2>1, <2>2
  <2>4. OfType(z, t) = Append(OfType(s, t), e)
    BY <1>3, <1>6, <1>8, <2>2, <2>3, SeqEqual
  <2>5. QED
    BY <1>8, <2>4 DEF z
<1>9. QED
  BY <1>7, <1>8

-----------------------------------------------------------------------------
-----------------------------------------------------------------------------
(***************************************************************************)
(* The arrivals and the tape, as the events tell them.                     *)
(***************************************************************************)
\* A sequence mapped element by element, and its extension by one element.
LEMMA MapAppend ==
    ASSUME NEW S, NEW T, NEW s \in Seq(S), NEW e \in S, NEW f,
           \A x \in S : f[x] \in T
    PROVE  /\ [i \in DOMAIN s |-> f[s[i]]] \in Seq(T)
           /\ [i \in DOMAIN Append(s, e) |-> f[Append(s, e)[i]]]
                  = Append([i \in DOMAIN s |-> f[s[i]]], f[e])
<1> DEFINE z == Append(s, e)
           g == [i \in DOMAIN s |-> f[s[i]]]
           h == [i \in DOMAIN z |-> f[z[i]]]
           l == Len(s)
<1>1. /\ l \in Nat /\ DOMAIN s = 1..l /\ \A i \in 1..l : s[i] \in S
      /\ z \in Seq(S) /\ Len(z) = l + 1 /\ DOMAIN z = 1..(l + 1)
      /\ \A i \in 1..l : z[i] = s[i]
      /\ z[l + 1] = e
  BY LenProperties, AppendProperties, ElementOfSeq
<1> HIDE DEF z, l
<1>2. g \in [1..l -> T] /\ h \in [1..(l + 1) -> T]
  BY <1>1
<1>3. g \in Seq(T) /\ h \in Seq(T)
  <2> HIDE DEF g, h
  <2>1. l + 1 \in Nat
    BY <1>1
  <2>2. QED
    BY <1>1, <1>2, <2>1, SeqDef
<1>4. Len(g) = l /\ Len(h) = l + 1
  BY <1>1, <1>3, LenProperties
<1>5. f[e] \in T
  OBVIOUS
<1>6. /\ Append(g, f[e]) \in Seq(T)
      /\ Len(Append(g, f[e])) = l + 1
      /\ \A i \in 1..l : Append(g, f[e])[i] = g[i]
      /\ Append(g, f[e])[l + 1] = f[e]
  BY <1>3, <1>4, <1>5, AppendProperties
<1>7. \A i \in 1..(l + 1) : h[i] = Append(g, f[e])[i]
  BY <1>1, <1>6
<1>8. h = Append(g, f[e])
  BY <1>3, <1>4, <1>6, <1>7, SeqEqual
<1>9. QED
  BY <1>3, <1>8 DEF z

\* An accepted order is the last to arrive; no other event is an arrival.
LEMMA ArrivalsAppend ==
    ASSUME NEW s \in Seq(Events), NEW e \in Events
    PROVE  /\ ArrivalsIn(s) \in Seq(Orders)
           /\ ArrivalsIn(Append(s, e)) = IF e.type = "OrderPlaced"
                                        THEN Append(ArrivalsIn(s), e.order) ELSE ArrivalsIn(s)
<1> DEFINE S == {x \in Events : x.type = "OrderPlaced"}
           f == [x \in S |-> x.order]
           p == OfType(s, "OrderPlaced")
           q == OfType(Append(s, e), "OrderPlaced")
<1>1. p \in Seq(S) /\ q = IF e.type = "OrderPlaced" THEN Append(p, e) ELSE p
  BY OfTypeFinds, OfTypeAppend
<1>2. \A x \in S : f[x] \in Orders /\ f[x] = x.order
  BY DEF Events
<1>3. ASSUME NEW r \in Seq(S)
      PROVE  [i \in DOMAIN r |-> r[i].order] = [i \in DOMAIN r |-> f[r[i]]]
  <2>1. \A i \in DOMAIN r : r[i] \in S
    BY LenProperties, ElementOfSeq
  <2> HIDE DEF S
  <2>2. QED
    BY <1>2, <2>1
<1>4. e.type = "OrderPlaced" => e \in S /\ q \in Seq(S)
  BY <1>1, AppendProperties
<1> HIDE DEF S, f, p, q
<1>5. ArrivalsIn(s) = [i \in DOMAIN p |-> f[p[i]]]
  BY <1>1, <1>3 DEF ArrivalsIn, p
<1>6. [i \in DOMAIN p |-> f[p[i]]] \in Seq(Orders)
  <2>1. \A i \in DOMAIN p : f[p[i]] \in Orders
    BY <1>1, <1>2, LenProperties, ElementOfSeq
  <2>2. QED
    BY <1>1, <2>1, LenProperties, SeqDef
<1>7. CASE e.type = "OrderPlaced"
  <2>1. ArrivalsIn(Append(s, e)) = [i \in DOMAIN q |-> f[q[i]]]
    BY <1>3, <1>4, <1>7 DEF ArrivalsIn, q
  <2>2. [i \in DOMAIN Append(p, e) |-> f[Append(p, e)[i]]]
            = Append([i \in DOMAIN p |-> f[p[i]]], f[e])
    BY <1>1, <1>2, <1>4, <1>7, MapAppend
  <2>3. QED
    BY <1>1, <1>2, <1>4, <1>5, <1>6, <1>7, <2>1, <2>2
<1>8. CASE e.type # "OrderPlaced"
  <2>1. ArrivalsIn(Append(s, e)) = ArrivalsIn(s)
    BY <1>1, <1>8 DEF ArrivalsIn, p, q
  <2>2. QED
    BY <1>5, <1>6, <1>8, <2>1
<1>9. QED
  BY <1>7, <1>8

\* A trade is the last on the tape; no other event is on it.
LEMMA TapeAppend ==
    ASSUME NEW s \in Seq(Events), NEW e \in Events
    PROVE  TapeIn(Append(s, e)) = IF e.type = "TradeExecuted"
                                  THEN Append(TapeIn(s), TapeEntry(e)) ELSE TapeIn(s)
<1> DEFINE S == {x \in Events : x.type = "TradeExecuted"}
           T == {TapeEntry(x) : x \in S}
           f == [x \in S |-> TapeEntry(x)]
           p == OfType(s, "TradeExecuted")
           q == OfType(Append(s, e), "TradeExecuted")
<1>1. p \in Seq(S) /\ q = IF e.type = "TradeExecuted" THEN Append(p, e) ELSE p
  BY OfTypeFinds, OfTypeAppend
<1>2. \A x \in S : f[x] \in T /\ f[x] = TapeEntry(x)
  OBVIOUS
<1>3. ASSUME NEW r \in Seq(S)
      PROVE  [i \in DOMAIN r |-> TapeEntry(r[i])] = [i \in DOMAIN r |-> f[r[i]]]
  <2>1. \A i \in DOMAIN r : r[i] \in S
    BY LenProperties, ElementOfSeq
  <2> HIDE DEF S
  <2>2. QED
    BY <1>2, <2>1
<1>4. e.type = "TradeExecuted" => e \in S /\ q \in Seq(S)
  BY <1>1, AppendProperties
<1> HIDE DEF S, T, f, p, q
<1>5. CASE e.type = "TradeExecuted"
  <2>1. TapeIn(s) = [i \in DOMAIN p |-> f[p[i]]]
    BY <1>1, <1>3 DEF TapeIn, p
  <2>2. TapeIn(Append(s, e)) = [i \in DOMAIN q |-> f[q[i]]]
    BY <1>3, <1>4, <1>5 DEF TapeIn, q
  <2>3. [i \in DOMAIN Append(p, e) |-> f[Append(p, e)[i]]]
            = Append([i \in DOMAIN p |-> f[p[i]]], f[e])
    BY <1>1, <1>2, <1>4, <1>5, MapAppend
  <2>4. QED
    BY <1>1, <1>2, <1>4, <1>5, <2>1, <2>2, <2>3
<1>6. CASE e.type # "TradeExecuted"
  BY <1>1, <1>6 DEF TapeIn, p, q
<1>7. QED
  BY <1>5, <1>6

\* Two events are published one after the other.
LEMMA TwoAppend ==
    ASSUME NEW s \in Seq(Events), NEW e \in Events, NEW f \in Events
    PROVE  s \o <<e, f>> = Append(Append(s, e), f) /\ Append(s, e) \in Seq(Events)
<1>1. /\ Append(s, e) \in Seq(Events) /\ Len(Append(s, e)) = Len(s) + 1
      /\ Len(s) \in Nat
      /\ \A i \in 1..Len(s) : Append(s, e)[i] = s[i]
      /\ Append(s, e)[Len(s) + 1] = e
  BY AppendProperties, LenProperties
<1> DEFINE z == Append(s, e)
           two == <<e, f>>
<1> HIDE DEF z
<1>2. /\ Append(z, f) \in Seq(Events) /\ Len(Append(z, f)) = Len(s) + 2
      /\ \A i \in 1..(Len(s) + 1) : Append(z, f)[i] = z[i]
      /\ Append(z, f)[Len(s) + 2] = f
  BY <1>1, AppendProperties DEF z
<1>3. two \in Seq(Events) /\ Len(two) = 2 /\ two[1] = e /\ two[2] = f
  OBVIOUS
<1> HIDE DEF two
<1>4. /\ s \o two \in Seq(Events)
      /\ Len(s \o two) = Len(s) + Len(two)
      /\ \A i \in 1..(Len(s) + Len(two)) :
            (s \o two)[i] = IF i <= Len(s) THEN s[i] ELSE two[i - Len(s)]
  BY <1>3, ConcatProperties, Zenon
<1>5. \A i \in 1..(Len(s) + 2) : (s \o two)[i] = Append(z, f)[i]
  BY <1>1, <1>2, <1>3, <1>4 DEF z
<1>6. s \o two = Append(z, f)
  BY <1>1, <1>2, <1>3, <1>4, <1>5, SeqEqual
<1>7. QED
  BY <1>1, <1>6 DEF z, two

\* The steps that say nothing of arrivals or trades.
Silent == Arrivals' = Arrivals /\ Tape' = Tape

\* An event that is neither is silent.
LEMMA SilentEvent ==
    ASSUME events \in Seq(Events), NEW e \in Events, events' = Append(events, e),
           e.type \notin {"OrderPlaced", "TradeExecuted"}
    PROVE  Silent
BY ArrivalsAppend, TapeAppend DEF Silent, Arrivals, Tape

\* So are two.
LEMMA SilentEvents ==
    ASSUME events \in Seq(Events), NEW e \in Events, NEW f \in Events,
           events' = events \o <<e, f>>,
           e.type \notin {"OrderPlaced", "TradeExecuted"},
           f.type \notin {"OrderPlaced", "TradeExecuted"}
    PROVE  Silent
<1>1. events' = Append(Append(events, e), f) /\ Append(events, e) \in Seq(Events)
  BY TwoAppend
<1>2. /\ ArrivalsIn(Append(events, e)) = ArrivalsIn(events)
      /\ TapeIn(Append(events, e)) = TapeIn(events)
  BY ArrivalsAppend, TapeAppend
<1>3. /\ ArrivalsIn(events') = ArrivalsIn(Append(events, e))
      /\ TapeIn(events') = TapeIn(Append(events, e))
  BY <1>1, ArrivalsAppend, TapeAppend
<1>4. QED
  BY <1>2, <1>3 DEF Silent, Arrivals, Tape

\* What is said at the end of a match or of a cancelled or refused order.
LEMMA FinishSilent ==
    ASSUME IInv, NEW o \in Orders, Finish(o)
    PROVE  Silent
<1> DEFINE filled == FilledEvent(o, qty[o])
           partial == PartiallyFilledEvent(o, qty[o] - remaining, remaining)
           cancel == CancelledEvent(o, remaining)
<1>1. /\ events \in Seq(Events) /\ remaining \in Nat /\ qty[o] \in Int
      /\ events' = events \o TakerEvents(o)
  BY DEF IInv, TypeOK, Finish
<1>2. /\ filled \in Events /\ filled.type = "OrderFilled"
      /\ partial \in Events /\ partial.type = "OrderPartiallyFilled"
      /\ cancel \in Events /\ cancel.type = "OrderCancelled"
  BY <1>1 DEF FilledEvent, PartiallyFilledEvent, CancelledEvent, Events
<1>3. TakerEvents(o) \in {<<filled>>, <<partial, cancel>>, <<cancel>>, <<partial>>, <<>>}
  BY <1>1, TakerEventsCases
<1> HIDE DEF filled, partial, cancel
<1>4. ASSUME NEW e \in {filled, partial, cancel}, TakerEvents(o) = <<e>> PROVE Silent
  <2>1. events' = Append(events, e)
    BY <1>1, <1>2, <1>4, AppendIsConcat
  <2>2. e \in Events /\ e.type \notin {"OrderPlaced", "TradeExecuted"}
    BY <1>2
  <2>3. QED
    BY <1>1, <2>1, <2>2, SilentEvent
<1>5. CASE TakerEvents(o) = <<partial, cancel>>
  BY <1>1, <1>2, <1>5, SilentEvents
<1>6. CASE TakerEvents(o) = <<>>
  <2>1. events' = events
    BY <1>1, <1>6, ConcatEmptySeq
  <2>2. QED
    BY <2>1 DEF Silent, Arrivals, Tape
<1>7. QED
  BY <1>3, <1>4, <1>5, <1>6

\* Only Accept and FillFront say anything of arrivals or trades.
LEMMA OtherStepsSilent ==
    ASSUME IInv, NEW o \in Orders,
           \/ \E r \in Requests : Submit(o, r) \/ Reject(o, r)
           \/ SelectLevel(o) \/ LeaveLevel(o)
           \/ \E side \in Sides : Cancel(o, side)
    PROVE  Silent
<1>1. events \in Seq(Events) /\ qty[o] \in Int
  BY DEF IInv, TypeOK
<1>2. ASSUME NEW r \in Requests, Reject(o, r) PROVE Silent
  <2>1. /\ events' = Append(events, RejectedEvent(o, r)) /\ RejectedEvent(o, r) \in Events
        /\ RejectedEvent(o, r).type = "OrderRejected"
    BY <1>2 DEF Reject, RejectedEvent, Events
  <2>2. QED
    BY <1>1, <2>1, SilentEvent
<1>3. ASSUME NEW side \in Sides, Cancel(o, side) PROVE Silent
  <2>1. /\ events' = Append(events, CancelledEvent(o, qty[o]))
        /\ CancelledEvent(o, qty[o]) \in Events
        /\ CancelledEvent(o, qty[o]).type = "OrderCancelled"
    BY <1>1, <1>3 DEF Cancel, CancelledEvent, Events
  <2>2. QED
    BY <1>1, <2>1, SilentEvent
<1>4. CASE events' = events
  BY <1>4 DEF Silent, Arrivals, Tape
<1>5. QED
  BY <1>2, <1>3, <1>4 DEF Submit, SelectLevel, LeaveLevel

\* An order arrives when its handler has the mutex.
LEMMA AcceptArrives ==
    ASSUME IInv, NEW o \in Orders, Accept(o)
    PROVE  Arrivals' = Append(Arrivals, o) /\ Tape' = Tape
<1>1. /\ events \in Seq(Events) /\ events' = Append(events, PlacedEvent(o))
      /\ PlacedEvent(o) \in Events /\ PlacedEvent(o).type = "OrderPlaced"
      /\ PlacedEvent(o).order = o
  BY DEF IInv, TypeOK, Accept, PlacedEvent, Events
<1>2. QED
  BY <1>1, ArrivalsAppend, TapeAppend DEF Arrivals, Tape

\* A trade goes on the tape.
LEMMA FillsTape ==
    ASSUME IInv, NEW o \in Orders, NEW maker \in Orders, NEW quantity \in Nat \ {0},
           bestPrice \in Prices, Fills(o, maker, quantity)
    PROVE  /\ Arrivals' = Arrivals
           /\ Tape' = Append(Tape, [buyer |-> IF Side(o) = "Buy" THEN o ELSE maker,
                                    seller |-> IF Side(o) = "Buy" THEN maker ELSE o,
                                    price |-> bestPrice, quantity |-> quantity])
<1> DEFINE trade == IF Side(o) = "Buy" THEN TradeEvent(o, maker, bestPrice, quantity)
                    ELSE TradeEvent(maker, o, bestPrice, quantity)
           fill == IF qty[maker] = quantity THEN FilledEvent(maker, qty[maker])
                   ELSE PartiallyFilledEvent(maker, quantity, qty[maker] - quantity)
           entry == [buyer |-> IF Side(o) = "Buy" THEN o ELSE maker,
                     seller |-> IF Side(o) = "Buy" THEN maker ELSE o,
                     price |-> bestPrice, quantity |-> quantity]
<1>1. events \in Seq(Events) /\ events' = events \o <<trade, fill>> /\ qty[maker] \in Int
  BY Zenon DEF Fills, IInv, TypeOK
<1>2. trade \in Events /\ trade.type = "TradeExecuted" /\ TapeEntry(trade) = entry
  BY DEF TradeEvent, Events, TapeEntry
<1>3. fill \in Events /\ fill.type \notin {"OrderPlaced", "TradeExecuted"}
  BY <1>1 DEF FilledEvent, PartiallyFilledEvent, Events
<1> HIDE DEF trade, fill, entry
<1>4. events' = Append(Append(events, trade), fill) /\ Append(events, trade) \in Seq(Events)
  BY <1>1, <1>2, <1>3, TwoAppend
<1>5. /\ ArrivalsIn(Append(events, trade)) = ArrivalsIn(events)
      /\ TapeIn(Append(events, trade)) = Append(TapeIn(events), entry)
  BY <1>1, <1>2, ArrivalsAppend, TapeAppend
<1>6. /\ ArrivalsIn(events') = ArrivalsIn(Append(events, trade))
      /\ TapeIn(events') = TapeIn(Append(events, trade))
  BY <1>3, <1>4, ArrivalsAppend, TapeAppend
<1>7. QED
  BY <1>5, <1>6 DEF Arrivals, Tape, entry

-----------------------------------------------------------------------------
(***************************************************************************)
(* The invariant of the arrivals.                                          *)
(***************************************************************************)
\* a is before b in s.
Before(s, a, b) ==
    \E i, j \in 1..Len(s) : i < j /\ s[i] = a /\ s[j] = b

\* Every element of the queue is before those behind it in s.
Ordered(queue, s) ==
    \A i, j \in 1..Len(queue) : i < j => Before(s, queue[i], queue[j])

\* Every queue is in the order of acceptance.  What makes that inductive: the
\* orders that rest were accepted, and the one being matched came last.
QueuedByArrival ==
    \A side \in Sides, p \in Prices : Ordered(book[side].queue[p], Arrivals)

RestingArrived ==
    \A side \in Sides, o \in Orders :
        Resting(book[side], o) => \E i \in 1..Len(Arrivals) : Arrivals[i] = o

TakerCameLast ==
    lock # NoOrder => Len(Arrivals) > 0 /\ Arrivals[Len(Arrivals)] = lock

ArrivalInv ==
    /\ Arrivals \in Seq(Orders)
    /\ QueuedByArrival
    /\ RestingArrived
    /\ TakerCameLast

-----------------------------------------------------------------------------
\* Who was accepted earlier stays so.
LEMMA BeforeStays ==
    ASSUME Arrivals \in Seq(Orders), NEW a, NEW b, Before(Arrivals, a, b),
           \/ Arrivals' = Arrivals
           \/ \E o \in Orders : Arrivals' = Append(Arrivals, o)
    PROVE  Before(Arrivals', a, b)
<1>1. CASE Arrivals' = Arrivals
  BY <1>1 DEF Before
<1>2. ASSUME NEW o \in Orders, Arrivals' = Append(Arrivals, o) PROVE Before(Arrivals', a, b)
  <2>1. /\ Len(Arrivals) \in Nat /\ Len(Arrivals') = Len(Arrivals) + 1
        /\ \A i \in 1..Len(Arrivals) : Arrivals'[i] = Arrivals[i]
    BY <1>2, AppendProperties, LenProperties
  <2>2. PICK i, j \in 1..Len(Arrivals) : i < j /\ Arrivals[i] = a /\ Arrivals[j] = b
    BY DEF Before
  <2>3. QED
    BY <2>1, <2>2 DEF Before
<1>3. QED
  BY <1>1, <1>2

\* When nobody joins the book, the queues stay in the order of acceptance.
LEMMA QueuesStayInOrder ==
    ASSUME IInv, IInv', [Next]_vars, QueuedByArrival,
           \A a, b : Before(Arrivals, a, b) => Before(Arrivals', a, b),
           \A s \in Sides, x \in Orders : Resting(book'[s], x) =>
                book[s].orderToPrice[x] = book'[s].orderToPrice[x]
    PROVE  QueuedByArrival'
<1> SUFFICES ASSUME NEW s \in Sides, NEW p \in Prices
             PROVE  Ordered(book'[s].queue[p], Arrivals')
  BY DEF QueuedByArrival
<1> DEFINE old == book[s].queue[p]
           new == book'[s].queue[p]
<1>1. /\ book[s] \in BookSides /\ WellFormed(book[s])
      /\ book'[s] \in BookSides /\ WellFormed(book'[s])
  BY DEF IInv, TypeOK, BookWellFormed
<1>2. new \in Seq(Orders) /\ old \in Seq(Orders)
  BY <1>1 DEF BookSides
<1>3. SUFFICES ASSUME NEW k \in 1..Len(new), NEW l \in 1..Len(new), k < l
               PROVE  Before(Arrivals', new[k], new[l])
  BY DEF Ordered
<1>4. ASSUME NEW m \in 1..Len(new)
      PROVE  \E i \in 1..Len(old) : old[i] = new[m]
  <2>1. new[m] \in Orders
    BY <1>2, ElementOfSeq
  <2>2. book'[s].orderToPrice[new[m]] = p
    BY <1>1, <2>1 DEF WellFormed, LookupExact
  <2>3. Resting(book'[s], new[m])
    BY <2>2, PricesAssumption DEF Resting, NoPrice
  <2>4. book[s].orderToPrice[new[m]] = p
    BY <2>1, <2>2, <2>3
  <2>5. QED
    BY <1>1, <2>1, <2>4 DEF WellFormed, LookupExact
<1>5. PICK i \in 1..Len(old) : old[i] = new[k]
  BY <1>4
<1>6. PICK j \in 1..Len(old) : old[j] = new[l]
  BY <1>4
<1>7. KeepsOrder(old, new)
  BY NextKeepsOrder
<1>8. i # j
  <2>1. new[k] = new[l] => k = l
    BY <1>1 DEF WellFormed, QueuedOnce
  <2>2. Len(new) \in Nat
    BY <1>2, LenProperties
  <2>3. QED
    BY <1>3, <1>5, <1>6, <2>1, <2>2
<1>9. /\ Len(old) \in Nat /\ Len(new) \in Nat
      /\ \A u, v \in 1..Len(old) : \A x, y \in 1..Len(new) :
            old[u] = new[x] /\ old[v] = new[y] /\ u < v => x < y
  BY <1>2, <1>7, LenProperties DEF KeepsOrder
<1>10. \A u, v \in 1..Len(old) : u < v => Before(Arrivals, old[u], old[v])
  BY DEF QueuedByArrival, Ordered
<1> HIDE DEF old, new
<1>11. i < j
  BY <1>3, <1>5, <1>6, <1>8, <1>9
<1>12. Before(Arrivals, new[k], new[l])
  BY <1>5, <1>6, <1>10, <1>11
<1>13. QED
  BY <1>12

\* The taker that comes to rest came last, and goes to the end of its level.
LEMMA FinishInOrder ==
    ASSUME IInv, IInv', ArrivalInv, NEW o \in Orders, Finish(o)
    PROVE  QueuedByArrival'
<1>1. Arrivals' = Arrivals
  BY FinishSilent DEF Silent
<1>2. pc[o] = "select" /\ lock = o /\ Side(o) \in Sides
  BY RequestFields DEF Finish, IInv, MutualExclusion
<1>3. \A s \in Sides, p \in Prices : book'[s].queue[p] =
         IF s = Side(o) /\ Rests(o) /\ p = request[o].limit
         THEN Append(book[s].queue[p], o) ELSE book[s].queue[p]
  BY FinishBook
<1> SUFFICES ASSUME NEW s \in Sides, NEW p \in Prices
             PROVE  Ordered(book'[s].queue[p], Arrivals')
  BY DEF QueuedByArrival
<1> DEFINE old == book[s].queue[p]
           new == book'[s].queue[p]
<1> SUFFICES ASSUME NEW k \in 1..Len(new), NEW l \in 1..Len(new), k < l
             PROVE  Before(Arrivals, new[k], new[l])
  BY <1>1 DEF Ordered
<1>4. \A i, j \in 1..Len(old) : i < j => Before(Arrivals, old[i], old[j])
  BY DEF ArrivalInv, QueuedByArrival, Ordered
<1>5. old \in Seq(Orders)
  BY DEF IInv, TypeOK, BookSides
<1>6. CASE new = old
  BY <1>4, <1>6
<1>7. CASE new = Append(old, o)
  <2>1. /\ Len(old) \in Nat /\ Len(new) = Len(old) + 1
        /\ \A i \in 1..Len(old) : new[i] = old[i]
        /\ new[Len(old) + 1] = o
    BY <1>5, <1>7, AppendProperties, LenProperties
  <2>2. k \in 1..Len(old)
    BY <2>1
  <2>3. CASE l \in 1..Len(old)
    BY <1>4, <2>1, <2>2, <2>3
  <2>4. CASE l = Len(old) + 1
    <3>1. old[k] \in Orders
      BY <1>5, <2>2, ElementOfSeq
    <3>2. Resting(book[s], old[k])
      <4>1. book[s].orderToPrice[old[k]] = p
        BY <2>2, <3>1 DEF IInv, BookWellFormed, WellFormed, LookupExact
      <4>2. QED
        BY <4>1, PricesAssumption DEF Resting, NoPrice
    <3>3. pc[old[k]] = "returned"
      BY <3>1, <3>2 DEF IInv, OnlyOpenLimitOrdersRest
    <3>4. PICK i \in 1..Len(Arrivals) : Arrivals[i] = old[k]
      BY <3>1, <3>2 DEF ArrivalInv, RestingArrived
    <3>5. /\ lock # NoOrder /\ Len(Arrivals) \in Nat
          /\ Len(Arrivals) > 0 /\ Arrivals[Len(Arrivals)] = o
      BY <1>2, RequestsAssumption, LenProperties DEF ArrivalInv, TakerCameLast
    <3>6. i < Len(Arrivals)
      BY <1>2, <3>3, <3>4, <3>5
    <3>7. Before(Arrivals, old[k], o)
      BY <3>4, <3>5, <3>6 DEF Before
    <3>8. new[k] = old[k] /\ new[l] = o
      BY <2>1, <2>2, <2>4
    <3>9. QED
      BY <3>7, <3>8
  <2>5. l \in 1..(Len(old) + 1) /\ Len(old) \in Nat
    BY <2>1
  <2> HIDE DEF old, new
  <2>6. QED
    BY <2>3, <2>4, <2>5
<1>8. QED
  BY <1>3, <1>6, <1>7

\* A step other than Accept and Finish: nobody arrives, nobody joins the book.
LEMMA OtherArrivals ==
    ASSUME IInv, IInv', [Next]_vars, ArrivalInv, Arrivals' = Arrivals, lock' = lock,
           \A s \in Sides, x \in Orders : Resting(book'[s], x) =>
                /\ Resting(book[s], x)
                /\ book[s].orderToPrice[x] = book'[s].orderToPrice[x]
    PROVE  ArrivalInv'
<1>1. Arrivals' \in Seq(Orders) /\ RestingArrived' /\ TakerCameLast'
  BY DEF ArrivalInv, RestingArrived, TakerCameLast
<1>2. \A a, b : Before(Arrivals, a, b) => Before(Arrivals', a, b)
  OBVIOUS
<1>3. \A s \in Sides, x \in Orders : Resting(book'[s], x) =>
         book[s].orderToPrice[x] = book'[s].orderToPrice[x]
  OBVIOUS
<1>4. QED
  BY <1>1, <1>2, <1>3, QueuesStayInOrder DEF ArrivalInv

\* Accept makes its order the last to arrive.
LEMMA AcceptArrivals ==
    ASSUME IInv, IInv', ArrivalInv, NEW o \in Orders, Accept(o)
    PROVE  ArrivalInv'
<1>1. Arrivals' = Append(Arrivals, o) /\ Arrivals \in Seq(Orders)
  BY AcceptArrives DEF ArrivalInv
<1>2. /\ Arrivals' \in Seq(Orders) /\ Len(Arrivals) \in Nat
      /\ Len(Arrivals') = Len(Arrivals) + 1
      /\ \A i \in 1..Len(Arrivals) : Arrivals'[i] = Arrivals[i]
      /\ Arrivals'[Len(Arrivals) + 1] = o
  BY <1>1, AppendProperties, LenProperties
<1>3. book' = book /\ lock' = o
  BY DEF Accept
<1>4. QueuedByArrival'
  <2>1. \A a, b : Before(Arrivals, a, b) => Before(Arrivals', a, b)
    BY <1>1, BeforeStays
  <2>2. QED
    BY <1>3, <2>1 DEF ArrivalInv, QueuedByArrival, Ordered
<1>5. RestingArrived'
  BY <1>2, <1>3 DEF ArrivalInv, RestingArrived
<1>6. TakerCameLast'
  BY <1>2, <1>3 DEF TakerCameLast
<1>7. QED
  BY <1>2, <1>4, <1>5, <1>6 DEF ArrivalInv

\* The end of a match is no arrival.
LEMMA FinishArrivals ==
    ASSUME IInv, IInv', ArrivalInv, NEW o \in Orders, Finish(o)
    PROVE  ArrivalInv'
<1>1. Arrivals' = Arrivals
  BY FinishSilent DEF Silent
<1>2. lock = o /\ lock' = NoOrder
  BY DEF Finish, IInv, MutualExclusion
<1>3. RestingArrived'
  <2> SUFFICES ASSUME NEW s \in Sides, NEW x \in Orders, Resting(book'[s], x)
               PROVE  \E i \in 1..Len(Arrivals) : Arrivals[i] = x
    BY <1>1 DEF RestingArrived
  <2>1. CASE x = o
    BY <1>2, <2>1, RequestsAssumption, LenProperties DEF ArrivalInv, TakerCameLast
  <2>2. CASE x # o
    <3>1. Resting(book[s], x)
      BY <2>2, FinishBook DEF Resting
    <3>2. QED
      BY <3>1 DEF ArrivalInv, RestingArrived
  <2>3. QED
    BY <2>1, <2>2
<1>4. QED
  BY <1>1, <1>2, <1>3, FinishInOrder DEF ArrivalInv, TakerCameLast

\* Nobody has arrived at first.
LEMMA InitArrivals == Init => ArrivalInv /\ Arrivals = <<>> /\ Tape = <<>>
<1> SUFFICES ASSUME Init PROVE ArrivalInv /\ Arrivals = <<>> /\ Tape = <<>>
  OBVIOUS
<1>1. events = <<>> /\ lock = NoOrder /\ book = [side \in Sides |-> NewSide]
  BY DEF Init
<1>2. ASSUME NEW t PROVE OfType(events, t) = <<>>
  <2>1. events \in Seq(Events) /\ Len(events) = 0
    BY <1>1, EmptySeq
  <2>2. /\ OfType(events, t) \in Seq({e \in Events : e.type = t})
        /\ Len(OfType(events, t)) = Cardinality(Indexes(events, t, Len(events)))
    BY <2>1, OfTypeFinds, Zenon
  <2>3. Indexes(events, t, Len(events)) = {}
    BY <2>1 DEF Indexes
  <2>4. QED
    BY <2>2, <2>3, FS_EmptySet, EmptySeq
<1>3. Arrivals = <<>> /\ Tape = <<>>
  BY <1>2 DEF Arrivals, Tape, ArrivalsIn, TapeIn
<1>4. ASSUME NEW s \in Sides
      PROVE  /\ \A p \in Prices : book[s].queue[p] = <<>>
             /\ \A o \in Orders : ~Resting(book[s], o)
  BY <1>1 DEF NewSide, Resting
<1>5. QED
  BY <1>1, <1>3, <1>4, EmptySeq
     DEF ArrivalInv, QueuedByArrival, Ordered, RestingArrived, TakerCameLast

\* Every step keeps the order of arrival.
LEMMA NextArrivals == IInv /\ ArrivalInv /\ [Next]_vars => ArrivalInv'
<1> SUFFICES ASSUME IInv, ArrivalInv, [Next]_vars PROVE ArrivalInv'
  OBVIOUS
<1>1. IInv'
  BY NextIInv
<1>2. CASE book' = book /\ lock' = lock /\ Arrivals' = Arrivals
  BY <1>1, <1>2, OtherArrivals
<1>3. CASE UNCHANGED vars
  BY <1>2, <1>3 DEF vars, Arrivals
<1>4. ASSUME NEW o \in Orders, \E r \in Requests : Submit(o, r) \/ Reject(o, r)
      PROVE  ArrivalInv'
  BY <1>2, <1>4, OtherStepsSilent DEF Submit, Reject, Silent
<1>5. ASSUME NEW o \in Orders, Accept(o) PROVE ArrivalInv'
  BY <1>1, <1>5, AcceptArrivals
<1>6. ASSUME NEW o \in Orders, LeaveLevel(o) PROVE ArrivalInv'
  BY <1>2, <1>6, OtherStepsSilent DEF LeaveLevel, Silent
<1>7. ASSUME NEW o \in Orders, Finish(o) PROVE ArrivalInv'
  BY <1>1, <1>7, FinishArrivals
<1>8. ASSUME NEW o \in Orders, SelectLevel(o) PROVE ArrivalInv'
  <2>1. Opposite(Side(o)) \in Sides /\ lock' = lock /\ Arrivals' = Arrivals
    BY <1>8, RequestFields, SidesFacts, OtherStepsSilent DEF SelectLevel, Silent
  <2>2. FreshOpposite(o).orderToPrice = book[Opposite(Side(o))].orderToPrice
    BY <2>1, BookFacts, CleanStaleHeapTopWellFormed DEF FreshOpposite
  <2>3. book' = [book EXCEPT ![Opposite(Side(o))] = FreshOpposite(o)]
    BY <1>8 DEF SelectLevel
  <2>4. \A s \in Sides, x \in Orders :
           book[s].orderToPrice[x] = book'[s].orderToPrice[x]
    BY <2>1, <2>2, <2>3 DEF IInv, TypeOK
  <2>5. QED
    BY <1>1, <2>1, <2>4, OtherArrivals DEF Resting
<1>9. ASSUME NEW o \in Orders, FillFront(o) PROVE ArrivalInv'
  <2>1. PICK maker \in Orders, quantity \in Nat \ {0} : Fills(o, maker, quantity)
    BY <1>9, FillFrontTrades
  <2>2. /\ Arrivals' = Arrivals /\ lock' = lock
        /\ Opposite(Side(o)) \in Sides
    BY <1>9, <2>1, FillFrontTrades, FillsTape DEF Fills
  <2>3. \A s \in Sides, x \in Orders : Resting(book'[s], x) =>
           /\ Resting(book[s], x)
           /\ book[s].orderToPrice[x] = book'[s].orderToPrice[x]
    BY <2>1, <2>2, FillsBook
  <2>4. QED
    BY <1>1, <2>2, <2>3, OtherArrivals
<1>10. ASSUME NEW o \in Orders, NEW side \in Sides, Cancel(o, side) PROVE ArrivalInv'
  <2>1. /\ Resting(book[side], o) /\ lock' = lock
        /\ book' = [book EXCEPT ![side] = RemoveOrder(book[side], o, qty[o])]
    BY <1>10 DEF Cancel
  <2>2. book[side] \in BookSides /\ WellFormed(book[side]) /\ qty[o] \in Int
    BY BookFacts DEF IInv, TypeOK
  <2>3. \A y \in Orders : RemoveOrder(book[side], o, qty[o]).orderToPrice[y]
                            = IF y = o THEN NoPrice ELSE book[side].orderToPrice[y]
    BY <2>1, <2>2, RemoveOrderWellFormed
  <2>4. Arrivals' = Arrivals
    BY <1>10, OtherStepsSilent DEF Silent
  <2>5. \A s \in Sides, x \in Orders : Resting(book'[s], x) =>
           /\ Resting(book[s], x)
           /\ book[s].orderToPrice[x] = book'[s].orderToPrice[x]
    BY <2>1, <2>3 DEF Resting, IInv, TypeOK
  <2>6. QED
    BY <1>1, <2>1, <2>4, <2>5, OtherArrivals
<1>11. QED
  BY <1>3, <1>4, <1>5, <1>6, <1>7, <1>8, <1>9, <1>10 DEF Next

\* Every queue stands in the order in which its orders were accepted.
THEOREM ArrivalInvariance == Spec => []ArrivalInv
<1>1. Init => ArrivalInv
  BY InitArrivals
<1>2. QED
  BY <1>1, NextArrivals, Invariance, PTL DEF Spec

-----------------------------------------------------------------------------
(***************************************************************************)
(* The refinement: what the exchange sees of the engine.                   *)
(***************************************************************************)
\* What the refinement rests on.
RInv == IInv /\ StreamInv /\ SharesInv /\ ArrivalInv

AcceptedStates == {"select", "fill", "returned"}

\* The exchange knows the orders whose handlers got the mutex, ...
KnownAre ==
    Known = [x \in Orders |-> IF pc[x] \in AcceptedStates THEN request[x] ELSE NoRequest]

\* That follows from the invariant of the stream ...
LEMMA KnownOrders == IInv /\ StreamInv => KnownAre
<1> SUFFICES ASSUME IInv, StreamInv PROVE KnownAre
  OBVIOUS
<1>1. ASSUME NEW x \in Orders PROVE Accepted(x) <=> pc[x] \in AcceptedStates
  <2>1. pc[x] \in HandlerStates
    BY DEF IInv, TypeOK
  <2>2. CASE pc[x] \in AcceptedStates
    BY <2>2 DEF StreamInv, StreamOf, PlacedOnceAndFirst, Placed, Accepted, AcceptedStates
  <2>3. CASE pc[x] \in {"new", "waiting", "rejected"}
    BY <2>3 DEF StreamInv, StreamOf, UnseenBeforePlaced, Placed, Accepted, AcceptedStates
  <2>4. QED
    BY <2>1, <2>2, <2>3 DEF HandlerStates, AcceptedStates
<1>2. QED
  BY <1>1 DEF KnownAre, Known

\* ... after a step as well.
LEMMA KnownNext == IInv' /\ StreamInv' => KnownAre'
BY KnownOrders, PTL

\* ... sees those in the book on offer, ...
OfferedAre == Offered = [x \in Orders |-> IF InBook(x) THEN qty[x] ELSE 0]

\* That is how Offered is defined,
LEMMA OfferedOrders == OfferedAre
BY DEF OfferedAre, Offered, InBook

\* before and after a step.
LEMMA OfferedNext == OfferedAre'
BY OfferedOrders, PTL

\* What the exchange sees on a side is what rests there.
LEMMA OffersAreBook ==
    ASSUME IInv, StreamInv, NEW side \in Sides
    PROVE  Exchange!Offers(side) = {x \in Orders : Resting(book[side], x)}
<1>1. KnownAre /\ OfferedAre
  BY KnownOrders, OfferedOrders
<1>2. ASSUME NEW x \in Orders
      PROVE  Offered[x] > 0 /\ Known[x].side = side <=> Resting(book[side], x)
  <2>1. CASE InBook(x)
    <3>1. PICK s \in Sides : Resting(book[s], x)
      BY <2>1 DEF InBook
    <3>2. pc[x] = "returned" /\ Side(x) = s /\ qty[x] > 0
      BY <3>1 DEF IInv, OnlyOpenLimitOrdersRest
    <3>3. Known[x] = request[x] /\ Offered[x] = qty[x]
      BY <1>1, <2>1, <3>2 DEF KnownAre, OfferedAre, AcceptedStates
    <3>4. Resting(book[side], x) => Side(x) = side
      BY DEF IInv, OnlyOpenLimitOrdersRest
    <3>5. QED
      BY <3>1, <3>2, <3>3, <3>4 DEF Side
  <2>2. CASE ~InBook(x)
    <3>1. Offered[x] = 0
      BY <1>1, <2>2 DEF OfferedAre
    <3>2. QED
      BY <2>2, <3>1 DEF InBook
  <2>3. QED
    BY <2>1, <2>2
<1>3. QED
  BY <1>2 DEF Exchange!Offers

\* ... and judges a maker's price as the engine judges that of its level.
LEMMA AgreeIsMatchable ==
    ASSUME IInv, StreamInv, NEW o \in Orders, pc[o] \in {"select", "fill"},
           NEW side \in Sides, NEW m \in Orders, Resting(book[side], m)
    PROVE  /\ lock = o /\ Known[o] = request[o] /\ Known[m] = request[m]
           /\ Exchange!Against = Opposite(Side(o))
           /\ Exchange!BuysAtMarket <=> IsMarketBuy(o)
           /\ Exchange!Agree(m) <=> Matchable(o, request[m].limit)
<1>1. lock = o /\ request[o] \in RequestType
  BY RequestFields DEF IInv, MutualExclusion
<1>2. pc[m] = "returned" /\ ~IsMarket(m)
  BY DEF IInv, OnlyOpenLimitOrdersRest
<1>3. Known[o] = request[o] /\ Known[m] = request[m]
  BY <1>2, KnownOrders DEF KnownAre, AcceptedStates
<1>4. Exchange!Against = Opposite(Side(o))
  BY <1>1, <1>3 DEF Exchange!Against, Opposite, Side
<1>5. Exchange!BuysAtMarket <=> IsMarketBuy(o)
  BY <1>1, <1>3 DEF Exchange!BuysAtMarket, IsMarketBuy, IsMarket, Side
<1>6. /\ ~IsMarket(o) => request[o].limit \in Nat
      /\ request[m].limit \in Nat
      /\ balance \in Int
  <2>1. ~IsMarket(o) => request[o].limit \in Prices
    BY RequestFields
  <2>2. request[m].limit \in Prices
    BY <1>2, RequestFields
  <2>3. QED
    BY <2>1, <2>2, PricesAssumption DEF IInv, TypeOK
<1>7. request[o].type \in {"Limit", "Market"} /\ request[o].side \in {"Buy", "Sell"}
  BY <1>1 DEF RequestType, Sides
<1>8. Exchange!Agree(m) <=> Matchable(o, request[m].limit)
  <2>1. CASE IsMarketBuy(o)
    <3>1. Exchange!Agree(m) <=> balance >= request[m].limit
      BY <1>1, <1>3, <1>5, <2>1 DEF Exchange!Agree, IsMarketBuy, IsMarket
    <3>2. QED
      BY <2>1, <3>1 DEF Matchable, IsMarketBuy
  <2>2. CASE IsMarket(o) /\ Side(o) # "Buy"
    BY <1>1, <1>3, <1>5, <2>2 DEF Exchange!Agree, Matchable, IsMarket, IsMarketBuy
  <2>3. CASE ~IsMarket(o) /\ Side(o) = "Buy"
    <3>1. Exchange!Agree(m) <=> request[m].limit <= request[o].limit
      BY <1>1, <1>3, <1>5, <1>7, <2>3
         DEF Exchange!Agree, IsMarket, IsMarketBuy, Side
    <3>2. QED
      BY <1>6, <2>3, <3>1 DEF Matchable, Better, Opposite
  <2>4. CASE ~IsMarket(o) /\ Side(o) # "Buy"
    <3>1. Exchange!Agree(m) <=> request[m].limit >= request[o].limit
      BY <1>1, <1>3, <1>5, <1>7, <2>4
         DEF Exchange!Agree, IsMarket, IsMarketBuy, Side
    <3>2. QED
      BY <1>6, <2>4, <3>1 DEF Matchable, Better, Opposite
  <2>5. QED
    BY <2>1, <2>2, <2>3, <2>4 DEF IsMarketBuy
<1>9. QED
  BY <1>1, <1>3, <1>4, <1>5, <1>8

\* An order that rests queues at its own limit, where there is a level.
LEMMA RestsAtLimit ==
    ASSUME IInv, NEW side \in Sides, NEW m \in Orders, Resting(book[side], m)
    PROVE  /\ request[m].limit \in Prices
           /\ request[m].limit \in book[side].levels
           /\ \E i \in 1..Len(book[side].queue[request[m].limit]) :
                 book[side].queue[request[m].limit][i] = m
<1>1. book[side] \in BookSides /\ WellFormed(book[side])
  BY BookFacts
<1> DEFINE p == book[side].orderToPrice[m]
           q == book[side].queue[p]
<1>2. p \in Prices /\ request[m].limit = p /\ q \in Seq(Orders)
  BY <1>1 DEF BookSides, Resting, IInv, OnlyOpenLimitOrdersRest
<1>3. PICK i \in 1..Len(q) : q[i] = m
  BY <1>1, <1>2 DEF WellFormed, LookupExact
<1>4. p \in book[side].levels
  <2>1. q # <<>>
    BY <1>2, <1>3, LenProperties, EmptySeq
  <2>2. QED
    BY <1>1, <1>2, <2>1 DEF WellFormed, LevelsInHeap
<1>5. QED
  BY <1>2, <1>3, <1>4

\* Accept places the order.
LEMMA AcceptPlaces ==
    ASSUME RInv, RInv', NEW o \in Orders, Accept(o)
    PROVE  \E r \in Requests : Exchange!Place(o, r)
<1>1. /\ pc[o] = "waiting" /\ lock = NoOrder
      /\ pc' = [pc EXCEPT ![o] = "select"]
      /\ lock' = o /\ remaining' = qty[o] /\ balance' = request[o].balance
      /\ request' = request /\ qty' = qty /\ book' = book
  BY DEF Accept
<1>2. request[o] \in Requests /\ Valid(request[o]) /\ pc \in [Orders -> HandlerStates]
  BY <1>1 DEF RInv, IInv, MutualExclusion, TypeOK
<1>3. qty[o] = request[o].quantity /\ request[o].quantity > 0
  BY <1>1, <1>2 DEF RInv, SharesInv, SharesOf, QuantityAsSubmitted, Valid
<1>4. KnownAre /\ KnownAre'
  BY KnownOrders, KnownNext DEF RInv
<1>5. Known[o] = NoRequest /\ Known' = [Known EXCEPT ![o] = request[o]]
  BY <1>1, <1>2, <1>4 DEF KnownAre, AcceptedStates
<1>6. Offered' = Offered
  BY <1>1 DEF Offered
<1>7. Arrivals' = Append(Arrivals, o) /\ Tape' = Tape
  BY AcceptArrives DEF RInv
<1>8. Exchange!Place(o, request[o])
  BY <1>1, <1>3, <1>5, <1>6, <1>7 DEF Exchange!Place, Exchange!Accepted
<1>9. QED
  BY <1>2, <1>8

\* Cancel withdraws the order.
LEMMA CancelWithdraws ==
    ASSUME RInv, RInv', NEW o \in Orders, NEW side \in Sides, Cancel(o, side)
    PROVE  Exchange!Withdraw(o)
<1>1. /\ lock = NoOrder /\ Resting(book[side], o)
      /\ UNCHANGED <<request, qty, pc, lock, remaining, balance>>
  BY DEF Cancel
<1>2. KnownAre /\ KnownAre' /\ OfferedAre /\ OfferedAre'
  BY KnownOrders, KnownNext, OfferedOrders, OfferedNext DEF RInv
<1>3. Known' = Known
  BY <1>1, <1>2 DEF KnownAre
<1>4. InBook(o) /\ qty[o] > 0
  BY <1>1 DEF InBook, RInv, IInv, OnlyOpenLimitOrdersRest
<1>5. \A x \in Orders : InBook(x)' <=> InBook(x) /\ x # o
  BY CancelInBook DEF RInv
<1>6. Offered[o] > 0 /\ Offered' = [Offered EXCEPT ![o] = 0]
  BY <1>1, <1>2, <1>4, <1>5 DEF OfferedAre
<1>7. Arrivals' = Arrivals /\ Tape' = Tape
  BY OtherStepsSilent DEF Silent, RInv
<1>8. QED
  BY <1>1, <1>3, <1>6, <1>7 DEF Exchange!Withdraw

\* Finish settles the match.
LEMMA FinishSettles ==
    ASSUME RInv, RInv', NEW o \in Orders, Finish(o)
    PROVE  Exchange!Settle
<1>1. /\ pc[o] = "select" /\ pc' = [pc EXCEPT ![o] = "returned"]
      /\ lock' = NoOrder /\ remaining' = 0 /\ balance' = 0 /\ request' = request
  BY DEF Finish
<1>2. /\ lock = o /\ o # NoOrder /\ request[o] \in RequestType
      /\ pc \in [Orders -> HandlerStates]
  BY <1>1, RequestFields, RequestsAssumption DEF RInv, IInv, MutualExclusion, TypeOK
<1>3. KnownAre /\ KnownAre' /\ OfferedAre /\ OfferedAre'
  BY KnownOrders, KnownNext, OfferedOrders, OfferedNext DEF RInv
<1>4. Known' = Known /\ Known[o] = request[o]
  BY <1>1, <1>2, <1>3 DEF KnownAre, AcceptedStates
<1>5. Offered' = [Offered EXCEPT ![o] = IF request[o].type = "Limit" THEN remaining ELSE 0]
  <2>1. ASSUME NEW x \in Orders
        PROVE  /\ InBook(x)' <=> InBook(x) \/ (x = o /\ Rests(o))
               /\ qty'[x] = IF x = o /\ Rests(o) THEN remaining ELSE qty[x]
    <3>1. InBook(x)' <=> InBook(x) \/ (x = o /\ Rests(o))
      BY FinishInBook DEF RInv
    <3>2. qty' = IF Rests(o) THEN [qty EXCEPT ![o] = remaining] ELSE qty
      BY FinishBook DEF RInv
    <3>3. QED
      BY <3>1, <3>2 DEF RInv, IInv, TypeOK
  <2>2. ~InBook(o)
    BY <1>1 DEF InBook, RInv, IInv, OnlyOpenLimitOrdersRest
  <2>3. (IF Rests(o) THEN remaining ELSE 0)
            = IF request[o].type = "Limit" THEN remaining ELSE 0
    BY <1>2 DEF Rests, IsMarket, RequestType, RInv, IInv, TypeOK
  <2>4. QED
    BY <1>3, <2>1, <2>2, <2>3 DEF OfferedAre
<1>6. remaining = 0 \/ Exchange!Counterparties = {}
  <2>1. CASE remaining = 0
    BY <2>1
  <2>2. CASE remaining # 0
    <3>1. PICK opposite \in {book[Opposite(Side(o))], FreshOpposite(o)} :
            ExitLoop(o, opposite)
      BY DEF Finish
    <3>2. remaining > 0
      BY <2>2 DEF RInv, IInv, TypeOK
    <3>3. \A q \in book[Opposite(Side(o))].levels : ~Matchable(o, q)
      BY <1>1, <3>1, <3>2, ExitMeansNoMatch DEF RInv
    <3>4. Opposite(Side(o)) \in Sides
      BY <1>1, RequestFields, SidesFacts DEF RInv
    <3>5. ASSUME NEW m \in Exchange!Counterparties PROVE FALSE
      <4>1. m \in Exchange!Offers(Exchange!Against) /\ Exchange!Agree(m)
        BY DEF Exchange!Counterparties
      <4>2. Exchange!Against = Opposite(Side(o))
        BY <1>2, <1>4 DEF Exchange!Against, Opposite, Side
      <4>3. m \in Orders /\ Resting(book[Opposite(Side(o))], m)
        BY <3>4, <4>1, <4>2, OffersAreBook DEF RInv
      <4>4. Matchable(o, request[m].limit)
        BY <1>1, <3>4, <4>1, <4>3, AgreeIsMatchable DEF RInv
      <4>5. request[m].limit \in book[Opposite(Side(o))].levels
        BY <3>4, <4>3, RestsAtLimit DEF RInv
      <4>6. QED
        BY <3>3, <4>4, <4>5
    <3>6. QED
      BY <3>5
  <2>3. QED
    BY <2>1, <2>2
<1>7. Arrivals' = Arrivals /\ Tape' = Tape
  BY FinishSilent DEF Silent, RInv
<1>8. QED
  BY <1>1, <1>2, <1>4, <1>5, <1>6, <1>7 DEF Exchange!Settle

\* The front of the best level goes before all that the other side offers.
LEMMA FrontGoesFirst ==
    ASSUME RInv, NEW o \in Orders, pc[o] = "fill", NEW maker \in Orders,
           maker = book[Opposite(Side(o))].queue[bestPrice][1],
           Resting(book[Opposite(Side(o))], maker), request[maker].limit = bestPrice,
           NEW other \in Orders \ {maker}, Resting(book[Opposite(Side(o))], other)
    PROVE  Exchange!Before(maker, other)
<1> DEFINE side == Opposite(Side(o))
           price == request[other].limit
<1>1. side \in Sides
  BY RequestFields, SidesFacts DEF RInv
<1>2. /\ bestPrice \in Prices
      /\ \A p \in book[side].levels : ~Better(side, p, bestPrice)
  BY DEF RInv, IInv, FillsAtBestPrice
<1>3. /\ pc[maker] = "returned" /\ Side(maker) = side
      /\ pc[other] = "returned"
  BY <1>1 DEF RInv, IInv, OnlyOpenLimitOrdersRest
<1>4. Known[maker] = request[maker] /\ Known[other] = request[other]
  BY <1>3, KnownOrders DEF RInv, KnownAre, AcceptedStates
<1>5. price \in Prices /\ price \in book[side].levels
  BY <1>1, RestsAtLimit DEF RInv
<1>6. PICK i \in 1..Len(book[side].queue[price]) : book[side].queue[price][i] = other
  BY <1>1, RestsAtLimit DEF RInv
<1>7. CASE price = bestPrice
  <2> DEFINE q == book[side].queue[bestPrice]
  <2>1. q \in Seq(Orders)
    BY <1>1, <1>2 DEF RInv, IInv, TypeOK, BookSides
  <2>2. /\ Len(q) \in Nat /\ i \in 1..Len(q) /\ q[i] = other /\ q[1] = maker
    BY <1>6, <1>7, <2>1, LenProperties
  <2>3. Ordered(q, Arrivals)
    BY <1>1, <1>2 DEF RInv, ArrivalInv, QueuedByArrival
  <2> HIDE DEF q
  <2>4. 1 \in 1..Len(q) /\ 1 < i
    BY <2>2
  <2>5. Before(Arrivals, maker, other)
    BY <2>2, <2>3, <2>4 DEF Ordered
  <2>6. Exchange!Earlier(maker, other)
    <3>1. Arrivals \in Seq(Orders)
      BY DEF RInv, ArrivalInv
    <3>2. DOMAIN Arrivals = 1..Len(Arrivals)
      BY <3>1, LenProperties
    <3>3. QED
      BY <2>5, <3>2 DEF Before, Exchange!Earlier
  <2>7. QED
    BY <1>4, <1>7, <2>6 DEF Exchange!Before
<1>8. CASE price # bestPrice
  <2>1. Better(side, bestPrice, price)
    BY <1>1, <1>2, <1>5, <1>8, BetterIsTotal
  <2>2. IF request[maker].side = "Buy" THEN bestPrice > price ELSE bestPrice < price
    BY <1>3, <2>1 DEF Better, Side
  <2>3. QED
    BY <1>4, <2>2 DEF Exchange!Before
<1>9. QED
  BY <1>7, <1>8

\* What a trade is worth: both sides of it and a market buyer's cash decide.
LEMMA SameQuantity ==
    ASSUME NEW o \in Orders, NEW maker \in Orders, remaining \in Int, qty[maker] \in Int,
           balance \in Int, bestPrice \in Nat \ {0}
    PROVE  MatchQuantity(o, maker) =
              LET wanted == IF remaining < qty[maker] THEN remaining ELSE qty[maker]
              IN  IF IsMarketBuy(o) /\ balance \div bestPrice < wanted
                  THEN balance \div bestPrice ELSE wanted
<1> DEFINE wanted == IF remaining < qty[maker] THEN remaining ELSE qty[maker]
           affordable == balance \div bestPrice
<1>1. wanted \in Int /\ affordable \in Int
  OBVIOUS
<1>2. MatchQuantity(o, maker) =
         IF IsMarketBuy(o) THEN IF wanted < affordable THEN wanted ELSE affordable
         ELSE wanted
  BY DEF MatchQuantity, Least
<1> HIDE DEF wanted, affordable
<1>3. MatchQuantity(o, maker) =
         IF IsMarketBuy(o) /\ affordable < wanted THEN affordable ELSE wanted
  BY <1>1, <1>2
<1>4. QED
  BY <1>3 DEF wanted, affordable

\* FillFront trades.
LEMMA FillFrontIsTrade ==
    ASSUME RInv, RInv', NEW o \in Orders, FillFront(o)
    PROVE  Exchange!Trade
<1> DEFINE side == Opposite(Side(o))
<1>1. PICK maker \in Orders, quantity \in Nat \ {0} : Fills(o, maker, quantity)
  BY FillFrontTrades DEF RInv
<1>2. Side(o) \in Sides /\ side \in Sides /\ bestPrice \in Prices /\ pc[o] = "fill"
  BY FillFrontTrades DEF RInv
<1>3. /\ maker = book[side].queue[bestPrice][1] /\ Resting(book[side], maker)
      /\ quantity = MatchQuantity(o, maker)
      /\ remaining' = remaining - quantity /\ quantity <= remaining
      /\ qty' = [qty EXCEPT ![maker] = qty[maker] - quantity]
      /\ balance' = IF IsMarketBuy(o) THEN balance - bestPrice * quantity ELSE balance
      /\ UNCHANGED <<request, pc, lock>>
  BY <1>1 DEF Fills
<1>4. /\ lock = o /\ Known[o] = request[o] /\ Known[maker] = request[maker]
      /\ Exchange!Against = side
      /\ Exchange!BuysAtMarket <=> IsMarketBuy(o)
      /\ Exchange!Agree(maker) <=> Matchable(o, request[maker].limit)
  BY <1>2, <1>3, AgreeIsMatchable DEF RInv
<1>5. KnownAre /\ KnownAre' /\ OfferedAre /\ OfferedAre'
  BY KnownOrders, KnownNext, OfferedOrders, OfferedNext DEF RInv
<1>6. /\ MayFill(o) /\ o # NoOrder
      /\ remaining \in Nat /\ qty \in [Orders -> Int] /\ balance \in Int
      /\ bestPrice \in Nat \ {0}
  BY <1>2, RequestsAssumption, PricesAssumption DEF FillFront, RInv, IInv, TypeOK
<1>7. request[maker].limit = bestPrice
  <2>1. book[side] \in BookSides /\ WellFormed(book[side])
    BY <1>2, BookFacts DEF RInv
  <2>2. 1 \in 1..Len(book[side].queue[bestPrice])
    <3>1. book[side].queue[bestPrice] # <<>>
      BY <1>6 DEF MayFill
    <3>2. book[side].queue[bestPrice] \in Seq(Orders)
      BY <1>2, <2>1 DEF BookSides
    <3>3. QED
      BY <3>1, <3>2, LenProperties, EmptySeq
  <2>3. book[side].orderToPrice[maker] = bestPrice
    BY <1>2, <1>3, <2>1, <2>2 DEF WellFormed, LookupExact
  <2>4. QED
    BY <1>2, <1>3, <2>3 DEF RInv, IInv, OnlyOpenLimitOrdersRest
<1>8. maker \in Exchange!Counterparties
  <2>1. Exchange!Offers(side) = {x \in Orders : Resting(book[side], x)}
    BY <1>2, OffersAreBook DEF RInv
  <2>2. Matchable(o, bestPrice)
    BY <1>2, <1>6 DEF Matchable, MayFill, IsMarketBuy, RInv, IInv, FillsAtBestPrice
  <2>3. \A other \in Orders \ {maker} :
           Resting(book[side], other) => Exchange!Before(maker, other)
    BY <1>2, <1>3, <1>7, FrontGoesFirst
  <2>4. QED
    BY <1>3, <1>4, <1>7, <2>1, <2>2, <2>3 DEF Exchange!Counterparties
<1>9. Offered[maker] = qty[maker]
  BY <1>2, <1>3, <1>5 DEF OfferedAre, InBook
<1>10. Offered' = [Offered EXCEPT ![maker] = @ - quantity]
  <2>1. ASSUME NEW x \in Orders
        PROVE  InBook(x)' <=> InBook(x) /\ ~(x = maker /\ qty[maker] = quantity)
    BY <1>1, <1>2, FillsBook DEF InBook, RInv
  <2>2. InBook(maker)
    BY <1>2, <1>3 DEF InBook
  <2>3. Offered' = [x \in Orders |-> IF InBook(x)' THEN qty'[x] ELSE 0]
    BY <1>5 DEF OfferedAre
  <2>4. ASSUME NEW x \in Orders
        PROVE  Offered'[x] = IF x = maker THEN qty[maker] - quantity ELSE Offered[x]
    <3>1. CASE x = maker
      <4>1. qty'[x] = qty[maker] - quantity
        BY <1>3, <1>6, <3>1
      <4>2. CASE qty[maker] = quantity
        BY <1>6, <2>1, <2>3, <3>1, <4>2
      <4>3. CASE qty[maker] # quantity
        BY <2>1, <2>2, <2>3, <3>1, <4>1, <4>3
      <4>4. QED
        BY <4>2, <4>3
    <3>2. CASE x # maker
      BY <1>3, <1>5, <1>6, <2>1, <2>3, <3>2 DEF OfferedAre
    <3>3. QED
      BY <3>1, <3>2
  <2>5. QED
    BY <1>5, <1>9, <2>3, <2>4 DEF OfferedAre
<1>11. /\ Arrivals' = Arrivals
       /\ Tape' = Append(Tape, [buyer |-> IF Side(o) = "Buy" THEN o ELSE maker,
                                seller |-> IF Side(o) = "Buy" THEN maker ELSE o,
                                price |-> bestPrice, quantity |-> quantity])
  BY <1>1, <1>2, FillsTape DEF RInv
<1>12. Known' = Known
  BY <1>3, <1>5 DEF KnownAre
<1>13. remaining > 0 /\ quantity > 0
  BY <1>3, <1>6 DEF MayFill
<1>14. quantity =
          LET wanted == IF remaining < Offered[maker] THEN remaining ELSE Offered[maker]
          IN  IF Exchange!BuysAtMarket /\ balance \div bestPrice < wanted
              THEN balance \div bestPrice ELSE wanted
  BY <1>3, <1>4, <1>6, <1>9, SameQuantity
<1> DEFINE cost == bestPrice * quantity
           affordable == balance \div bestPrice
<1>15. /\ balance' = IF Exchange!BuysAtMarket THEN balance - cost ELSE balance
       /\ quantity =
            LET wanted == IF remaining < Offered[maker] THEN remaining ELSE Offered[maker]
            IN  IF Exchange!BuysAtMarket /\ affordable < wanted THEN affordable ELSE wanted
  BY <1>3, <1>4, <1>14
<1>16. Known[maker].limit = bestPrice /\ Known[o].side = Side(o) /\ lock' = lock
  BY <1>3, <1>4, <1>7 DEF Side
<1>17. QED
  BY <1>3, <1>4, <1>6, <1>8, <1>10, <1>11, <1>12, <1>13, <1>15, <1>16, Zenon
     DEF Exchange!Trade

-----------------------------------------------------------------------------
\* Every step of the engine is a step of the exchange, or one it does not see.
LEMMA StepRefines == RInv /\ RInv' /\ [Next]_vars => [Exchange!Next]_(Exchange!vars)
<1> SUFFICES ASSUME RInv, RInv', [Next]_vars
             PROVE  Exchange!Next \/ Exchange!vars' = Exchange!vars
  OBVIOUS
<1>1. KnownAre /\ KnownAre'
  BY KnownOrders, KnownNext DEF RInv
<1>2. CASE UNCHANGED vars
  BY <1>2 DEF vars, Exchange!vars, Known, Accepted, About, Published, Arrivals, Offered, Tape
<1>3. ASSUME NEW o \in Orders,
             \/ \E r \in Requests : Submit(o, r) \/ Reject(o, r)
             \/ SelectLevel(o) \/ LeaveLevel(o)
      PROVE  Exchange!vars' = Exchange!vars
  <2>1. Arrivals' = Arrivals /\ Tape' = Tape
    BY <1>3, OtherStepsSilent DEF RInv, Silent
  <2>2. pc \in [Orders -> HandlerStates] /\ request \in [Orders -> Requests \cup {NoRequest}]
    BY DEF RInv, IInv, TypeOK
  <2>3. Known' = Known
    BY <1>1, <1>3, <2>2
       DEF Submit, Reject, SelectLevel, LeaveLevel, KnownAre, AcceptedStates
  <2>4. Offered' = Offered
    <3>1. OfferedAre /\ OfferedAre'
      BY OfferedOrders, OfferedNext
    <3>2. ASSUME NEW x \in Orders PROVE InBook(x)' <=> InBook(x)
      <4>1. CASE SelectLevel(o)
        BY <4>1, SelectInBook DEF RInv
      <4>2. CASE book' = book
        BY <4>2 DEF InBook
      <4>3. QED
        BY <1>3, <4>1, <4>2 DEF Submit, Reject, LeaveLevel
    <3>3. ASSUME NEW x \in Orders, InBook(x) PROVE qty'[x] = qty[x]
      <4>1. pc[x] = "returned"
        BY <3>3 DEF InBook, RInv, IInv, OnlyOpenLimitOrdersRest
      <4>2. qty \in [Orders -> Int]
        BY DEF RInv, IInv, TypeOK
      <4>3. QED
        BY <1>3, <4>1, <4>2 DEF Submit, Reject, SelectLevel, LeaveLevel
    <3>4. QED
      BY <3>1, <3>2, <3>3 DEF OfferedAre
  <2>5. UNCHANGED <<lock, remaining, balance>>
    BY <1>3 DEF Submit, Reject, SelectLevel, LeaveLevel
  <2>6. QED
    BY <2>1, <2>3, <2>4, <2>5 DEF Exchange!vars
<1>4. ASSUME NEW o \in Orders, Accept(o) PROVE Exchange!Next
  BY <1>4, AcceptPlaces DEF Exchange!Next
<1>5. ASSUME NEW o \in Orders, FillFront(o) PROVE Exchange!Next
  BY <1>5, FillFrontIsTrade DEF Exchange!Next
<1>6. ASSUME NEW o \in Orders, Finish(o) PROVE Exchange!Next
  BY <1>6, FinishSettles DEF Exchange!Next
<1>7. ASSUME NEW o \in Orders, NEW side \in Sides, Cancel(o, side) PROVE Exchange!Next
  BY <1>7, CancelWithdraws DEF Exchange!Next
<1>8. QED
  BY <1>2, <1>3, <1>4, <1>5, <1>6, <1>7 DEF Next

\* An empty market.
LEMMA InitRefines == Init => Exchange!Init
<1> SUFFICES ASSUME Init PROVE Exchange!Init
  OBVIOUS
<1>1. Arrivals = <<>> /\ Tape = <<>>
  BY InitArrivals
<1>2. KnownAre /\ OfferedAre
  BY InitIInv, InitStream, KnownOrders, OfferedOrders
<1>3. Known = [o \in Orders |-> NoRequest]
  BY <1>2 DEF Init, KnownAre, AcceptedStates
<1>4. Offered = [o \in Orders |-> 0]
  BY <1>2 DEF Init, OfferedAre, InBook, Resting, NewSide
<1>5. QED
  BY <1>1, <1>3, <1>4 DEF Init, Exchange!Init

\* PriceTimePriority: the engine trades every order with the best-priced opposite
\* order that was accepted first, at its price, and stops only when nothing is
\* left or nobody agrees (matchBuyOrder, matchSellOrder, PriceLevel, PriceHeap).
THEOREM PriceTime == Spec => PriceTimePriority
<1>1. Spec => []RInv
  BY Invariance, StreamInvariance, SharesInvariance, ArrivalInvariance, PTL DEF RInv
<1>2. QED
  BY <1>1, InitRefines, StepRefines, PTL DEF Spec, PriceTimePriority, Exchange!Spec
=============================================================================
