------------------------- MODULE MatchingEngineProofs -------------------------
(***************************************************************************)
(* Safety of one stock's matching, for every set of orders, prices and     *)
(* requests, by one inductive invariant.                                   *)
(***************************************************************************)
EXTENDS MatchingEngine, SequenceTheorems, TLAPS

-----------------------------------------------------------------------------
(***************************************************************************)
(* The order book's operations.                                            *)
(***************************************************************************)
\* PriceHeap.Less orders the prices of a side totally and strictly.
LEMMA BetterIsTotal ==
    ASSUME NEW side \in Sides, NEW p \in Prices, NEW q \in Prices
    PROVE  /\ ~Better(side, p, p)
           /\ Better(side, p, q) \/ Better(side, q, p) \/ p = q
<1>1. p \in Nat /\ q \in Nat
  BY PricesAssumption
<1>2. QED
  BY <1>1 DEF Better

\* Taking position k out of a queue shifts what is behind it forward by one
\* (list.List.Remove in PriceLevel.RemoveOrder).
LEMMA RemoveAtProperties ==
    ASSUME NEW S, NEW q \in Seq(S), NEW k \in 1..Len(q)
    PROVE  /\ RemoveAt(q, k) \in Seq(S)
           /\ Len(RemoveAt(q, k)) = Len(q) - 1
           /\ \A i \in 1..(Len(q) - 1) :
                RemoveAt(q, k)[i] = IF i < k THEN q[i] ELSE q[i + 1]
<1> DEFINE before == SubSeq(q, 1, k - 1)
           after == SubSeq(q, k + 1, Len(q))
<1>1. /\ before \in Seq(S)
      /\ Len(before) = k - 1
      /\ \A i \in 1..(k - 1) : before[i] = q[i]
  <2>1. /\ 1 \in 1..(Len(q) + 1)
        /\ k - 1 \in 0..Len(q)
    BY LenProperties
  <2>2. QED
    BY <2>1, SubSeqProperties, LenProperties
<1>2. /\ after \in Seq(S)
      /\ Len(after) = Len(q) - k
      /\ \A i \in 1..(Len(q) - k) : after[i] = q[i + k]
  BY SubSeqProperties, LenProperties
<1>3. RemoveAt(q, k) = before \o after
  BY DEF RemoveAt
<1>4. /\ before \o after \in Seq(S)
      /\ Len(before \o after) = Len(before) + Len(after)
      /\ \A i \in 1..(Len(before) + Len(after)) :
            (before \o after)[i] = IF i <= Len(before) THEN before[i]
                                   ELSE after[i - Len(before)]
  BY <1>1, <1>2, ConcatProperties
<1> HIDE DEF before, after
<1>5. \A i \in 1..(Len(q) - 1) :
        (before \o after)[i] = IF i < k THEN q[i] ELSE q[i + 1]
  BY <1>1, <1>2, <1>4, LenProperties
<1>6. QED
  BY <1>1, <1>2, <1>3, <1>4, <1>5, LenProperties

\* AddOrder keeps a side well formed: the new order goes to the end of its
\* level, and a level that is new gets its price into the heap.
LEMMA AddOrderWellFormed ==
    ASSUME NEW b \in BookSides, WellFormed(b),
           NEW o \in Orders, ~Resting(b, o),
           NEW price \in Prices, NEW quantity \in Int
    PROVE  /\ AddOrder(b, o, price, quantity) \in BookSides
           /\ WellFormed(AddOrder(b, o, price, quantity))
<1> DEFINE c == AddOrder(b, o, price, quantity)
           old == b.queue[price]
           new == Append(old, o)
<1> USE PricesAssumption
<1>1. old \in Seq(Orders) /\ Len(old) \in Nat
  BY LenProperties DEF BookSides
<1>2. /\ new \in Seq(Orders)
      /\ new # <<>>
      /\ Len(new) = Len(old) + 1
      /\ \A i \in 1..Len(old) : new[i] = old[i]
      /\ new[Len(old) + 1] = o
  BY <1>1, AppendProperties
<1>3. c \in BookSides
  <2>1. /\ b.levels \cup {price} \in SUBSET Prices
        /\ [b.queue EXCEPT ![price] = Append(@, o)] \in [Prices -> Seq(Orders)]
        /\ [b.volume EXCEPT ![price] = @ + quantity] \in [Prices -> Int]
        /\ [b.heap EXCEPT ![price] = IF price \in b.levels THEN @ ELSE @ + 1]
              \in [Prices -> Nat]
        /\ [b.orderToPrice EXCEPT ![o] = price] \in [Orders -> Prices \cup {NoPrice}]
    BY <1>2 DEF BookSides
  <2>2. QED
    BY <2>1 DEF BookSides, AddOrder
<1>4. /\ c.levels = b.levels \cup {price}
      /\ \A p \in Prices : c.queue[p] = IF p = price THEN new ELSE b.queue[p]
      /\ \A p \in Prices : c.heap[p] = IF p = price /\ price \notin b.levels
                                       THEN b.heap[p] + 1 ELSE b.heap[p]
      /\ \A x \in Orders : c.orderToPrice[x] = IF x = o THEN price ELSE b.orderToPrice[x]
  BY DEF BookSides, AddOrder
<1> HIDE DEF c, new
<1>5. LevelsInHeap(c)
  <2>1. \A p \in Prices : b.heap[p] \in Nat
    BY DEF BookSides
  <2>2. QED
    BY <2>1, <1>2, <1>4 DEF WellFormed, LevelsInHeap
<1>6. \A p \in Prices : \A i \in 1..Len(b.queue[p]) : b.queue[p][i] # o
  BY DEF WellFormed, LookupExact, Resting, NoPrice
<1>7. LookupExact(c)
  <2> SUFFICES ASSUME NEW x \in Orders, NEW p \in Prices
               PROVE  c.orderToPrice[x] = p
                        <=> \E i \in 1..Len(c.queue[p]) : c.queue[p][i] = x
    BY DEF LookupExact
  <2>0. b.orderToPrice[x] = p <=> \E i \in 1..Len(b.queue[p]) : b.queue[p][i] = x
    BY DEF WellFormed, LookupExact
  <2>1. CASE x = o /\ p = price
    <3>1. Len(old) + 1 \in 1..Len(new)
      BY <1>1, <1>2
    <3>2. QED
      BY <3>1, <2>1, <1>2, <1>4
  <2>2. CASE x # o /\ p = price
    <3>1. ASSUME NEW i \in 1..Len(old), old[i] = x
          PROVE  i \in 1..Len(new) /\ new[i] = x
      BY <3>1, <1>1, <1>2
    <3>2. ASSUME NEW i \in 1..Len(new), new[i] = x
          PROVE  i \in 1..Len(old) /\ old[i] = x
      BY <3>2, <2>2, <1>1, <1>2
    <3>3. QED
      BY <3>1, <3>2, <2>0, <2>2, <1>4
  <2>3. CASE p # price
    BY <2>0, <2>3, <1>4, <1>6
  <2>4. QED
    BY <2>1, <2>2, <2>3
<1>8. QueuedOnce(c)
  <2> SUFFICES ASSUME NEW p \in Prices,
                      NEW i \in 1..Len(c.queue[p]), NEW j \in 1..Len(c.queue[p]),
                      c.queue[p][i] = c.queue[p][j]
               PROVE  i = j
    BY DEF QueuedOnce
  <2>0. \A k, l \in 1..Len(b.queue[p]) : b.queue[p][k] = b.queue[p][l] => k = l
    BY DEF WellFormed, QueuedOnce
  <2>1. CASE p = price
    <3>1. /\ i \in 1..Len(new) /\ j \in 1..Len(new)
          /\ new[i] = new[j]
      BY <2>1, <1>4
    <3>2. \A n \in 1..Len(new) : new[n] = IF n = Len(old) + 1 THEN o ELSE old[n]
      BY <1>1, <1>2
    <3>3. \A n \in 1..Len(new) : n = Len(old) + 1 \/ n \in 1..Len(old)
      BY <1>1, <1>2
    <3>4. QED
      BY <3>1, <3>2, <3>3, <2>0, <2>1, <1>6
  <2>2. CASE p # price
    BY <2>0, <2>2, <1>4
  <2>3. QED
    BY <2>1, <2>2
<1>9. QED
  BY <1>3, <1>5, <1>7, <1>8 DEF WellFormed, c

\* RemoveOrder of a resting order keeps a side well formed, and it takes
\* nothing else out of the book.
LEMMA RemoveOrderWellFormed ==
    ASSUME NEW b \in BookSides, WellFormed(b),
           NEW o \in Orders, Resting(b, o), NEW quantity \in Int
    PROVE  /\ RemoveOrder(b, o, quantity) \in BookSides
           /\ WellFormed(RemoveOrder(b, o, quantity))
           /\ RemoveOrder(b, o, quantity).levels \subseteq b.levels
           /\ \A x \in Orders : RemoveOrder(b, o, quantity).orderToPrice[x]
                                    = IF x = o THEN NoPrice ELSE b.orderToPrice[x]
<1> DEFINE c == RemoveOrder(b, o, quantity)
           price == b.orderToPrice[o]
           old == b.queue[price]
           k == PositionOf(old, o)
           rest == RemoveAt(old, k)
<1> USE PricesAssumption
<1>1. price \in Prices /\ old \in Seq(Orders) /\ Len(old) \in Nat
  BY LenProperties DEF BookSides, Resting, NoPrice
<1>2. \E i \in 1..Len(old) : old[i] = o
  BY <1>1 DEF WellFormed, LookupExact
<1>3. k \in 1..Len(old) /\ old[k] = o
  BY <1>2 DEF PositionOf
<1> HIDE DEF k
<1>4. /\ rest \in Seq(Orders)
      /\ Len(rest) = Len(old) - 1
      /\ \A i \in 1..(Len(old) - 1) : rest[i] = IF i < k THEN old[i] ELSE old[i + 1]
  BY <1>1, <1>3, RemoveAtProperties
<1> HIDE DEF rest
<1>5. c \in BookSides
  <2>1. b.levels \in SUBSET Prices /\ b.levels \ {price} \in SUBSET Prices
    BY DEF BookSides
  <2>2. [b.queue EXCEPT ![price] = rest] \in [Prices -> Seq(Orders)]
    BY <1>1, <1>4 DEF BookSides
  <2>3. [b.volume EXCEPT ![price] = IF rest = <<>> THEN 0 ELSE @ - quantity]
            \in [Prices -> Int]
    <3>1. b.volume \in [Prices -> Int]
      BY DEF BookSides
    <3>a. price \in Prices
      BY <1>1
    <3> HIDE DEF price
    <3>b. b.volume[price] \in Int
      BY <3>1, <3>a
    <3>2. b.volume[price] - quantity \in Int
      BY <3>b
    <3> DEFINE v == IF rest = <<>> THEN 0 ELSE b.volume[price] - quantity
    <3>3. v \in Int
      BY <3>2
    <3> HIDE DEF v
    <3>4. [b.volume EXCEPT ![price] = v] \in [Prices -> Int]
      BY <3>1, <3>3
    <3>5. QED
      BY <3>4 DEF v
  <2>4. [b.orderToPrice EXCEPT ![o] = NoPrice] \in [Orders -> Prices \cup {NoPrice}]
    BY DEF BookSides
  <2>5. b.heap \in [Prices -> Nat]
    BY DEF BookSides
  <2>6. QED
    BY <2>1, <2>2, <2>3, <2>4, <2>5 DEF BookSides, RemoveOrder, Without, k, rest
<1>6. /\ c.levels = IF rest = <<>> THEN b.levels \ {price} ELSE b.levels
      /\ \A p \in Prices : c.queue[p] = IF p = price THEN rest ELSE b.queue[p]
      /\ c.heap = b.heap
      /\ \A x \in Orders : c.orderToPrice[x] = IF x = o THEN NoPrice ELSE b.orderToPrice[x]
  BY <1>1 DEF BookSides, RemoveOrder, Without, k, rest
<1> HIDE DEF c
<1>7. LevelsInHeap(c)
  <2>1. old # <<>>
    BY <1>1, <1>3, EmptySeq
  <2>2. QED
    BY <2>1, <1>1, <1>6 DEF WellFormed, LevelsInHeap
<1>8. \A i, j \in 1..Len(old) : old[i] = old[j] => i = j
  BY <1>1 DEF WellFormed, QueuedOnce
\* Where an order of rest stood before.
<1> DEFINE from(i) == IF i < k THEN i ELSE i + 1
<1>f. \A i \in 1..Len(rest) :
        /\ from(i) \in 1..Len(old)
        /\ from(i) # k
        /\ rest[i] = old[from(i)]
        /\ \A j \in 1..Len(rest) : from(i) = from(j) => i = j
  BY <1>1, <1>3, <1>4
<1> HIDE DEF from
<1>9. \A i \in 1..Len(rest) : rest[i] # o
  BY <1>3, <1>8, <1>f
<1>10. LookupExact(c)
  <2> SUFFICES ASSUME NEW x \in Orders, NEW p \in Prices
               PROVE  c.orderToPrice[x] = p
                        <=> \E i \in 1..Len(c.queue[p]) : c.queue[p][i] = x
    BY DEF LookupExact
  <2>0. b.orderToPrice[x] = p <=> \E i \in 1..Len(b.queue[p]) : b.queue[p][i] = x
    BY DEF WellFormed, LookupExact
  <2>1. CASE x = o /\ p = price
    BY <2>1, <1>6, <1>9 DEF NoPrice
  <2>2. CASE x = o /\ p # price
    BY <2>0, <2>2, <1>6 DEF NoPrice
  <2>3. CASE x # o /\ p = price
    <3>1. ASSUME NEW i \in 1..Len(old), old[i] = x
          PROVE  \E j \in 1..Len(rest) : rest[j] = x
      <4>1. i # k
        BY <3>1, <2>3, <1>3
      <4>2. CASE i < k
        BY <4>2, <3>1, <1>1, <1>3, <1>4
      <4>3. CASE i > k
        <5>1. i - 1 \in 1..(Len(old) - 1) /\ ~(i - 1 < k) /\ (i - 1) + 1 = i
          BY <4>3, <1>1, <1>3
        <5>2. rest[i - 1] = x
          BY <5>1, <3>1, <1>4
        <5>3. QED
          BY <5>1, <5>2, <1>4
      <4>4. QED
        BY <4>1, <4>2, <4>3, <1>1, <1>3
    <3>2. ASSUME NEW j \in 1..Len(rest), rest[j] = x
          PROVE  \E i \in 1..Len(old) : old[i] = x
      BY <3>2, <1>f
    <3>3. QED
      BY <3>1, <3>2, <2>0, <2>3, <1>6
  <2>4. CASE x # o /\ p # price
    BY <2>0, <2>4, <1>6
  <2>5. QED
    BY <2>1, <2>2, <2>3, <2>4
<1>11. QueuedOnce(c)
  <2> SUFFICES ASSUME NEW p \in Prices,
                      NEW i \in 1..Len(c.queue[p]), NEW j \in 1..Len(c.queue[p]),
                      c.queue[p][i] = c.queue[p][j]
               PROVE  i = j
    BY DEF QueuedOnce
  <2>1. CASE p = price
    <3>1. /\ i \in 1..Len(rest) /\ j \in 1..Len(rest)
          /\ rest[i] = rest[j]
      BY <2>1, <1>6
    <3>2. /\ from(i) \in 1..Len(old) /\ from(j) \in 1..Len(old)
          /\ old[from(i)] = old[from(j)]
      BY <3>1, <1>f
    <3>3. from(i) = from(j)
      BY <3>2, <1>8
    <3>4. QED
      BY <3>1, <3>3, <1>f
  <2>2. CASE p # price
    BY <2>2, <1>6 DEF WellFormed, QueuedOnce
  <2>3. QED
    BY <2>1, <2>2
<1>12. QED
  BY <1>5, <1>6, <1>7, <1>10, <1>11 DEF WellFormed, c

\* Dropping stale prices changes the heap alone, and keeps every live price.
LEMMA CleanStaleHeapTopWellFormed ==
    ASSUME NEW b \in BookSides, WellFormed(b), NEW side \in Sides
    PROVE  /\ CleanStaleHeapTop(b, side) \in BookSides
           /\ WellFormed(CleanStaleHeapTop(b, side))
           /\ CleanStaleHeapTop(b, side).levels = b.levels
           /\ CleanStaleHeapTop(b, side).queue = b.queue
           /\ CleanStaleHeapTop(b, side).orderToPrice = b.orderToPrice
<1> DEFINE c == CleanStaleHeapTop(b, side)
<1>1. c \in BookSides
  BY DEF BookSides, CleanStaleHeapTop
<1>2. /\ c.levels = b.levels
      /\ c.queue = b.queue
      /\ c.orderToPrice = b.orderToPrice
      /\ c.heap = [p \in Prices |->
            IF \E q \in b.levels : b.heap[q] > 0 /\ ~Better(side, p, q)
            THEN b.heap[p] ELSE 0]
  BY DEF BookSides, CleanStaleHeapTop
<1>3. \A p \in b.levels : ~Better(side, p, p) /\ p \in Prices
  BY PricesAssumption DEF Better, BookSides
<1> HIDE DEF c
<1>4. LevelsInHeap(c)
  BY <1>2, <1>3 DEF WellFormed, LevelsInHeap
<1>5. LookupExact(c) /\ QueuedOnce(c)
  BY <1>2 DEF WellFormed, LookupExact, QueuedOnce
<1>6. QED
  BY <1>1, <1>2, <1>4, <1>5 DEF WellFormed, c

\* What GetBestPrice returns is the price of a level, and no level of the side
\* is better.
LEMMA HeapTopIsBest ==
    ASSUME NEW b \in BookSides, WellFormed(b), NEW side \in Sides,
           NEW p \in Prices, IsHeapTop(CleanStaleHeapTop(b, side), side, p)
    PROVE  p \in b.levels /\ \A q \in b.levels : ~Better(side, q, p)
<1> DEFINE c == CleanStaleHeapTop(b, side)
<1>1. \A x \in Prices : c.heap[x] =
        IF \E q \in b.levels : b.heap[q] > 0 /\ ~Better(side, x, q)
        THEN b.heap[x] ELSE 0
  BY DEF BookSides, CleanStaleHeapTop
<1>2. \A q \in b.levels : q \in Prices /\ b.heap[q] > 0
  BY DEF WellFormed, LevelsInHeap, BookSides
<1>3. c.heap[p] > 0 /\ \A q \in Prices : c.heap[q] > 0 => ~Better(side, q, p)
  BY DEF IsHeapTop
<1> HIDE DEF c
<1>4. \A q \in b.levels : c.heap[q] > 0
  BY <1>1, <1>2, BetterIsTotal
<1>5. \A q \in b.levels : ~Better(side, q, p)
  BY <1>2, <1>3, <1>4
<1>6. PICK q \in b.levels : ~Better(side, p, q)
  BY <1>1, <1>3
<1>7. q = p
  BY <1>2, <1>5, <1>6, BetterIsTotal
<1>8. QED
  BY <1>5, <1>7

\* When GetBestPrice finds the heap empty, there is no level.
LEMMA EmptyHeapNoLevels ==
    ASSUME NEW b \in BookSides, WellFormed(b), NEW side \in Sides,
           HeapEmpty(CleanStaleHeapTop(b, side))
    PROVE  b.levels = {}
<1>1. /\ CleanStaleHeapTop(b, side).levels = b.levels
      /\ WellFormed(CleanStaleHeapTop(b, side))
  BY CleanStaleHeapTopWellFormed
<1>2. b.levels \subseteq Prices
  BY DEF BookSides
<1>3. QED
  BY <1>1, <1>2 DEF WellFormed, LevelsInHeap, HeapEmpty

\* A side that starts empty is well formed.
LEMMA NewSideWellFormed == NewSide \in BookSides /\ WellFormed(NewSide)
<1>1. <<>> \in Seq(Orders) /\ Len(<<>>) = 0
  BY EmptySeq, LenProperties
<1>2. NewSide \in BookSides
  BY <1>1 DEF NewSide, BookSides
<1>3. QED
  BY <1>1, <1>2, PricesAssumption
  DEF NewSide, WellFormed, LevelsInHeap, LookupExact, QueuedOnce, NoPrice

-----------------------------------------------------------------------------
(***************************************************************************)
(* The engine.                                                             *)
(***************************************************************************)
\* An order that waits for the mutex still has the quantity it came with.
WaitingHasQuantity ==
    \A o \in Orders : pc[o] = "waiting" => qty[o] \in Nat

\* The inductive invariant.  BookNeverCrossed needs to know that an order
\* rests only when the best opposite price does not match it; that needs the
\* heap to show the best level (BookWellFormed), and that in turn that only
\* the mutex holder changes the book (MutualExclusion).
IInv ==
    /\ TypeOK
    /\ MutualExclusion
    /\ BookWellFormed
    /\ OnlyOpenLimitOrdersRest
    /\ BookNeverCrossed
    /\ FillsAtBestPrice
    /\ WaitingHasQuantity

-----------------------------------------------------------------------------
\* There are two sides, and each is the other's opposite.
LEMMA SidesFacts ==
    ASSUME NEW side \in Sides
    PROVE  /\ Opposite(side) \in Sides
           /\ Opposite(side) # side
           /\ Sides = {side, Opposite(side)}
BY DEF Sides, Opposite

\* A handler that got past the checks holds an order with these fields.
LEMMA RequestFields ==
    ASSUME IInv, NEW o \in Orders,
           pc[o] \in {"waiting", "select", "fill", "returned"}
    PROVE  /\ request[o] \in RequestType
           /\ Side(o) \in Sides
           /\ request[o].balance \in Int
           /\ ~IsMarket(o) => request[o].limit \in Prices
<1>1. request[o] \in Requests /\ Valid(request[o])
  BY DEF IInv, MutualExclusion
<1>2. request[o] \in RequestType
  BY <1>1, RequestsAssumption
<1>3. QED
  BY <1>1, <1>2, RequestsAssumption DEF RequestType, Side, IsMarket, Sides

\* What the invariant says of both sides of the book.
LEMMA BookFacts ==
    ASSUME IInv, NEW side \in Sides
    PROVE  book[side] \in BookSides /\ WellFormed(book[side])
BY DEF IInv, TypeOK, BookWellFormed

\* A queue with orders in it has a front, and the front rests.
LEMMA FrontRests ==
    ASSUME NEW b \in BookSides, WellFormed(b), NEW p \in Prices, b.queue[p] # <<>>
    PROVE  b.queue[p][1] \in Orders /\ Resting(b, b.queue[p][1])
<1>1. b.queue[p] \in Seq(Orders)
  BY DEF BookSides
<1>2. Len(b.queue[p]) \in Nat /\ Len(b.queue[p]) # 0
  BY <1>1, LenProperties, EmptySeq
<1>3. 1 \in 1..Len(b.queue[p])
  BY <1>2
<1>4. b.queue[p][1] \in Orders
  BY <1>1, <1>3, ElementOfSeq
<1>5. b.orderToPrice[b.queue[p][1]] = p
  BY <1>3, <1>4 DEF WellFormed, LookupExact
<1>6. QED
  BY <1>4, <1>5, PricesAssumption DEF Resting, NoPrice

-----------------------------------------------------------------------------
\* The invariant holds of an empty book that nobody has called.
LEMMA InitIInv == Init => IInv
<1> SUFFICES ASSUME Init PROVE IInv
  OBVIOUS
<1>1. \A side \in Sides : book[side] = NewSide
  BY DEF Init
<1>2. \A side \in Sides : book[side] \in BookSides /\ WellFormed(book[side])
  BY <1>1, NewSideWellFormed
<1>3. \A side \in Sides, o \in Orders : ~Resting(book[side], o)
  BY <1>1 DEF Resting, NewSide
<1>4. \A side \in Sides : book[side].levels = {}
  BY <1>1 DEF NewSide
<1>5. <<>> \in Seq(Events)
  BY EmptySeq
<1>6. TypeOK
  BY <1>2, <1>5 DEF Init, TypeOK, HandlerStates
<1>7. MutualExclusion
  BY RequestsAssumption DEF Init, MutualExclusion
<1>8. BookNeverCrossed
  BY <1>4 DEF BookNeverCrossed, Sides
<1>9. QED
  BY <1>2, <1>3, <1>6, <1>7, <1>8 DEF Init, IInv, BookWellFormed,
     OnlyOpenLimitOrdersRest, FillsAtBestPrice, WaitingHasQuantity

-----------------------------------------------------------------------------
\* A call that is checked touches neither the book nor the mutex.
LEMMA SubmitIInv ==
    ASSUME IInv, NEW o \in Orders, NEW r \in Requests, Submit(o, r) \/ Reject(o, r)
    PROVE  IInv'
<1> USE DEF IInv
<1>1. /\ pc[o] = "new"
      /\ pc' = [pc EXCEPT ![o] = pc'[o]]
      /\ \/ pc'[o] = "waiting" /\ Valid(r)
         \/ pc'[o] = "rejected"
      /\ request' = [request EXCEPT ![o] = r]
      /\ qty' = [qty EXCEPT ![o] = r.quantity]
      /\ UNCHANGED <<book, lock, remaining, balance, bestPrice>>
  BY DEF Submit, Reject, TypeOK
<1>2. r \in RequestType /\ r.quantity \in Int
  BY RequestsAssumption DEF RequestType
<1>3. events' \in Seq(Events)
  <2>1. RejectedEvent(o, r) \in Events
    BY DEF RejectedEvent, Events
  <2>2. events \in Seq(Events)
    BY DEF TypeOK
  <2>3. Append(events, RejectedEvent(o, r)) \in Seq(Events)
    BY <2>1, <2>2, AppendProperties
  <2>4. events' \in {events, Append(events, RejectedEvent(o, r))}
    BY DEF Submit, Reject
  <2>5. QED
    BY <2>2, <2>3, <2>4
<1>4. TypeOK'
  BY <1>1, <1>2, <1>3 DEF TypeOK, HandlerStates
<1>5. MutualExclusion'
  BY <1>1 DEF MutualExclusion, TypeOK
<1>6. BookWellFormed' /\ BookNeverCrossed'
  BY <1>1 DEF BookWellFormed, BookNeverCrossed
<1>7. OnlyOpenLimitOrdersRest'
  BY <1>1 DEF OnlyOpenLimitOrdersRest, TypeOK, IsMarket, Side
<1>8. FillsAtBestPrice'
  BY <1>1 DEF FillsAtBestPrice, TypeOK, IsMarket, Side
<1>9. WaitingHasQuantity'
  BY <1>1, <1>2 DEF WaitingHasQuantity, TypeOK, Valid
<1>10. QED
  BY <1>4, <1>5, <1>6, <1>7, <1>8, <1>9

\* Taking the mutex.
LEMMA AcceptIInv ==
    ASSUME IInv, NEW o \in Orders, Accept(o)
    PROVE  IInv'
<1> USE DEF IInv
<1>1. /\ pc[o] = "waiting"
      /\ lock = NoOrder
      /\ lock' = o
      /\ pc' = [pc EXCEPT ![o] = "select"]
      /\ remaining' = qty[o]
      /\ balance' = request[o].balance
      /\ events' = Append(events, PlacedEvent(o))
      /\ UNCHANGED <<request, qty, book, bestPrice>>
  BY DEF Accept
<1>2. request[o].balance \in Int
  BY <1>1, RequestFields
<1>3. events' \in Seq(Events)
  <2>1. PlacedEvent(o) \in Events
    BY DEF PlacedEvent, Events
  <2>2. QED
    BY <1>1, <2>1, AppendProperties DEF TypeOK
<1>4. TypeOK'
  BY <1>1, <1>2, <1>3 DEF TypeOK, HandlerStates, WaitingHasQuantity
<1>5. MutualExclusion'
  BY <1>1, RequestsAssumption DEF MutualExclusion, TypeOK
<1>6. BookWellFormed' /\ BookNeverCrossed'
  BY <1>1 DEF BookWellFormed, BookNeverCrossed
<1>7. OnlyOpenLimitOrdersRest'
  BY <1>1 DEF OnlyOpenLimitOrdersRest, TypeOK, IsMarket, Side
<1>8. FillsAtBestPrice'
  BY <1>1 DEF FillsAtBestPrice, TypeOK, IsMarket, Side
<1>9. WaitingHasQuantity'
  BY <1>1 DEF WaitingHasQuantity, TypeOK
<1>10. QED
  BY <1>4, <1>5, <1>6, <1>7, <1>8, <1>9

\* Choosing a level: the heap shows the best one, and the taker agrees to it.
LEMMA SelectLevelIInv ==
    ASSUME IInv, NEW o \in Orders, SelectLevel(o)
    PROVE  IInv'
<1> DEFINE opposite == Opposite(Side(o))
<1> USE DEF IInv
<1>1. PICK p \in Prices :
        /\ IsHeapTop(FreshOpposite(o), opposite, p)
        /\ Matchable(o, p)
        /\ bestPrice' = p
  BY DEF SelectLevel
<1>2. /\ pc[o] = "select"
      /\ book' = [book EXCEPT ![opposite] = FreshOpposite(o)]
      /\ pc' = [pc EXCEPT ![o] = "fill"]
      /\ UNCHANGED <<request, qty, lock, remaining, balance, events>>
  BY DEF SelectLevel
<1>3. Side(o) \in Sides /\ opposite \in Sides
  BY <1>2, RequestFields, SidesFacts
<1>4. book[opposite] \in BookSides /\ WellFormed(book[opposite])
  BY <1>3, BookFacts
<1>5. /\ FreshOpposite(o) \in BookSides
      /\ WellFormed(FreshOpposite(o))
      /\ FreshOpposite(o).levels = book[opposite].levels
      /\ FreshOpposite(o).orderToPrice = book[opposite].orderToPrice
  BY <1>3, <1>4, CleanStaleHeapTopWellFormed DEF FreshOpposite
<1>6. \A q \in book[opposite].levels : ~Better(opposite, q, p)
  BY <1>1, <1>3, <1>4, HeapTopIsBest DEF FreshOpposite
<1>7. /\ book' \in [Sides -> BookSides]
      /\ \A side \in Sides :
            /\ WellFormed(book'[side])
            /\ book'[side].levels = book[side].levels
            /\ book'[side].orderToPrice = book[side].orderToPrice
  BY <1>2, <1>5 DEF TypeOK, BookWellFormed
<1>8. TypeOK'
  BY <1>1, <1>2, <1>7 DEF TypeOK, HandlerStates
<1>9. MutualExclusion'
  BY <1>2 DEF MutualExclusion, TypeOK
<1>10. BookWellFormed'
  BY <1>7 DEF BookWellFormed
<1>11. OnlyOpenLimitOrdersRest'
  BY <1>2, <1>7 DEF OnlyOpenLimitOrdersRest, TypeOK, IsMarket, Side, Resting
<1>12. BookNeverCrossed'
  BY <1>7 DEF BookNeverCrossed, Sides
<1>13. FillsAtBestPrice'
  <2> SUFFICES ASSUME NEW x \in Orders, pc'[x] = "fill"
               PROVE  /\ bestPrice' \in Prices
                      /\ \A q \in book'[Opposite(Side(x)')].levels :
                            ~Better(Opposite(Side(x)'), q, bestPrice')
                      /\ ~IsMarket(x)' =>
                            ~Better(Opposite(Side(x)'), request'[x].limit, bestPrice')
    BY DEF FillsAtBestPrice
  <2>1. x = o
    BY <1>2 DEF MutualExclusion, TypeOK
  <2>2. Side(x)' = Side(o) /\ IsMarket(x)' = IsMarket(o) /\ request'[x] = request[o]
    BY <2>1, <1>2 DEF Side, IsMarket
  <2>3. QED
    BY <2>2, <1>1, <1>3, <1>6, <1>7 DEF Matchable
<1>14. WaitingHasQuantity'
  BY <1>2 DEF WaitingHasQuantity, TypeOK
<1>15. QED
  BY <1>8, <1>9, <1>10, <1>11, <1>12, <1>13, <1>14

\* Leaving a level changes the handler's place alone.
LEMMA LeaveLevelIInv ==
    ASSUME IInv, NEW o \in Orders, LeaveLevel(o)
    PROVE  IInv'
<1> USE DEF IInv
<1>1. /\ pc[o] = "fill"
      /\ pc' = [pc EXCEPT ![o] = "select"]
      /\ UNCHANGED <<request, qty, book, lock, remaining, balance, bestPrice, events>>
  BY DEF LeaveLevel
<1>2. TypeOK'
  BY <1>1 DEF TypeOK, HandlerStates
<1>3. MutualExclusion'
  BY <1>1 DEF MutualExclusion, TypeOK
<1>4. BookWellFormed' /\ BookNeverCrossed'
  BY <1>1 DEF BookWellFormed, BookNeverCrossed
<1>5. OnlyOpenLimitOrdersRest'
  BY <1>1 DEF OnlyOpenLimitOrdersRest, TypeOK, IsMarket, Side
<1>6. FillsAtBestPrice'
  BY <1>1 DEF FillsAtBestPrice, TypeOK, IsMarket, Side
<1>7. WaitingHasQuantity'
  BY <1>1 DEF WaitingHasQuantity, TypeOK
<1>8. QED
  BY <1>2, <1>3, <1>4, <1>5, <1>6, <1>7

\* Cancelling takes one order out of one side.
LEMMA CancelIInv ==
    ASSUME IInv, NEW o \in Orders, NEW side \in Sides, Cancel(o, side)
    PROVE  IInv'
<1> USE DEF IInv
<1>1. /\ lock = NoOrder
      /\ Resting(book[side], o)
      /\ book' = [book EXCEPT ![side] = RemoveOrder(book[side], o, qty[o])]
      /\ events' = Append(events, CancelledEvent(o, qty[o]))
      /\ UNCHANGED <<request, qty, pc, lock, remaining, balance, bestPrice>>
  BY DEF Cancel
<1>2. book[side] \in BookSides /\ WellFormed(book[side]) /\ qty[o] \in Int
  BY BookFacts DEF TypeOK
<1> DEFINE c == RemoveOrder(book[side], o, qty[o])
<1>3. /\ c \in BookSides
      /\ WellFormed(c)
      /\ c.levels \subseteq book[side].levels
      /\ \A x \in Orders :
            c.orderToPrice[x] = IF x = o THEN NoPrice ELSE book[side].orderToPrice[x]
  BY <1>1, <1>2, RemoveOrderWellFormed
<1> HIDE DEF c
<1>4. /\ book' \in [Sides -> BookSides]
      /\ \A s \in Sides :
            /\ WellFormed(book'[s])
            /\ book'[s].levels \subseteq book[s].levels
            /\ \A x \in Orders : Resting(book'[s], x) =>
                  /\ Resting(book[s], x)
                  /\ book'[s].orderToPrice[x] = book[s].orderToPrice[x]
  BY <1>1, <1>3 DEF TypeOK, BookWellFormed, Resting, c
<1>5. events' \in Seq(Events)
  <2>1. CancelledEvent(o, qty[o]) \in Events
    BY <1>2 DEF CancelledEvent, Events
  <2>2. QED
    BY <1>1, <2>1, AppendProperties DEF TypeOK
<1>6. TypeOK'
  BY <1>1, <1>4, <1>5 DEF TypeOK
<1>7. MutualExclusion'
  BY <1>1 DEF MutualExclusion
<1>8. BookWellFormed'
  BY <1>4 DEF BookWellFormed
<1>9. OnlyOpenLimitOrdersRest'
  BY <1>1, <1>4 DEF OnlyOpenLimitOrdersRest, IsMarket, Side
<1>10. BookNeverCrossed'
  BY <1>4 DEF BookNeverCrossed, Sides
<1>11. FillsAtBestPrice'
  <2>1. \A x \in Orders : pc[x] # "fill"
    BY <1>1, RequestsAssumption DEF MutualExclusion
  <2>2. QED
    BY <2>1, <1>1 DEF FillsAtBestPrice
<1>12. WaitingHasQuantity'
  BY <1>1 DEF WaitingHasQuantity
<1>13. QED
  BY <1>6, <1>7, <1>8, <1>9, <1>10, <1>11, <1>12

\* A match is never larger than what the taker wants or the maker has.
LEMMA MatchQuantityFits ==
    ASSUME NEW o \in Orders, NEW maker \in Orders,
           remaining \in Nat, remaining > 0, qty[maker] \in Int, qty[maker] > 0,
           balance \in Int, bestPrice \in Nat \ {0},
           IsMarketBuy(o) => balance >= bestPrice
    PROVE  /\ MatchQuantity(o, maker) \in Nat \ {0}
           /\ MatchQuantity(o, maker) <= remaining
           /\ MatchQuantity(o, maker) <= qty[maker]
<1>1. CASE ~IsMarketBuy(o)
  BY <1>1 DEF MatchQuantity, Least
<1>2. CASE IsMarketBuy(o)
  <2> DEFINE affordable == balance \div bestPrice
  <2>1. affordable \in Int /\ affordable >= 1
    BY <1>2
  <2> HIDE DEF affordable
  <2>2. MatchQuantity(o, maker) = Least(Least(remaining, qty[maker]), affordable)
    BY <1>2 DEF MatchQuantity, affordable
  <2>3. QED
    BY <2>1, <2>2 DEF Least
<1>3. QED
  BY <1>1, <1>2

\* A market buy never owes more than it has.
LEMMA MatchQuantityPaid ==
    ASSUME NEW o \in Orders, NEW maker \in Orders, IsMarketBuy(o),
           remaining \in Nat, qty[maker] \in Int, balance \in Int, bestPrice \in Nat \ {0}
    PROVE  bestPrice * MatchQuantity(o, maker) <= balance
<1> DEFINE affordable == balance \div bestPrice
           quantity == MatchQuantity(o, maker)
<1>1. affordable \in Int /\ bestPrice * affordable <= balance
  OBVIOUS
<1>2. quantity \in Int /\ quantity <= affordable
  <2> HIDE DEF affordable
  <2>1. quantity = Least(Least(remaining, qty[maker]), affordable)
    BY DEF MatchQuantity, affordable
  <2>2. QED
    BY <1>1, <2>1 DEF Least
<1> HIDE DEF affordable, quantity
<1>3. bestPrice * quantity <= bestPrice * affordable
  BY <1>1, <1>2
<1>4. QED
  BY <1>1, <1>2, <1>3 DEF quantity

\* One iteration of the inner loop when it trades quantity with maker.
Fills(o, maker, quantity) ==
    /\ maker = book[Opposite(Side(o))].queue[bestPrice][1]
    /\ Resting(book[Opposite(Side(o))], maker)
    /\ pc[maker] = "returned"
    /\ qty[maker] > 0
    /\ quantity = MatchQuantity(o, maker)
    /\ quantity <= remaining
    /\ quantity <= qty[maker]
    /\ IsMarketBuy(o) => bestPrice * quantity <= balance
    /\ remaining' = remaining - quantity
    /\ qty' = [qty EXCEPT ![maker] = qty[maker] - quantity]
    /\ balance' = IF IsMarketBuy(o) THEN balance - bestPrice * quantity ELSE balance
    /\ book' = IF qty[maker] = quantity
               THEN [book EXCEPT ![Opposite(Side(o))] =
                        RemoveOrder(book[Opposite(Side(o))], maker, 0)]
               ELSE book
    /\ events' = events \o
         <<IF Side(o) = "Buy" THEN TradeEvent(o, maker, bestPrice, quantity)
                              ELSE TradeEvent(maker, o, bestPrice, quantity),
           IF qty[maker] = quantity THEN FilledEvent(maker, qty[maker])
           ELSE PartiallyFilledEvent(maker, quantity, qty[maker] - quantity)>>
    /\ UNCHANGED <<request, pc, lock, bestPrice>>

\* Every iteration of the inner loop trades something with the front.
LEMMA FillFrontTrades ==
    ASSUME IInv, NEW o \in Orders, FillFront(o)
    PROVE  /\ Side(o) \in Sides
           /\ Opposite(Side(o)) \in Sides
           /\ bestPrice \in Prices
           /\ pc[o] = "fill"
           /\ \E maker \in Orders, quantity \in Nat \ {0} : Fills(o, maker, quantity)
<1> DEFINE opposite == Opposite(Side(o))
           b == book[opposite]
           maker == b.queue[bestPrice][1]
           quantity == MatchQuantity(o, maker)
           left == qty[maker] - quantity
<1> USE DEF IInv
<1>1. pc[o] = "fill" /\ MayFill(o)
  BY DEF FillFront
<1>2. Side(o) \in Sides /\ opposite \in Sides /\ bestPrice \in Prices
  BY <1>1, RequestFields, SidesFacts DEF FillsAtBestPrice
<1>3. b \in BookSides /\ WellFormed(b)
  BY <1>2, BookFacts
<1>4. maker \in Orders /\ Resting(b, maker)
  BY <1>1, <1>2, <1>3, FrontRests DEF MayFill
<1>5. /\ pc[maker] = "returned"
      /\ qty[maker] \in Int
      /\ qty[maker] > 0
  BY <1>2, <1>4 DEF OnlyOpenLimitOrdersRest, TypeOK
<1> HIDE DEF maker, b
<1>6. remaining \in Nat /\ remaining > 0 /\ balance \in Int /\ bestPrice \in Nat \ {0}
  BY <1>1, <1>2, PricesAssumption DEF MayFill, TypeOK
<1>7. /\ quantity \in Nat \ {0}
      /\ quantity <= remaining
      /\ quantity <= qty[maker]
  <2>1. IsMarketBuy(o) => balance >= bestPrice
    BY <1>1 DEF MayFill
  <2>2. QED
    BY <1>4, <1>5, <1>6, <2>1, MatchQuantityFits
<1>8. IsMarketBuy(o) => bestPrice * quantity <= balance
  BY <1>4, <1>5, <1>6, MatchQuantityPaid
<1>9. /\ remaining' = remaining - quantity
      /\ qty' = [qty EXCEPT ![maker] = left]
      /\ balance' = IF IsMarketBuy(o) THEN balance - bestPrice * quantity ELSE balance
      /\ book' = IF left = 0
                 THEN [book EXCEPT ![opposite] = RemoveOrder(b, maker, 0)] ELSE book
      /\ events' = events \o
           <<IF Side(o) = "Buy" THEN TradeEvent(o, maker, bestPrice, quantity)
                                ELSE TradeEvent(maker, o, bestPrice, quantity),
             IF left = 0 THEN FilledEvent(maker, qty[maker])
             ELSE PartiallyFilledEvent(maker, quantity, left)>>
      /\ UNCHANGED <<request, pc, lock, bestPrice>>
  <2>1. quantity # 0
    BY <1>7
  <2>2. QED
    BY <2>1, Zenon DEF FillFront, FrontOrder, maker, b
<1>10. left = 0 <=> qty[maker] = quantity
  BY <1>5, <1>7
<1>11. quantity = MatchQuantity(o, maker)
  OBVIOUS
<1> HIDE DEF quantity
<1>12. Fills(o, maker, quantity)
  BY <1>4, <1>5, <1>7, <1>8, <1>9, <1>10, <1>11, Zenon DEF Fills, maker, b
<1>13. QED
  BY <1>1, <1>2, <1>4, <1>7, <1>12

\* What a trade leaves of the book: the maker goes when nothing of it is left.
LEMMA FillsBook ==
    ASSUME IInv, NEW o \in Orders, NEW maker \in Orders, NEW quantity \in Nat \ {0},
           Opposite(Side(o)) \in Sides, Fills(o, maker, quantity)
    PROVE  /\ book' \in [Sides -> BookSides]
           /\ \A s \in Sides :
                /\ WellFormed(book'[s])
                /\ book'[s].levels \subseteq book[s].levels
                /\ \A x \in Orders :
                    /\ Resting(book'[s], x) <=>
                         Resting(book[s], x) /\ ~(x = maker /\ qty[maker] = quantity)
                    /\ Resting(book'[s], x) =>
                         book'[s].orderToPrice[x] = book[s].orderToPrice[x]
<1> DEFINE opposite == Opposite(Side(o))
           b == book[opposite]
           c == RemoveOrder(b, maker, 0)
<1> USE DEF IInv
<1>1. b \in BookSides /\ WellFormed(b) /\ Resting(b, maker)
  BY BookFacts DEF Fills
<1>2. /\ c \in BookSides
      /\ WellFormed(c)
      /\ c.levels \subseteq b.levels
      /\ \A x \in Orders :
            c.orderToPrice[x] = IF x = maker THEN NoPrice ELSE b.orderToPrice[x]
  BY <1>1, RemoveOrderWellFormed
<1>3. book' = IF qty[maker] = quantity THEN [book EXCEPT ![opposite] = c] ELSE book
  BY DEF Fills
<1>4. \A s \in Sides : Resting(book[s], maker) => s = opposite
  BY <1>1 DEF OnlyOpenLimitOrdersRest
<1> HIDE DEF c
<1>5. CASE qty[maker] = quantity
  BY <1>2, <1>3, <1>4, <1>5 DEF TypeOK, BookWellFormed, Resting
<1>6. CASE qty[maker] # quantity
  BY <1>3, <1>6 DEF TypeOK, BookWellFormed
<1>7. QED
  BY <1>5, <1>6

\* One iteration of the inner loop: the front of the best level trades, and
\* leaves the book when nothing of it is left.
LEMMA FillFrontIInv ==
    ASSUME IInv, NEW o \in Orders, FillFront(o)
    PROVE  IInv'
<1> USE DEF IInv
<1>1. PICK maker \in Orders, quantity \in Nat \ {0} : Fills(o, maker, quantity)
  BY FillFrontTrades
<1> DEFINE left == qty[maker] - quantity
<1>2. Side(o) \in Sides /\ Opposite(Side(o)) \in Sides /\ bestPrice \in Prices
  BY FillFrontTrades
<1>4. qty[maker] \in Int /\ qty[maker] > 0
  BY <1>1 DEF Fills, TypeOK
<1>6. quantity <= remaining /\ quantity <= qty[maker]
  BY <1>1 DEF Fills
<1>7. left \in Nat
  BY <1>4, <1>6
<1>8. /\ remaining' = remaining - quantity
      /\ qty' = [qty EXCEPT ![maker] = left]
      /\ balance' = IF IsMarketBuy(o) THEN balance - bestPrice * quantity ELSE balance
      /\ UNCHANGED <<request, pc, lock, bestPrice>>
  BY <1>1 DEF Fills
<1> HIDE DEF left
<1>10. /\ book' \in [Sides -> BookSides]
       /\ \A s \in Sides :
            /\ WellFormed(book'[s])
            /\ book'[s].levels \subseteq book[s].levels
            /\ \A x \in Orders : Resting(book'[s], x) =>
                  /\ Resting(book[s], x)
                  /\ book'[s].orderToPrice[x] = book[s].orderToPrice[x]
  BY <1>1, <1>2, FillsBook
<1>11. left = 0 => \A s \in Sides : ~Resting(book'[s], maker)
  BY <1>1, <1>2, <1>4, FillsBook DEF left
<1>12. events' \in Seq(Events)
  <2> DEFINE trade == IF Side(o) = "Buy" THEN TradeEvent(o, maker, bestPrice, quantity)
                                         ELSE TradeEvent(maker, o, bestPrice, quantity)
             fill == IF qty[maker] = quantity THEN FilledEvent(maker, qty[maker])
                     ELSE PartiallyFilledEvent(maker, quantity, qty[maker] - quantity)
  <2>1. trade \in Events
    BY <1>2 DEF TradeEvent, Events
  <2>2. fill \in Events
    BY <1>4 DEF FilledEvent, PartiallyFilledEvent, Events
  <2> HIDE DEF trade, fill
  <2>3. events \in Seq(Events) /\ <<trade, fill>> \in Seq(Events)
    BY <2>1, <2>2 DEF TypeOK
  <2>4. events \o <<trade, fill>> \in Seq(Events)
    BY <2>3, ConcatProperties
  <2>5. events' = events \o <<trade, fill>>
    BY <1>1, Zenon DEF Fills, trade, fill
  <2>6. QED
    BY <2>4, <2>5
<1>13. TypeOK'
  <2>1. remaining' \in Nat
    BY <1>6, <1>8 DEF TypeOK
  <2>2. balance' \in Int
    <3>1. bestPrice * quantity \in Int /\ balance \in Int
      BY <1>2, PricesAssumption DEF TypeOK
    <3>2. QED
      BY <3>1, <1>8
  <2>3. qty' \in [Orders -> Int]
    <3>1. left \in Int /\ qty \in [Orders -> Int]
      BY <1>7 DEF TypeOK
    <3>2. QED
      BY <3>1, <1>8
  <2>4. QED
    BY <2>1, <2>2, <2>3, <1>8, <1>10, <1>12 DEF TypeOK
<1>14. MutualExclusion'
  BY <1>8 DEF MutualExclusion
<1>15. BookWellFormed'
  BY <1>10 DEF BookWellFormed
<1>16. OnlyOpenLimitOrdersRest'
  <2> SUFFICES ASSUME NEW s \in Sides, NEW x \in Orders, Resting(book'[s], x)
               PROVE  /\ pc'[x] = "returned"
                      /\ ~IsMarket(x)'
                      /\ Side(x)' = s
                      /\ request'[x].limit = book'[s].orderToPrice[x]
                      /\ qty'[x] > 0
    BY DEF OnlyOpenLimitOrdersRest
  <2>1. Resting(book[s], x) /\ book'[s].orderToPrice[x] = book[s].orderToPrice[x]
    BY <1>10
  <2>2. qty'[x] > 0
    BY <2>1, <1>7, <1>8, <1>11 DEF OnlyOpenLimitOrdersRest, TypeOK
  <2>3. QED
    BY <2>1, <2>2, <1>8 DEF OnlyOpenLimitOrdersRest, IsMarket, Side
<1>17. BookNeverCrossed'
  BY <1>10 DEF BookNeverCrossed, Sides
<1>18. FillsAtBestPrice'
  <2> SUFFICES ASSUME NEW x \in Orders, pc'[x] = "fill"
               PROVE  /\ bestPrice' \in Prices
                      /\ \A q \in book'[Opposite(Side(x)')].levels :
                            ~Better(Opposite(Side(x)'), q, bestPrice')
                      /\ ~IsMarket(x)' =>
                            ~Better(Opposite(Side(x)'), request'[x].limit, bestPrice')
    BY DEF FillsAtBestPrice
  <2>1. Side(x)' = Side(x) /\ IsMarket(x)' = IsMarket(x) /\ pc[x] = "fill"
    BY <1>8 DEF Side, IsMarket
  <2>2. Opposite(Side(x)) \in Sides
    BY <2>1, RequestFields, SidesFacts
  <2>3. book'[Opposite(Side(x))].levels \subseteq book[Opposite(Side(x))].levels
    BY <2>2, <1>10
  <2>4. QED
    BY <2>1, <2>3, <1>8 DEF FillsAtBestPrice
<1>19. WaitingHasQuantity'
  BY <1>7, <1>8 DEF WaitingHasQuantity, TypeOK
<1>20. QED
  BY <1>13, <1>14, <1>15, <1>16, <1>17, <1>18, <1>19

\* Leaving the outer loop with something left means that the taker goes on at
\* no opposite level.
LEMMA ExitMeansNoMatch ==
    ASSUME IInv, NEW o \in Orders, pc[o] = "select", remaining > 0,
           NEW opposite, ExitLoop(o, opposite)
    PROVE  \A q \in book[Opposite(Side(o))].levels : ~Matchable(o, q)
<1> DEFINE b == book[Opposite(Side(o))]
           side == Opposite(Side(o))
<1>1. /\ Side(o) \in Sides /\ side \in Sides
      /\ ~IsMarket(o) => request[o].limit \in Prices
  BY RequestFields, SidesFacts
<1>2. b \in BookSides /\ WellFormed(b)
  BY <1>1, BookFacts
<1>3. opposite = CleanStaleHeapTop(b, side) /\ balance \in Int
  BY DEF ExitLoop, FreshOpposite, IInv, TypeOK
<1>4. CASE HeapEmpty(opposite)
  BY <1>1, <1>2, <1>3, <1>4, EmptyHeapNoLevels
<1>5. CASE \E p \in Prices : IsHeapTop(opposite, side, p) /\ ~Matchable(o, p)
  <2>1. PICK p \in Prices : IsHeapTop(opposite, side, p) /\ ~Matchable(o, p)
    BY <1>5
  <2>2. \A q \in b.levels : ~Better(side, q, p)
    BY <1>1, <1>2, <1>3, <2>1, HeapTopIsBest
  <2>3. \A q \in b.levels : q \in Nat
    BY <1>2, PricesAssumption DEF BookSides
  <2>4. p \in Nat /\ (~IsMarket(o) => request[o].limit \in Nat)
    BY <1>1, PricesAssumption
  <2>5. CASE IsMarket(o)
    <3>1. Side(o) = "Buy" /\ side = "Sell" /\ balance < p
      BY <1>3, <2>1, <2>4, <2>5 DEF Matchable, Opposite
    <3>2. QED
      BY <1>3, <2>2, <2>3, <2>4, <2>5, <3>1 DEF Matchable, Better
  <2>6. CASE ~IsMarket(o)
    <3>1. Better(side, request[o].limit, p)
      BY <2>1, <2>6 DEF Matchable
    <3>2. QED
      BY <2>2, <2>3, <2>4, <2>6, <3>1 DEF Matchable, Better
  <2>7. QED
    BY <2>5, <2>6
<1>6. QED
  BY <1>4, <1>5 DEF ExitLoop

\* The events about the taker are well typed.
LEMMA TakerEventsType ==
    ASSUME NEW o \in Orders, remaining \in Nat, qty[o] \in Int
    PROVE  TakerEvents(o) \in Seq(Events)
<1>1. CASE remaining = 0
  <2>1. FilledEvent(o, qty[o]) \in Events
    BY DEF FilledEvent, Events
  <2>2. TakerEvents(o) = <<FilledEvent(o, qty[o])>>
    BY <1>1 DEF TakerEvents
  <2>3. QED
    BY <2>1, <2>2
<1>2. CASE remaining > 0
  <2> DEFINE partial == PartiallyFilledEvent(o, qty[o] - remaining, remaining)
             cancel == CancelledEvent(o, remaining)
             first == IF remaining < qty[o] THEN <<partial>> ELSE <<>>
             second == IF IsMarket(o) THEN <<cancel>> ELSE <<>>
  <2>1. partial \in Events /\ cancel \in Events
    <3>1. qty[o] - remaining \in Int
      OBVIOUS
    <3>2. QED
      BY <3>1 DEF PartiallyFilledEvent, CancelledEvent, Events
  <2> HIDE DEF partial, cancel
  <2>2. first \in Seq(Events) /\ second \in Seq(Events)
    BY <2>1
  <2>3. TakerEvents(o) = first \o second
    <3>1. remaining # 0
      BY <1>2
    <3>2. QED
      BY <1>2, <3>1, Zenon DEF TakerEvents, partial, cancel
  <2> HIDE DEF first, second
  <2>4. QED
    BY <2>2, <2>3, ConcatProperties
<1>3. QED
  BY <1>1, <1>2

\* What the end of a match leaves: the taker rests at its limit with what
\* remains of it, or the book holds the orders it held before.
LEMMA FinishBook ==
    ASSUME IInv, NEW o \in Orders, Finish(o)
    PROVE  /\ Side(o) \in Sides
           /\ Opposite(Side(o)) \in Sides \ {Side(o)}
           /\ Rests(o) => request[o].limit \in Prices
           /\ qty' = IF Rests(o) THEN [qty EXCEPT ![o] = remaining] ELSE qty
           /\ book' \in [Sides -> BookSides]
           /\ \A s \in Sides :
                LET rests == s = Side(o) /\ Rests(o)
                IN  /\ WellFormed(book'[s])
                    /\ book'[s].levels = book[s].levels
                            \cup (IF rests THEN {request[o].limit} ELSE {})
                    /\ \A x \in Orders : book'[s].orderToPrice[x] =
                            IF rests /\ x = o THEN request[o].limit
                            ELSE book[s].orderToPrice[x]
                    /\ \A p \in Prices : book'[s].queue[p] =
                            IF rests /\ p = request[o].limit
                            THEN Append(book[s].queue[p], o) ELSE book[s].queue[p]
<1> DEFINE side == Side(o)
           against == Opposite(Side(o))
           limit == request[o].limit
           mine == AddOrder(book[side], o, limit, remaining)
<1> USE DEF IInv
<1>1. PICK opposite \in {book[against], FreshOpposite(o)} :
        IF Rests(o)
        THEN /\ qty' = [qty EXCEPT ![o] = remaining]
             /\ book' = [book EXCEPT ![against] = opposite, ![side] =
                                AddOrder(@, o, limit, remaining)]
        ELSE /\ qty' = qty
             /\ book' = [book EXCEPT ![against] = opposite]
  BY DEF Finish
<1>2. pc[o] = "select"
  BY DEF Finish
<1>3. /\ side \in Sides /\ against \in Sides /\ against # side
      /\ Sides = {side, against}
      /\ remaining \in Nat
  BY <1>2, RequestFields, SidesFacts DEF TypeOK
<1>4. /\ book[side] \in BookSides /\ WellFormed(book[side])
      /\ book[against] \in BookSides /\ WellFormed(book[against])
  BY <1>3, BookFacts
<1>5. /\ opposite \in BookSides
      /\ WellFormed(opposite)
      /\ opposite.levels = book[against].levels
      /\ opposite.queue = book[against].queue
      /\ opposite.orderToPrice = book[against].orderToPrice
  BY <1>1, <1>3, <1>4, CleanStaleHeapTopWellFormed DEF FreshOpposite
<1>6. ~Resting(book[side], o)
  BY <1>2, <1>3 DEF OnlyOpenLimitOrdersRest
<1>7. Rests(o) => limit \in Prices
  BY <1>2, RequestFields DEF Rests
<1>8. ASSUME Rests(o)
      PROVE  /\ mine \in BookSides
             /\ WellFormed(mine)
             /\ mine.levels = book[side].levels \cup {limit}
             /\ \A x \in Orders : mine.orderToPrice[x] =
                    IF x = o THEN limit ELSE book[side].orderToPrice[x]
             /\ \A p \in Prices : mine.queue[p] =
                    IF p = limit THEN Append(book[side].queue[p], o)
                    ELSE book[side].queue[p]
  <2>1. limit \in Prices
    BY <1>7, <1>8
  <2>2. mine \in BookSides /\ WellFormed(mine)
    BY <1>3, <1>4, <1>6, <2>1, AddOrderWellFormed
  <2>3. mine.levels = book[side].levels \cup {limit}
    BY DEF AddOrder
  <2>4. \A x \in Orders : mine.orderToPrice[x] =
            IF x = o THEN limit ELSE book[side].orderToPrice[x]
    BY <1>4 DEF AddOrder, BookSides
  <2>5. \A p \in Prices : mine.queue[p] =
            IF p = limit THEN Append(book[side].queue[p], o) ELSE book[side].queue[p]
    BY <1>4 DEF AddOrder, BookSides
  <2>6. QED
    BY <2>2, <2>3, <2>4, <2>5
<1> HIDE DEF mine
<1>9. /\ book'[against] = opposite
      /\ book'[side] = IF Rests(o) THEN mine ELSE book[side]
      /\ book' \in [Sides -> BookSides]
  <2>1. CASE Rests(o)
    BY <2>1, <1>1, <1>3, <1>5, <1>8 DEF TypeOK, mine
  <2>2. CASE ~Rests(o)
    BY <2>2, <1>1, <1>3, <1>4, <1>5 DEF TypeOK
  <2>3. QED
    BY <2>1, <2>2
<1>10. ASSUME NEW s \in Sides
       PROVE  LET rests == s = side /\ Rests(o)
              IN  /\ WellFormed(book'[s])
                  /\ book'[s].levels = book[s].levels \cup (IF rests THEN {limit} ELSE {})
                  /\ \A x \in Orders : book'[s].orderToPrice[x] =
                          IF rests /\ x = o THEN limit ELSE book[s].orderToPrice[x]
                  /\ \A p \in Prices : book'[s].queue[p] =
                          IF rests /\ p = limit
                          THEN Append(book[s].queue[p], o) ELSE book[s].queue[p]
  <2>1. CASE s = against
    BY <2>1, <1>3, <1>5, <1>9
  <2>2. CASE s = side /\ ~Rests(o)
    BY <2>2, <1>4, <1>9
  <2>3. CASE s = side /\ Rests(o)
    BY <2>3, <1>8, <1>9
  <2>4. QED
    BY <2>1, <2>2, <2>3, <1>3
<1>11. qty' = IF Rests(o) THEN [qty EXCEPT ![o] = remaining] ELSE qty
  BY <1>1
<1>12. QED
  BY <1>3, <1>7, <1>9, <1>10, <1>11

\* The end of a match: what is left of a limit order rests, uncrossed.
LEMMA FinishIInv ==
    ASSUME IInv, NEW o \in Orders, Finish(o)
    PROVE  IInv'
<1> DEFINE side == Side(o)
           against == Opposite(Side(o))
           limit == request[o].limit
<1> USE DEF IInv
<1>1. /\ side \in Sides /\ against \in Sides /\ against # side
      /\ Rests(o) => limit \in Prices /\ remaining > 0 /\ ~IsMarket(o)
      /\ qty' = IF Rests(o) THEN [qty EXCEPT ![o] = remaining] ELSE qty
      /\ book' \in [Sides -> BookSides]
  BY FinishBook DEF Rests
<1>2. /\ pc[o] = "select"
      /\ pc' = [pc EXCEPT ![o] = "returned"]
      /\ events' = events \o TakerEvents(o)
      /\ lock' = NoOrder
      /\ remaining' = 0
      /\ balance' = 0
      /\ bestPrice' = NoPrice
      /\ request' = request
  BY DEF Finish
<1>3. remaining \in Nat /\ qty[o] \in Int
  BY DEF TypeOK
<1>8. \A s \in Sides :
        LET rests == s = side /\ Rests(o)
        IN  /\ WellFormed(book'[s])
            /\ book'[s].levels = book[s].levels \cup (IF rests THEN {limit} ELSE {})
            /\ \A x \in Orders : book'[s].orderToPrice[x] =
                    IF rests /\ x = o THEN limit ELSE book[s].orderToPrice[x]
  BY FinishBook
<1>9. TypeOK'
  <2>1. qty' \in [Orders -> Int]
    BY <1>1, <1>3 DEF TypeOK
  <2>2. events' \in Seq(Events)
    BY <1>2, <1>3, TakerEventsType, ConcatProperties DEF TypeOK
  <2>3. QED
    BY <2>1, <2>2, <1>1, <1>2 DEF TypeOK, HandlerStates
<1>10. MutualExclusion'
  BY <1>2, RequestsAssumption DEF MutualExclusion, TypeOK
<1>11. BookWellFormed'
  BY <1>8 DEF BookWellFormed
<1>12. OnlyOpenLimitOrdersRest'
  <2> SUFFICES ASSUME NEW s \in Sides, NEW x \in Orders, Resting(book'[s], x)
               PROVE  /\ pc'[x] = "returned"
                      /\ ~IsMarket(x)'
                      /\ Side(x)' = s
                      /\ request'[x].limit = book'[s].orderToPrice[x]
                      /\ qty'[x] > 0
    BY DEF OnlyOpenLimitOrdersRest
  <2>1. IsMarket(x)' = IsMarket(x) /\ Side(x)' = Side(x) /\ request'[x] = request[x]
    BY <1>2 DEF IsMarket, Side
  <2>2. CASE x = o /\ s = side /\ Rests(o)
    <3>1. book'[s].orderToPrice[x] = limit /\ remaining > 0 /\ ~IsMarket(o)
      BY <2>2, <1>1, <1>8
    <3>2. qty'[x] = remaining /\ pc'[x] = "returned"
      BY <2>2, <1>1, <1>2 DEF TypeOK
    <3>3. QED
      BY <2>1, <2>2, <3>1, <3>2
  <2>3. CASE ~(x = o /\ s = side /\ Rests(o))
    <3>1. Resting(book[s], x) /\ book'[s].orderToPrice[x] = book[s].orderToPrice[x]
      BY <2>3, <1>8 DEF Resting
    <3>2. x # o
      BY <3>1, <1>2 DEF OnlyOpenLimitOrdersRest
    <3>3. pc'[x] = pc[x] /\ qty'[x] = qty[x]
      BY <3>2, <1>1, <1>2 DEF TypeOK
    <3>4. QED
      BY <2>1, <3>1, <3>3 DEF OnlyOpenLimitOrdersRest
  <2>4. QED
    BY <2>2, <2>3
<1>13. BookNeverCrossed'
  <2>1. CASE ~Rests(o)
    BY <2>1, <1>8 DEF BookNeverCrossed, Sides
  <2>2. CASE Rests(o)
    <3>1. \A q \in book[against].levels : Better(against, limit, q)
      <4>1. \E opposite : ExitLoop(o, opposite)
        BY DEF Finish
      <4>2. QED
        BY <2>2, <4>1, <1>1, <1>2, ExitMeansNoMatch DEF Matchable
    <3>2. /\ book'[against].levels = book[against].levels
          /\ book'[side].levels = book[side].levels \cup {limit}
      BY <2>2, <1>1, <1>8
    <3>3. \/ side = "Buy" /\ against = "Sell"
          \/ side = "Sell" /\ against = "Buy"
      BY <1>1 DEF Sides
    <3>4. limit \in Nat /\ \A q \in book[against].levels : q \in Nat
      BY <2>2, <1>1, BookFacts, PricesAssumption DEF BookSides
    <3>5. QED
      BY <3>1, <3>2, <3>3, <3>4 DEF BookNeverCrossed, Better
  <2>3. QED
    BY <2>1, <2>2
<1>14. FillsAtBestPrice'
  BY <1>2 DEF FillsAtBestPrice, MutualExclusion, TypeOK
<1>15. WaitingHasQuantity'
  BY <1>1, <1>2, <1>3 DEF WaitingHasQuantity, TypeOK
<1>16. QED
  BY <1>9, <1>10, <1>11, <1>12, <1>13, <1>14, <1>15

-----------------------------------------------------------------------------
\* A step that changes nothing keeps the invariant.
LEMMA StutterIInv == IInv /\ UNCHANGED vars => IInv'
BY DEF IInv, vars, TypeOK, MutualExclusion, BookWellFormed, OnlyOpenLimitOrdersRest,
       BookNeverCrossed, FillsAtBestPrice, WaitingHasQuantity, IsMarket, Side

\* Every step keeps the invariant: one lemma per action.
LEMMA NextIInv == IInv /\ [Next]_vars => IInv'
<1> SUFFICES ASSUME IInv, [Next]_vars PROVE IInv'
  OBVIOUS
<1>1. CASE UNCHANGED vars
  BY <1>1, StutterIInv
<1>2. ASSUME NEW o \in Orders, NEW r \in Requests, Submit(o, r) \/ Reject(o, r)
      PROVE  IInv'
  BY <1>2, SubmitIInv
<1>3. ASSUME NEW o \in Orders, Accept(o) PROVE IInv'
  BY <1>3, AcceptIInv
<1>4. ASSUME NEW o \in Orders, SelectLevel(o) PROVE IInv'
  BY <1>4, SelectLevelIInv
<1>5. ASSUME NEW o \in Orders, FillFront(o) PROVE IInv'
  BY <1>5, FillFrontIInv
<1>6. ASSUME NEW o \in Orders, LeaveLevel(o) PROVE IInv'
  BY <1>6, LeaveLevelIInv
<1>7. ASSUME NEW o \in Orders, Finish(o) PROVE IInv'
  BY <1>7, FinishIInv
<1>8. ASSUME NEW o \in Orders, NEW side \in Sides, Cancel(o, side) PROVE IInv'
  BY <1>8, CancelIInv
<1>9. QED
  BY <1>1, <1>2, <1>3, <1>4, <1>5, <1>6, <1>7, <1>8 DEF Next

\* The invariant holds in every state of every behavior.
THEOREM Invariance == Spec => []IInv
BY InitIInv, NextIInv, PTL DEF Spec

\* The variables and the published events are well typed, whatever orders and
\* prices there are.
THEOREM TypeCorrect == Spec => []TypeOK
<1>1. IInv => TypeOK
  BY DEF IInv
<1>2. QED
  BY <1>1, Invariance, PTL

\* Two handlers never match on one book at the same time.
THEOREM Exclusive == Spec => []MutualExclusion
<1>1. IInv => MutualExclusion
  BY DEF IInv
<1>2. QED
  BY <1>1, Invariance, PTL

\* The maps, lists and heaps of the book agree after every step, removals by
\* lookup in the middle of a level and stale heap entries included.
THEOREM WellFormedBook == Spec => []BookWellFormed
<1>1. IInv => BookWellFormed
  BY DEF IInv
<1>2. QED
  BY <1>1, Invariance, PTL

\* Only open limit orders rest: a market order, a filled order or one whose
\* handler still matches is never in the book.
THEOREM OnlyOpenLimitOrders == Spec => []OnlyOpenLimitOrdersRest
<1>1. IInv => OnlyOpenLimitOrdersRest
  BY DEF IInv
<1>2. QED
  BY <1>1, Invariance, PTL

\* The book is never crossed.
THEOREM NeverCrossed == Spec => []BookNeverCrossed
<1>1. IInv => BookNeverCrossed
  BY DEF IInv
<1>2. QED
  BY <1>1, Invariance, PTL

\* Every fill happens at the best price of the opposite side and within the
\* taker's limit.
THEOREM BestPrice == Spec => []FillsAtBestPrice
<1>1. IInv => FillsAtBestPrice
  BY DEF IInv
<1>2. QED
  BY <1>1, Invariance, PTL
-----------------------------------------------------------------------------
(***************************************************************************)
(* Progress under the mutex: what HandlersReturn rests on.  A handler that *)
(* matches cannot go round its two loops for ever, whatever the book       *)
(* holds and however long the others keep calling.                         *)
(***************************************************************************)
\* What the match of o has left to do.  Every share that remains may cost one
\* choice of a level, one fill and one end of a level; a handler that may fill
\* is nearer to its end than one that must still choose, and that one nearer
\* than one that must first leave its level.
Work(o) ==
    3 * remaining +
        (IF pc[o] = "select" THEN 1 ELSE IF MayFill(o) THEN 0 ELSE 2)

\* The work is a number, so it cannot go down for ever.
LEMMA WorkIsANumber ==
    ASSUME IInv, NEW o \in Orders
    PROVE  Work(o) \in Nat
<1>1. remaining \in Nat
  BY DEF IInv, TypeOK
<1>2. QED
  BY <1>1 DEF Work

\* A level that is chosen can be filled: its queue is not empty although stale
\* prices stay in the heap, and a market buy can pay one share at its price.
LEMMA SelectLevelMayFill ==
    ASSUME IInv, NEW o \in Orders, SelectLevel(o)
    PROVE  MayFill(o)'
<1> DEFINE opposite == Opposite(Side(o))
<1>1. PICK p \in Prices :
        /\ IsHeapTop(FreshOpposite(o), opposite, p)
        /\ Matchable(o, p)
        /\ bestPrice' = p
  BY DEF SelectLevel
<1>2. /\ pc[o] = "select"
      /\ remaining > 0
      /\ book' = [book EXCEPT ![opposite] = FreshOpposite(o)]
      /\ UNCHANGED <<request, remaining, balance>>
  BY DEF SelectLevel
<1>3. Side(o) \in Sides /\ opposite \in Sides
  BY <1>2, RequestFields, SidesFacts
<1>4. book[opposite] \in BookSides /\ WellFormed(book[opposite])
  BY <1>3, BookFacts
<1>5. p \in book[opposite].levels
  BY <1>1, <1>3, <1>4, HeapTopIsBest DEF FreshOpposite
<1>6. FreshOpposite(o).queue = book[opposite].queue
  BY <1>3, <1>4, CleanStaleHeapTopWellFormed DEF FreshOpposite
<1>7. FreshOpposite(o).queue[p] # <<>>
  BY <1>4, <1>5, <1>6 DEF WellFormed, LevelsInHeap
<1>8. book'[opposite] = FreshOpposite(o)
  BY <1>2, <1>3 DEF IInv, TypeOK
<1>9. Side(o)' = Side(o) /\ IsMarketBuy(o)' = IsMarketBuy(o)
  BY <1>2 DEF Side, IsMarket, IsMarketBuy
<1>10. book'[Opposite(Side(o)')].queue[bestPrice'] # <<>>
  BY <1>1, <1>7, <1>8, <1>9
<1>11. IsMarketBuy(o)' => balance' >= bestPrice'
  BY <1>1, <1>2, <1>9 DEF Matchable, IsMarketBuy
<1>12. QED
  BY <1>2, <1>10, <1>11 DEF MayFill

\* Choosing a level is progress: the handler may fill next.
LEMMA SelectLevelWorks ==
    ASSUME IInv, NEW o \in Orders, SelectLevel(o)
    PROVE  lock' = lock /\ Work(o)' < Work(o)
<1>1. /\ pc[o] = "select"
      /\ pc' = [pc EXCEPT ![o] = "fill"]
      /\ UNCHANGED <<lock, remaining>>
  BY DEF SelectLevel
<1>2. MayFill(o)'
  BY SelectLevelMayFill
<1>3. pc'[o] = "fill" /\ remaining \in Nat
  BY <1>1 DEF IInv, TypeOK
<1>4. QED
  BY <1>1, <1>2, <1>3 DEF Work

\* A fill is progress: at least one share less remains.
LEMMA FillFrontWorks ==
    ASSUME IInv, NEW o \in Orders, FillFront(o)
    PROVE  lock' = lock /\ Work(o)' < Work(o)
<1>1. pc[o] = "fill" /\ MayFill(o)
  BY DEF FillFront
<1>2. PICK maker \in Orders, quantity \in Nat \ {0} : Fills(o, maker, quantity)
  BY FillFrontTrades
<1>3. /\ quantity <= remaining
      /\ remaining' = remaining - quantity
      /\ UNCHANGED <<pc, lock>>
  BY <1>2 DEF Fills
<1>4. remaining \in Nat
  BY DEF IInv, TypeOK
<1>5. Work(o) = 3 * remaining
  BY <1>1, <1>4 DEF Work
<1>6. Work(o)' \in Int /\ Work(o)' <= 3 * remaining' + 2
  BY <1>1, <1>3, <1>4 DEF Work
<1>7. QED
  BY <1>3, <1>4, <1>5, <1>6

\* Leaving a level is progress: it happens only when nothing can be filled.
LEMMA LeaveLevelWorks ==
    ASSUME IInv, NEW o \in Orders, LeaveLevel(o)
    PROVE  lock' = lock /\ Work(o)' < Work(o)
<1>1. /\ pc[o] = "fill"
      /\ ~MayFill(o)
      /\ pc' = [pc EXCEPT ![o] = "select"]
      /\ UNCHANGED <<lock, remaining>>
  BY DEF LeaveLevel
<1>2. pc'[o] = "select" /\ remaining \in Nat
  BY <1>1 DEF IInv, TypeOK
<1>3. QED
  BY <1>1, <1>2 DEF Work

\* What a step may do while o holds the mutex: o returns, or o gets on, or
\* somebody else does something that o's match does not look at.
Advances(o) ==
    \/ pc'[o] = "returned" /\ lock' = NoOrder
    \/ lock' = o /\ Work(o)' < Work(o)
    \/ /\ pc'[o] = pc[o] /\ request'[o] = request[o]
       /\ UNCHANGED <<book, lock, remaining, balance, bestPrice>>
       /\ Work(o)' = Work(o)

\* One step of the holder of the mutex, or of somebody who has no need of it.
LEMMA HolderAdvances ==
    ASSUME IInv, [Next]_vars, NEW o \in Orders, lock = o
    PROVE  Advances(o)
<1>1. pc[o] \in {"select", "fill"} /\ o # NoOrder
  BY RequestsAssumption DEF IInv, MutualExclusion
<1>2. \A x \in Orders : pc[x] \in {"select", "fill"} => x = o
  BY DEF IInv, MutualExclusion
<1>3. pc \in [Orders -> HandlerStates] /\ DOMAIN request = Orders
  BY DEF IInv, TypeOK
<1> DEFINE Untouched == /\ pc'[o] = pc[o] /\ request'[o] = request[o]
                        /\ UNCHANGED <<book, lock, remaining, balance, bestPrice>>
<1>0. Untouched => Advances(o)
  BY DEF Advances, Work, MayFill, IsMarketBuy, IsMarket, Side
<1>4. CASE UNCHANGED vars
  BY <1>0, <1>4 DEF vars
<1>5. ASSUME NEW x \in Orders, NEW r \in Requests, Submit(x, r) \/ Reject(x, r)
      PROVE  Advances(o)
  <2>1. x # o
    BY <1>1, <1>5 DEF Submit, Reject
  <2>2. pc'[o] = pc[o] /\ request'[o] = request[o]
    BY <1>3, <1>5, <2>1 DEF Submit, Reject
  <2>3. Untouched
    BY <1>5, <2>2 DEF Submit, Reject
  <2>4. QED
    BY <1>0, <2>3
<1>6. ASSUME NEW x \in Orders, Accept(x) PROVE FALSE
  BY <1>1, <1>6 DEF Accept
<1>7. ASSUME NEW x \in Orders, SelectLevel(x) PROVE Advances(o)
  <2>1. x = o
    BY <1>2, <1>7 DEF SelectLevel
  <2>2. QED
    BY <1>7, <2>1, SelectLevelWorks DEF Advances
<1>8. ASSUME NEW x \in Orders, FillFront(x) PROVE Advances(o)
  <2>1. x = o
    BY <1>2, <1>8 DEF FillFront
  <2>2. QED
    BY <1>8, <2>1, FillFrontWorks DEF Advances
<1>9. ASSUME NEW x \in Orders, LeaveLevel(x) PROVE Advances(o)
  <2>1. x = o
    BY <1>2, <1>9 DEF LeaveLevel
  <2>2. QED
    BY <1>9, <2>1, LeaveLevelWorks DEF Advances
<1>10. ASSUME NEW x \in Orders, Finish(x) PROVE Advances(o)
  <2>1. x = o
    BY <1>2, <1>10 DEF Finish
  <2>2. pc' = [pc EXCEPT ![x] = "returned"] /\ lock' = NoOrder
    BY <1>10 DEF Finish
  <2>3. QED
    BY <1>3, <2>1, <2>2 DEF Advances
<1>11. ASSUME NEW x \in Orders, NEW side \in Sides, Cancel(x, side) PROVE FALSE
  BY <1>1, <1>11 DEF Cancel
<1> HIDE DEF Untouched
<1>12. QED
  BY <1>4, <1>5, <1>6, <1>7, <1>8, <1>9, <1>10, <1>11 DEF Next

\* A match ends, whatever the orders: while a handler holds the mutex, each of
\* its own steps releases it or lowers a natural number that nobody else's step
\* raises.  A level that is chosen can be filled, a fill trades at least one
\* share, and a level is left only when it cannot be filled; a stale price that
\* was chosen, or a fill of nothing, would leave matchBuyOrder and
\* matchSellOrder in their loops with the book locked.
THEOREM MatchingTerminates ==
    Spec => [][\A o \in Orders : lock = o =>
                    Work(o) \in Nat /\ Advances(o)]_vars
<1>1. IInv /\ [Next]_vars =>
        [\A o \in Orders : lock = o => Work(o) \in Nat /\ Advances(o)]_vars
  BY WorkIsANumber, HolderAdvances
<1>2. QED
  BY <1>1, Invariance, PTL DEF Spec
=============================================================================
