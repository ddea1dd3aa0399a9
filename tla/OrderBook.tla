------------------------------ MODULE OrderBook ------------------------------
(***************************************************************************)
(* One side of one stock's order book:                                     *)
(* matching_engine/internal/lib/types/order_types.go.                      *)
(*                                                                         *)
(* A side is a record.  The code keeps pointers to orders; here a side     *)
(* holds order identifiers and the quantity an order still has is the      *)
(* engine's variable (the code changes Order.Quantity through the pointer, *)
(* behind the back of the price level).                                    *)
(*   levels        the prices that have a PriceLevel (the keys of the map) *)
(*   queue         PriceLevel.orders, front first; <<>> without a level    *)
(*   volume        PriceLevel.volume; 0 without a level                    *)
(*   heap          the multiset of prices in PriceHeap.prices: how often   *)
(*                 each price occurs.  The order of the array is           *)
(*                 container/heap's affair: what Peek and Pop return is    *)
(*                 the best price under Less                               *)
(*   orderToPrice  NoPrice for an identifier that is in neither            *)
(*                 orderLookup nor orderToPrice: the code writes and       *)
(*                 deletes the two maps together                           *)
(***************************************************************************)
EXTENDS Integers, Sequences, SequencesExt

CONSTANTS
    Orders,     \* the order identifiers (UUIDs, one per PlaceOrder call)
    Prices      \* the limit prices, in cents, that some order may carry

ASSUME PricesAssumption == Prices \subseteq Nat \ {0}

Sides == {"Buy", "Sell"}

Opposite(side) == IF side = "Buy" THEN "Sell" ELSE "Buy"

\* The Go zero value: no limit price is 0 (SubmitOrder rejects it).
NoPrice == 0

BookSides ==
    [levels : SUBSET Prices,
     queue : [Prices -> Seq(Orders)],
     volume : [Prices -> Int],
     heap : [Prices -> Nat],
     orderToPrice : [Orders -> Prices \cup {NoPrice}]]

\* NewOrderBookSide: no levels, an empty heap and empty maps.
NewSide ==
    [levels |-> {},
     queue |-> [p \in Prices |-> <<>>],
     volume |-> [p \in Prices |-> 0],
     heap |-> [p \in Prices |-> 0],
     orderToPrice |-> [o \in Orders |-> NoPrice]]

\* Mutant: a min-heap on both sides.
BetterLowest(side, p, q) == p < q

\* PriceHeap.Less with the arguments inlined: p comes out before q.
Better(side, p, q) == IF side = "Buy" THEN p > q ELSE p < q

Resting(b, o) == b.orderToPrice[o] # NoPrice

-----------------------------------------------------------------------------
\* Mutant: the order is pushed to the front of its level.
AddOrderAtFront(b, o, price, quantity) ==
    [b EXCEPT !.levels = @ \cup {price},
              !.heap[price] = IF price \in b.levels THEN @ ELSE @ + 1,
              !.queue[price] = <<o>> \o @,
              !.volume[price] = @ + quantity,
              !.orderToPrice[o] = price]

\* OrderBookSide.AddOrder, with NewPriceLevel and PriceLevel.AddOrder.
AddOrder(b, o, price, quantity) ==
    [levels |-> b.levels \cup {price},
     queue |-> [b.queue EXCEPT ![price] = Append(@, o)],
     volume |-> [b.volume EXCEPT ![price] = @ + quantity],
     heap |-> [b.heap EXCEPT ![price] = IF price \in b.levels THEN @ ELSE @ + 1],
     orderToPrice |-> [b.orderToPrice EXCEPT ![o] = price]]

PositionOf(queue, o) == CHOOSE i \in 1..Len(queue) : queue[i] = o

\* PriceLevel.Front of a level that is not empty, and PriceLevel.RemoveOrder.
FrontOrder(b, price) == b.queue[price][1]
Without(queue, o) == RemoveAt(queue, PositionOf(queue, o))

\* Mutants: the empty level stays in the map; the lookup entry stays; the last
\* order of the level takes the place of the one removed.
RemoveOrderKeepLevel(b, o, quantity) ==
    LET price == b.orderToPrice[o]
        rest == Without(b.queue[price], o)
    IN  [b EXCEPT !.queue[price] = rest,
                  !.volume[price] = @ - quantity,
                  !.orderToPrice[o] = NoPrice]

RemoveOrderKeepLookup(b, o, quantity) ==
    LET price == b.orderToPrice[o]
        rest == Without(b.queue[price], o)
    IN  [b EXCEPT !.levels = IF rest = <<>> THEN @ \ {price} ELSE @,
                  !.queue[price] = rest,
                  !.volume[price] = IF rest = <<>> THEN 0 ELSE @ - quantity]

RemoveOrderSwapLast(b, o, quantity) ==
    LET price == b.orderToPrice[o]
        old == b.queue[price]
        rest == Front([old EXCEPT ![PositionOf(old, o)] = Last(old)])
    IN  [b EXCEPT !.levels = IF rest = <<>> THEN @ \ {price} ELSE @,
                  !.queue[price] = rest,
                  !.volume[price] = IF rest = <<>> THEN 0 ELSE @ - quantity,
                  !.orderToPrice[o] = NoPrice]

\* OrderBookSide.RemoveOrder of an order that is found, with
\* PriceLevel.RemoveOrder.  A level that becomes empty leaves the map, its
\* price stays in the heap.
RemoveOrder(b, o, quantity) ==
    LET price == b.orderToPrice[o]
        rest == Without(b.queue[price], o)
    IN  [levels |-> IF rest = <<>> THEN b.levels \ {price} ELSE b.levels,
         queue |-> [b.queue EXCEPT ![price] = rest],
         volume |-> [b.volume EXCEPT
                        ![price] = IF rest = <<>> THEN 0 ELSE @ - quantity],
         heap |-> b.heap,
         orderToPrice |-> [b.orderToPrice EXCEPT ![o] = NoPrice]]

\* Mutant: stale prices are never dropped.
CleanStaleHeapTopNever(b, side) == b

\* cleanStaleHeapTop pops until the top of the heap has a level: what is left
\* are the prices that are no better than some live price, all of them when a
\* live price is the top, none when there is no live price.
CleanStaleHeapTop(b, side) ==
    [b EXCEPT !.heap =
        [p \in Prices |->
            IF \E q \in b.levels : b.heap[q] > 0 /\ ~Better(side, p, q)
            THEN b.heap[p] ELSE 0]]

\* PriceHeap.Peek.
HeapEmpty(b) == \A p \in Prices : b.heap[p] = 0

\* Mutant: any price of the heap is taken for its top.
IsHeapTopAny(b, side, p) == b.heap[p] > 0

IsHeapTop(b, side, p) ==
    /\ b.heap[p] > 0
    /\ \A q \in Prices : b.heap[q] > 0 => ~Better(side, q, p)

-----------------------------------------------------------------------------
(***************************************************************************)
(* What the operations above maintain and rely on.                         *)
(***************************************************************************)
\* A price has a level exactly while orders rest at it, and then the heap
\* knows it: otherwise the level is never matched, or matched for ever.
LevelsInHeap(b) ==
    \A p \in Prices :
        /\ p \in b.levels <=> b.queue[p] # <<>>
        /\ p \in b.levels => b.heap[p] > 0

\* The lookup finds exactly the queued orders, at the price they queue at.
LookupExact(b) ==
    \A o \in Orders, p \in Prices :
        b.orderToPrice[o] = p <=> \E i \in 1..Len(b.queue[p]) : b.queue[p][i] = o

\* No order is queued twice.
QueuedOnce(b) ==
    \A p \in Prices : \A i, j \in 1..Len(b.queue[p]) :
        b.queue[p][i] = b.queue[p][j] => i = j

WellFormed(b) == LevelsInHeap(b) /\ LookupExact(b) /\ QueuedOnce(b)
=============================================================================
