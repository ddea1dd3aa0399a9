---------------------------- MODULE MatchingEngine ----------------------------
(***************************************************************************)
(* The matching of one stock: SubmitOrder, matchBuyOrder, matchSellOrder   *)
(* and CancelOrder of                                                      *)
(* matching_engine/internal/lib/matching_engine/matching_engine.go, called *)
(* by any number of concurrent gRPC handlers.                              *)
(*                                                                         *)
(* Every order is one PlaceOrder call, so an order identifier also names   *)
(* the handler that submits it.  A handler validates the order without a   *)
(* lock, waits for the book's mutex, and then matches: it alternates       *)
(* between choosing the best opposite level ("select") and one iteration   *)
(* of the inner loop ("fill") until it can match no more.  matchBuyOrder   *)
(* and matchSellOrder are mirror images, but for the balance of a market   *)
(* buy; one set of actions stands for both.                                *)
(*                                                                         *)
(* The engine has an event streamer, and publishing is the step that       *)
(* appends to `events'; what becomes of an event after that is the         *)
(* business of module EventPublisher.                                      *)
(***************************************************************************)
EXTENDS OrderBook

CONSTANTS
    Requests,   \* the orders a handler may be called with
    NoRequest,  \* what is known of an order before its handler is called
    NoOrder     \* no order: a free mutex, an event without an order id

\* The fields of types.Order that no code changes, and the submitted quantity.
\* wellFormed is FALSE for an order without a ticker or without an identifier.
RequestType ==
    [side : Sides, type : {"Limit", "Market"}, wellFormed : BOOLEAN,
     limit : Int, quantity : Int, balance : Int]

\* The checks of SubmitOrder, in their order.
Valid(r) ==
    /\ r.wellFormed
    /\ r.quantity > 0
    /\ r.type = "Limit" => r.limit > 0

ASSUME RequestsAssumption ==
    /\ Requests \subseteq RequestType
    /\ \A r \in Requests : Valid(r) /\ r.type = "Limit" => r.limit \in Prices
    /\ NoRequest \notin Requests
    /\ NoOrder \notin Orders

VARIABLES
    request,    \* request[o]: the order as its handler received it
    qty,        \* qty[o]: the field Order.Quantity
    pc,         \* pc[o]: where the handler of o is
    book,       \* book[side]: StockOrderBook.BuySide and SellSide
    lock,       \* the handler that holds StockOrderBook.Mu
    remaining,  \* its local remainingQty
    balance,    \* its local remainingBalance
    bestPrice,  \* its local askPrice or bidPrice
    events      \* what was handed to the event streamer, in that order

vars == <<request, qty, pc, book, lock, remaining, balance, bestPrice, events>>

-----------------------------------------------------------------------------
(***************************************************************************)
(* The events, with the fields that depend on the state; the rest          *)
(* (trader, ticker, type, side, limit) are those of the request.           *)
(***************************************************************************)
PlacedEvent(o) == [type |-> "OrderPlaced", order |-> o]

\* An order without identifier, or refused before its identifier is looked
\* at, is reported with OrderID "".
RejectedEvent(o, r) ==
    [type |-> "OrderRejected", order |-> IF r.wellFormed THEN o ELSE NoOrder]

TradeEvent(buyer, seller, price, quantity) ==
    [type |-> "TradeExecuted", buyer |-> buyer, seller |-> seller,
     price |-> price, quantity |-> quantity]

FilledEvent(o, quantity) ==
    [type |-> "OrderFilled", order |-> o, quantity |-> quantity]

PartiallyFilledEvent(o, filled, left) ==
    [type |-> "OrderPartiallyFilled", order |-> o, filled |-> filled, left |-> left]

CancelledEvent(o, left) ==
    [type |-> "OrderCancelled", order |-> o, left |-> left]

-----------------------------------------------------------------------------
Init ==
    /\ request = [o \in Orders |-> NoRequest]
    /\ qty = [o \in Orders |-> 0]
    /\ pc = [o \in Orders |-> "new"]
    /\ book = [side \in Sides |-> NewSide]
    /\ lock = NoOrder
    /\ remaining = 0
    /\ balance = 0
    /\ bestPrice = NoPrice
    /\ events = <<>>

\* SubmitOrder up to the lock: the order passes the checks, or it is refused
\* with a Rejected event that no lock orders.
Submit(o, r) ==
    /\ pc[o] = "new"
    /\ Valid(r)
    /\ request' = [request EXCEPT ![o] = r]
    /\ qty' = [qty EXCEPT ![o] = r.quantity]
    /\ pc' = [pc EXCEPT ![o] = "waiting"]
    /\ UNCHANGED <<book, lock, remaining, balance, bestPrice, events>>

Reject(o, r) ==
    /\ pc[o] = "new"
    /\ ~Valid(r)
    /\ request' = [request EXCEPT ![o] = r]
    /\ qty' = [qty EXCEPT ![o] = r.quantity]
    /\ pc' = [pc EXCEPT ![o] = "rejected"]
    /\ events' = Append(events, RejectedEvent(o, r))
    /\ UNCHANGED <<book, lock, remaining, balance, bestPrice>>

\* Mutant: the book is not locked.
AcceptUnlocked(o) ==
    /\ pc[o] = "waiting"
    /\ lock' = o
    /\ pc' = [pc EXCEPT ![o] = "select"]
    /\ remaining' = qty[o]
    /\ balance' = request[o].balance
    /\ events' = Append(events, PlacedEvent(o))
    /\ UNCHANGED <<request, qty, book, bestPrice>>

\* Mu.Lock(), the Placed event, and the locals of the match function.
Accept(o) ==
    /\ pc[o] = "waiting"
    /\ lock = NoOrder
    /\ lock' = o
    /\ pc' = [pc EXCEPT ![o] = "select"]
    /\ remaining' = qty[o]
    /\ balance' = request[o].balance
    /\ events' = Append(events, PlacedEvent(o))
    /\ UNCHANGED <<request, qty, book, bestPrice>>

-----------------------------------------------------------------------------
Side(o) == request[o].side
IsMarket(o) == request[o].type = "Market"
IsMarketBuy(o) == IsMarket(o) /\ Side(o) = "Buy"

\* The opposite side once GetBestPrice has dropped the stale prices.
FreshOpposite(o) == CleanStaleHeapTop(book[Opposite(Side(o))], Opposite(Side(o)))

\* Mutant: a limit order does not match at exactly its limit.
MatchableStrictly(o, p) ==
    IF IsMarket(o)
    THEN Side(o) = "Buy" => balance >= p
    ELSE Better(Opposite(Side(o)), p, request[o].limit)

\* Lines 168 and 173 for a buy, 324 for a sell: the taker goes on at price p.
Matchable(o, p) ==
    IF IsMarket(o)
    THEN Side(o) = "Buy" => balance >= p
    ELSE ~Better(Opposite(Side(o)), request[o].limit, p)

\* The head of the outer loop, when it enters the body.
SelectLevel(o) ==
    /\ pc[o] = "select"
    /\ remaining > 0
    /\ \E p \in Prices :
        /\ IsHeapTop(FreshOpposite(o), Opposite(Side(o)), p)
        /\ Matchable(o, p)
        /\ bestPrice' = p
    /\ book' = [book EXCEPT ![Opposite(Side(o))] = FreshOpposite(o)]
    /\ pc' = [pc EXCEPT ![o] = "fill"]
    /\ UNCHANGED <<request, qty, lock, remaining, balance, events>>

\* Mutant: affordability is not checked again inside the level.
MayFillUnchecked(o) ==
    /\ book[Opposite(Side(o))].queue[bestPrice] # <<>>
    /\ remaining > 0

\* The condition of the inner loop and the break at its top.
MayFill(o) ==
    /\ book[Opposite(Side(o))].queue[bestPrice] # <<>>
    /\ remaining > 0
    /\ IsMarketBuy(o) => balance >= bestPrice

Least(a, b) == IF a < b THEN a ELSE b

\* Mutants: the maker's quantity alone decides; the buyer's cash does not cap.
MatchQuantityMaker(o, maker) == qty[maker]

MatchQuantityUncapped(o, maker) == Least(remaining, qty[maker])

MatchQuantity(o, maker) ==
    IF IsMarketBuy(o)
    THEN Least(Least(remaining, qty[maker]), balance \div bestPrice)
    ELSE Least(remaining, qty[maker])

\* One iteration of the inner loop: trade with the front of the level.  An
\* affordable quantity of 0 makes remainingQty 0 and leaves the loop (lines
\* 198-201).
FillFront(o) ==
    /\ pc[o] = "fill"
    /\ MayFill(o)
    /\ LET opposite == Opposite(Side(o))
           maker == FrontOrder(book[opposite], bestPrice)
           quantity == MatchQuantity(o, maker)
           left == qty[maker] - quantity
           trade == IF Side(o) = "Buy"
                    THEN TradeEvent(o, maker, bestPrice, quantity)
                    ELSE TradeEvent(maker, o, bestPrice, quantity)
       IN  IF quantity = 0
           THEN /\ remaining' = 0
                /\ UNCHANGED <<qty, balance, book, events>>
           ELSE /\ remaining' = remaining - quantity
                /\ qty' = [qty EXCEPT ![maker] = left]
                /\ balance' = IF IsMarketBuy(o)
                              THEN balance - bestPrice * quantity ELSE balance
                \* RemoveOrder runs when the maker's Quantity is 0 already.
                /\ book' = IF left = 0
                           THEN [book EXCEPT ![opposite] = RemoveOrder(@, maker, 0)]
                           ELSE book
                /\ events' = events \o
                     <<trade, IF left = 0
                              THEN FilledEvent(maker, qty[maker])
                              ELSE PartiallyFilledEvent(maker, quantity, left)>>
    /\ UNCHANGED <<request, pc, lock, bestPrice>>

\* The inner loop ends; the outer loop's condition is tested again.
LeaveLevel(o) ==
    /\ pc[o] = "fill"
    /\ ~MayFill(o)
    /\ pc' = [pc EXCEPT ![o] = "select"]
    /\ UNCHANGED <<request, qty, book, lock, remaining, balance, bestPrice, events>>

\* The outer loop ends: nothing remains, the opposite side is empty, or its
\* best price does not match.  GetBestPrice has run in the last two cases.
ExitLoop(o, opposite) ==
    \/ remaining = 0 /\ opposite = book[Opposite(Side(o))]
    \/ /\ remaining > 0
       /\ opposite = FreshOpposite(o)
       /\ \/ HeapEmpty(opposite)
          \/ \E p \in Prices :
                IsHeapTop(opposite, Opposite(Side(o)), p) /\ ~Matchable(o, p)

\* Mutants: the cancelled quantity is the one submitted; a filled market order
\* is cancelled too; it is cancelled instead.
TakerEventsOriginal(o) ==
    CASE remaining = 0 -> <<FilledEvent(o, qty[o])>>
      [] remaining > 0 ->
            (IF remaining < qty[o]
             THEN <<PartiallyFilledEvent(o, qty[o] - remaining, remaining)>> ELSE <<>>)
            \o (IF IsMarket(o) THEN <<CancelledEvent(o, qty[o])>> ELSE <<>>)

TakerEventsAlwaysCancel(o) ==
    (CASE remaining = 0 -> <<FilledEvent(o, qty[o])>>
       [] remaining > 0 /\ remaining < qty[o] ->
            <<PartiallyFilledEvent(o, qty[o] - remaining, remaining)>>
       [] OTHER -> <<>>)
    \o (IF IsMarket(o) THEN <<CancelledEvent(o, remaining)>> ELSE <<>>)

TakerEventsCancelOnly(o) ==
    IF IsMarket(o) THEN <<CancelledEvent(o, remaining)>>
    ELSE IF remaining = 0 THEN <<FilledEvent(o, qty[o])>>
    ELSE IF remaining < qty[o]
    THEN <<PartiallyFilledEvent(o, qty[o] - remaining, remaining)>>
    ELSE <<>>

\* The events about the taker itself.
TakerEvents(o) ==
    CASE remaining = 0 -> <<FilledEvent(o, qty[o])>>
      [] remaining > 0 ->
            (IF remaining < qty[o]
             THEN <<PartiallyFilledEvent(o, qty[o] - remaining, remaining)>> ELSE <<>>)
            \o (IF IsMarket(o) THEN <<CancelledEvent(o, remaining)>> ELSE <<>>)

\* Mutant: market orders rest as well.
RestsAlways(o) == remaining > 0

\* Only what remains of a limit order goes into the book.
Rests(o) == remaining > 0 /\ ~IsMarket(o)

\* The end of the match function and Mu.Unlock(): what remains of a limit
\* order rests in the book, what remains of a market order is cancelled.
Finish(o) ==
    /\ pc[o] = "select"
    /\ \E opposite \in {book[Opposite(Side(o))], FreshOpposite(o)} :
        /\ ExitLoop(o, opposite)
        /\ IF Rests(o)
           THEN /\ qty' = [qty EXCEPT ![o] = remaining]
                /\ book' = [book EXCEPT
                        ![Opposite(Side(o))] = opposite,
                        ![Side(o)] = AddOrder(@, o, request[o].limit, remaining)]
           ELSE /\ qty' = qty
                /\ book' = [book EXCEPT ![Opposite(Side(o))] = opposite]
    /\ events' = events \o TakerEvents(o)
    /\ pc' = [pc EXCEPT ![o] = "returned"]
    /\ lock' = NoOrder
    /\ remaining' = 0
    /\ balance' = 0
    /\ bestPrice' = NoPrice
    /\ UNCHANGED request

\* CancelOrder of an order that rests on the side the caller names.  A call
\* that does not find its order changes nothing.
Cancel(o, side) ==
    /\ lock = NoOrder
    /\ Resting(book[side], o)
    /\ book' = [book EXCEPT ![side] = RemoveOrder(@, o, qty[o])]
    /\ events' = Append(events, CancelledEvent(o, qty[o]))
    /\ UNCHANGED <<request, qty, pc, lock, remaining, balance, bestPrice>>

Next ==
    \E o \in Orders :
        \/ \E r \in Requests : Submit(o, r) \/ Reject(o, r)
        \/ Accept(o)
        \/ SelectLevel(o)
        \/ FillFront(o)
        \/ LeaveLevel(o)
        \/ Finish(o)
        \/ \E side \in Sides : Cancel(o, side)

Spec == Init /\ [][Next]_vars

\* A handler that holds the mutex keeps running: publishing is bounded by
\* safePublish's 500 ms, nothing else in the critical section blocks.
Matching(o) == SelectLevel(o) \/ FillFront(o) \/ LeaveLevel(o) \/ Finish(o)

\* sync.Mutex hands itself to a waiter that starves for 1 ms, so a handler
\* that finds the mutex free again and again gets it.
Fairness == \A o \in Orders : WF_vars(Matching(o)) /\ SF_vars(Accept(o))

FairSpec == Spec /\ Fairness
-----------------------------------------------------------------------------
Events ==
    [type : {"OrderPlaced"}, order : Orders]
    \cup [type : {"OrderRejected"}, order : Orders \cup {NoOrder}]
    \cup [type : {"TradeExecuted"}, buyer : Orders, seller : Orders,
          price : Prices, quantity : Int]
    \cup [type : {"OrderFilled"}, order : Orders, quantity : Int]
    \cup [type : {"OrderPartiallyFilled"}, order : Orders, filled : Int, left : Int]
    \cup [type : {"OrderCancelled"}, order : Orders, left : Int]

HandlerStates == {"new", "waiting", "select", "fill", "returned", "rejected"}

\* Every variable has its type, and so has every event published.
TypeOK ==
    /\ request \in [Orders -> Requests \cup {NoRequest}]
    /\ qty \in [Orders -> Int]
    /\ pc \in [Orders -> HandlerStates]
    /\ book \in [Sides -> BookSides]
    /\ lock \in Orders \cup {NoOrder}
    /\ remaining \in Nat
    /\ balance \in Int
    /\ bestPrice \in Prices \cup {NoPrice}
    /\ events \in Seq(Events)

\* At most one handler is between Mu.Lock and Mu.Unlock, and it is the one
\* the mutex says; a handler that got past the checks has a valid order.
MutualExclusion ==
    \A o \in Orders :
        /\ pc[o] \in {"select", "fill"} <=> lock = o
        /\ pc[o] \in {"waiting", "select", "fill", "returned"} =>
              request[o] \in Requests /\ Valid(request[o])

\* The maps, the lists and the heap of both sides agree with each other.
BookWellFormed == \A side \in Sides : WellFormed(book[side])

\* What rests are limit orders with something left, each on its own side at
\* its own limit, whose handler has returned: market orders, filled orders
\* and orders still being matched never rest.
OnlyOpenLimitOrdersRest ==
    \A side \in Sides, o \in Orders : Resting(book[side], o) =>
        /\ pc[o] = "returned"
        /\ ~IsMarket(o)
        /\ Side(o) = side
        /\ request[o].limit = book[side].orderToPrice[o]
        /\ qty[o] > 0

\* The book is never crossed: every bid is below every ask, in the middle of
\* a match as well.
BookNeverCrossed ==
    \A bid \in book["Buy"].levels, ask \in book["Sell"].levels : bid < ask

\* The level that is being filled is the best one of its side although stale
\* prices stay in the heap: no trade is made at a worse price than the book
\* offers, and none at a price the taker did not agree to.
FillsAtBestPrice ==
    \A o \in Orders : pc[o] = "fill" =>
        /\ bestPrice \in Prices
        /\ \A p \in book[Opposite(Side(o))].levels :
              ~Better(Opposite(Side(o)), p, bestPrice)
        /\ ~IsMarket(o) => ~Better(Opposite(Side(o)), request[o].limit, bestPrice)
=============================================================================
