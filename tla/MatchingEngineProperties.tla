----------------------- MODULE MatchingEngineProperties -----------------------
(***************************************************************************)
(* The properties of one stock's matching that are stated over the events  *)
(* the engine publishes: what the event listener, the database and the     *)
(* traders see of the book.                                                *)
(***************************************************************************)
EXTENDS MatchingEngine

\* The indexes of the events of type t.
Published(t) == {i \in DOMAIN events : events[i].type = t}

About(t, o) == {i \in Published(t) : events[i].order = o}

Trades(o) ==
    {i \in Published("TradeExecuted") : o \in {events[i].buyer, events[i].seller}}

Traded(o) == SumFunction([i \in Trades(o) |-> events[i].quantity])

Spent(o) == SumFunction([i \in Trades(o) |-> events[i].price * events[i].quantity])

Cancelled(o) == SumFunction([i \in About("OrderCancelled", o) |-> events[i].left])

\* What o still offers or wants: in the book, or in its handler's hands.
Open(o) ==
    IF lock = o THEN remaining
    ELSE IF \E side \in Sides : Resting(book[side], o) THEN qty[o] ELSE 0

Accepted(o) == About("OrderPlaced", o) # {}

-----------------------------------------------------------------------------
\* No share is lost or invented: at every moment the quantity an accepted
\* order asked for is what it traded, plus what was reported as cancelled,
\* plus what is still open (matchBuyOrder, matchSellOrder, CancelOrder).
SharesConserved ==
    \A o \in Orders : Accepted(o) =>
        request[o].quantity = Traded(o) + Cancelled(o) + Open(o)

\* Whoever reads the stream can rebuild the book: while no order is being
\* matched, the orders that were placed and neither filled nor cancelled are
\* those that rest, each on its own side.
StreamTellsTheBook ==
    lock = NoOrder =>
        \A o \in Orders, side \in Sides :
            Resting(book[side], o) <=>
                /\ Accepted(o)
                /\ Side(o) = side
                /\ About("OrderFilled", o) \cup About("OrderCancelled", o) = {}

\* The life of an order on the stream: placed at most once and before
\* anything else about it, at most one of Filled, Cancelled and Rejected, and
\* no trade or partial fill after that.
EventLifecycle ==
    \A o \in Orders :
        LET placed == About("OrderPlaced", o)
            final == About("OrderFilled", o) \cup About("OrderCancelled", o)
            rest == Trades(o) \cup About("OrderPartiallyFilled", o)
        IN  /\ Cardinality(placed) <= 1
            /\ Cardinality(final) <= 1
            /\ \A i \in final \cup rest : \E j \in placed : j < i
            /\ \A i \in rest, j \in final : i < j
            /\ About("OrderRejected", o) # {} => placed = {}

\* An order is reported as filled exactly when all of it has traded, as soon
\* as it is not in its own handler's hands any more: a match that ends for want
\* of cash fills nobody (matchBuyOrder sets remainingQty to 0 on its forced
\* exit), and an order that traded all of it is not cancelled with nothing
\* left, or forgotten.
FilledExactlyWhenAllTraded ==
    \A o \in Orders :
        About("OrderFilled", o) # {} <=>
            Accepted(o) /\ lock # o /\ Traded(o) = request[o].quantity

\* A market buy never spends more than the balance it came with, over all the
\* makers and levels it takes from (matchBuyOrder).
MarketBuyersCanPay ==
    \A o \in Orders : Accepted(o) /\ IsMarketBuy(o) /\ Trades(o) # {} =>
        Spent(o) <= request[o].balance

\* The order of the resting orders at one price never changes while they
\* rest: a partial fill, another order's removal or a stale heap entry does
\* not cost an order its place.
PlaceInQueueIsKept ==
    [][\A side \in Sides, p \in Prices :
         LET old == book[side].queue[p]
             new == book'[side].queue[p]
         IN  \A i, j \in 1..Len(old) : \A k, l \in 1..Len(new) :
                old[i] = new[k] /\ old[j] = new[l] /\ i < j => k < l]_vars

-----------------------------------------------------------------------------
(***************************************************************************)
(* Price-time priority: the engine implements PriceTimeExchange.           *)
(***************************************************************************)
\* Where s has elements of type t, up to index n.
Indexes(s, t, n) == {m \in 1..n : s[m].type = t}

\* Where s has its i-th element of type t.
Rank(s, t, i) ==
    {n \in Indexes(s, t, Len(s)) : Cardinality(Indexes(s, t, n)) = i}

\* The elements of s of type t, in their order.
OfType(s, t) ==
    [i \in 1..Cardinality(Indexes(s, t, Len(s))) |-> s[CHOOSE n \in Rank(s, t, i) : TRUE]]

\* What the exchange knows of the orders, and when it got to know them.
Known == [o \in Orders |-> IF Accepted(o) THEN request[o] ELSE NoRequest]

ArrivalsIn(s) ==
    [i \in DOMAIN OfType(s, "OrderPlaced") |-> OfType(s, "OrderPlaced")[i].order]

Arrivals == ArrivalsIn(events)

\* What the orders in the book offer.
Offered ==
    [o \in Orders |-> IF \E side \in Sides : Resting(book[side], o) THEN qty[o] ELSE 0]

TapeEntry(e) == [buyer |-> e.buyer, seller |-> e.seller,
                 price |-> e.price, quantity |-> e.quantity]

TapeIn(s) ==
    [i \in DOMAIN OfType(s, "TradeExecuted") |-> TapeEntry(OfType(s, "TradeExecuted")[i])]

Tape == TapeIn(events)

Exchange == INSTANCE PriceTimeExchange WITH
    request <- Known,
    arrivals <- Arrivals,
    open <- Offered,
    taker <- lock,
    left <- remaining,
    cash <- balance,
    tape <- Tape

\* Every trade is with the best-priced opposite order that was accepted
\* first, at that order's price, and matching stops only when nothing is
\* left or the best price does not match (README.md:10, "orders at the same
\* price are matched based on arrival time").
PriceTimePriority == Exchange!Spec

-----------------------------------------------------------------------------
\* Every order that passed the checks is matched and its handler returns;
\* the loops over the levels and over the orders of a level end.
HandlersReturn ==
    \A o \in Orders : pc[o] = "waiting" ~> pc[o] = "returned"
=============================================================================
