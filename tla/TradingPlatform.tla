---------------------------- MODULE TradingPlatform ----------------------------
(***************************************************************************)
(* The whole way of an order: the engine matches it and publishes its      *)
(* events, the listener settles them one by one in the order of the        *)
(* stream.  Composed of MatchingEngine, EventWire and Settlement.          *)
(*                                                                         *)
(* The stream here loses and repeats nothing and the database is there;    *)
(* what happens otherwise is in EventPublisher, EventListener and, for any *)
(* delivery at all, Settlement.  Every order has a trader of its own, who  *)
(* can pay for it or has the shares.                                       *)
(***************************************************************************)
EXTENDS MatchingEngineProperties, EventWire

CONSTANTS
    InitialCash,       \* of every trader
    InitialShares,     \* of every trader
    MaxTrades,         \* bound: rows of the trades table
    NoRow

\* Nobody places an order he cannot cover: no code checks that before the
\* settlement does.
ASSUME CoverAssumption ==
    \A r \in Requests : Valid(r) =>
        IF r.side = "Sell" THEN r.quantity <= InitialShares
        ELSE IF r.type = "Limit" THEN r.quantity * r.limit <= InitialCash
        ELSE r.balance <= InitialCash

VARIABLES
    consumed,   \* how many events the listener has handed to InsertEvent
    cash, cashHold, positions, rows, trades

tables == <<cash, cashHold, positions, rows, trades>>
platformVars == <<vars, consumed, tables>>

Tables == INSTANCE Settlement WITH
    Traders <- Orders,
    WireEvents <- {},
    InitialCash <- [o \in Orders |-> InitialCash],
    InitialPositions <- [o \in Orders |-> [quantity |-> InitialShares, hold |-> 0]],
    MaxTrades <- MaxTrades

\* Everybody begins with a balance and a position, and no row is NoRow.
ASSUME PlatformAssumption ==
    /\ InitialCash \in Nat
    /\ InitialShares \in Nat
    /\ NoRow \notin [quantity : Int, hold : Int]
    /\ NoRow \notin Tables!Rows

PlatformInit == Init /\ Tables!Init /\ consumed = 0

\* The engine goes on, whatever the listener has done so far.
Trade == Next /\ UNCHANGED <<consumed, tables>>

NextEvent == UnmarshalStreamEvent(MarshalEvent(events[consumed + 1], request))

\* The listener's next event is settled.  A Rejected one cannot be: its INSERT
\* lacks columns that are NOT NULL, and it is skipped.
Consume ==
    /\ consumed < Len(events)
    /\ IF NextEvent.type = "OrderRejected"
       THEN Tables!HandleOrderRejected(NextEvent)
       ELSE Tables!InsertEvent(NextEvent)
    /\ consumed' = consumed + 1
    /\ UNCHANGED vars

PlatformNext == Trade \/ Consume

PlatformSpec == PlatformInit /\ [][PlatformNext]_platformVars
-----------------------------------------------------------------------------
\* The listener's position is one in the stream, and the tables keep their
\* types and CHECKs.
PlatformTypeOK ==
    /\ consumed \in 0..Len(events)
    /\ Tables!SettlementTypeOK

\* Whatever the engine publishes, in the order in which it publishes it, the
\* database can take: no CHECK, key or foreign key refuses an event, so the
\* listener never has to skip one but the Rejected.
EveryEventCommits == consumed < Len(events) => ENABLED Consume

\* What the statement of e takes of a balance, a position, a hold or a row is
\* there, and a cancel releases the whole hold.
IsCovered(e) ==
    /\ e.type = "OrderPlaced" =>
          /\ rows[e.order] = NoRow
          /\ IF e.side = "Sell" THEN positions[e.trader].quantity >= e.quantity
             ELSE e.orderType = "Limit" => cash[e.trader] >= e.quantity * e.limit
    /\ e.type = "TradeExecuted" =>
          /\ Tables!IsOpen(e.buyer) /\ Tables!IsOpen(e.seller)
          /\ positions[e.sellerTrader].hold >= e.quantity
          /\ IF e.buyerType = "Market" THEN cash[e.buyerTrader] >= e.total
             ELSE LET held == e.quantity * rows[e.buyer].limit
                  IN  cashHold[e.buyerTrader] >= held /\ held >= e.total
    /\ e.type = "OrderPartiallyFilled" =>
          Tables!IsOpen(e.order) /\ rows[e.order].remaining >= e.filled
    /\ e.type = "OrderFilled" => Tables!IsOpen(e.order)
    /\ e.type = "OrderCancelled" =>
          /\ Tables!IsOpen(e.order)
          /\ LET row == rows[e.order] IN
             IF e.side = "Sell" THEN positions[row.trader].hold = row.remaining
             ELSE e.orderType = "Limit" =>
                     cashHold[row.trader] = row.remaining * row.limit

\* However far the listener is behind: an order's row is open when its events
\* come to be settled, and what the order took hold of when it was placed is
\* enough for all that happens to it since.
NextEventIsCovered == consumed < Len(events) => IsCovered(NextEvent)

CaughtUp == consumed = Len(events)

IsResting(o) == \E side \in Sides : Resting(book[side], o)

\* When the listener has caught up and no match is going on, the orders table
\* is the book: the same orders are open, with the same quantity left, and
\* every order is recorded with what it traded.
OrdersTableTellsTheBook ==
    CaughtUp /\ lock = NoOrder => \A o \in Orders :
        /\ rows[o] # NoRow <=> Accepted(o)
        /\ Tables!IsOpen(o) <=> IsResting(o)
        /\ IsResting(o) => rows[o].remaining = qty[o]
        /\ Accepted(o) => rows[o].filled = Traded(o)

\* At such a moment the holds are those of the resting orders and no more:
\* price improvement, partial fills and cancels leave nothing on hold.
HoldsMatchOpenOrders ==
    CaughtUp /\ lock = NoOrder => \A o \in Orders :
        /\ cashHold[o] = IF Resting(book["Buy"], o) THEN qty[o] * request[o].limit ELSE 0
        /\ positions[o].hold = IF Resting(book["Sell"], o) THEN qty[o] ELSE 0

Bought(o) == {i \in Trades(o) : events[i].buyer = o}

Shares(S) == SumFunction([i \in S |-> events[i].quantity])
Value(S) == SumFunction([i \in S |-> events[i].price * events[i].quantity])

\* Whenever the listener has caught up, in the middle of a match as well,
\* everybody owns what he began with and what the engine's trades gave and
\* took, each at the price of the resting order.
BalancesFollowTheTape ==
    CaughtUp => \A o \in Orders :
        LET sold == Trades(o) \ Bought(o) IN
        /\ cash[o] + cashHold[o] = InitialCash + Value(sold) - Value(Bought(o))
        /\ positions[o].quantity + positions[o].hold =
              InitialShares + Shares(Bought(o)) - Shares(sold)
=============================================================================
