---------------------------- MODULE MCSettlement ----------------------------
(***************************************************************************)
(* Instances of Settlement.  The events are those of an engine in which    *)
(* o1, a limit buy for 2 at 2, meets the limit sell o2, first for 1 at 1   *)
(* and then for 1 at 2, and the market buy o3 meets o2 and the market sell *)
(* o4; and the cancels of all.  A run delivers any of them at any time, as *)
(* often as it likes or never.                                             *)
(***************************************************************************)
EXTENDS Settlement, TLC

CONSTANTS t1, t2, t3, o1, o2, o3, o4

PlacedEvent(o, trader, type, side, quantity, limit) ==
    [type |-> "OrderPlaced", order |-> o, trader |-> trader, orderType |-> type,
     side |-> side, quantity |-> quantity, limit |-> limit]

CancelledEvent(o, type, side) ==
    [type |-> "OrderCancelled", order |-> o, orderType |-> type, side |-> side]

FilledEvents(os) == [type : {"OrderFilled"}, order : os]

PartiallyFilledEvents(os) ==
    [type : {"OrderPartiallyFilled"}, order : os, filled : {1}]

TradeEvent(buyer, type, buyerTrader, seller, sellerTrader, price) ==
    [type |-> "TradeExecuted", buyer |-> buyer, seller |-> seller,
     buyerType |-> type, buyerTrader |-> buyerTrader, sellerTrader |-> sellerTrader,
     quantity |-> 1, price |-> price, total |-> price]

MCWireEvents ==
    {PlacedEvent(o1, t1, "Limit", "Buy", 2, 2), PlacedEvent(o2, t2, "Limit", "Sell", 2, 1),
     PlacedEvent(o3, t3, "Market", "Buy", 1, 0), PlacedEvent(o4, t1, "Market", "Sell", 1, 0),
     CancelledEvent(o1, "Limit", "Buy"), CancelledEvent(o2, "Limit", "Sell"),
     CancelledEvent(o3, "Market", "Buy"), CancelledEvent(o4, "Market", "Sell"),
     TradeEvent(o1, "Limit", t1, o2, t2, 1), TradeEvent(o1, "Limit", t1, o2, t2, 2),
     TradeEvent(o3, "Market", t3, o2, t2, 1), TradeEvent(o3, "Market", t3, o4, t1, 2)}
    \cup FilledEvents({o1, o2, o3, o4})
    \cup PartiallyFilledEvents({o1, o2})

\* t1 can pay for o1 and little more, t3 for one share; both sellers have what
\* they sell, and t3 has no position yet.
MCInitialCash == (t1 :> 5) @@ (t2 :> 0) @@ (t3 :> 1)

MCInitialPositions ==
    (t1 :> [quantity |-> 1, hold |-> 0]) @@ (t2 :> [quantity |-> 2, hold |-> 0])
        @@ (t3 :> NoRow)

\* The limit buy o1 of t1 meets the limit sell o2 of the same trader.
SelfTradeEvents ==
    {PlacedEvent(o1, t1, "Limit", "Buy", 2, 2), PlacedEvent(o2, t1, "Limit", "Sell", 2, 1),
     TradeEvent(o1, "Limit", t1, o2, t1, 1)}
    \cup FilledEvents({o1, o2}) \cup PartiallyFilledEvents({o1, o2})

\* As the migrations leave the positions table: empty.
NoPositions == [t \in {t1, t2, t3} |-> NoRow]
=============================================================================
