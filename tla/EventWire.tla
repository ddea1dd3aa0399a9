------------------------------- MODULE EventWire -------------------------------
(***************************************************************************)
(* What an event is between the engine and the listener: MarshalEvent of   *)
(* matching_engine/internal/lib/events/marshal.go writes it as JSON,       *)
(* UnmarshalStreamEvent of event_listener/internal/events/unmarshal.go     *)
(* reads it back.                                                          *)
(*                                                                         *)
(* Event types, order types and sides travel as numbers, and each program  *)
(* has its own list of names for them.  Of the fields, those are here that *)
(* InsertEvent reads; the event's identifier and time are left out.        *)
(***************************************************************************)
EXTENDS Integers, Sequences

\* The iota constants of the engine: the first name is 0.
EngineEventTypes ==
    <<"OrderPlaced", "OrderCancelled", "OrderFilled", "OrderPartiallyFilled",
      "OrderRejected", "TradeExecuted">>
EngineOrderTypes == <<"Market", "Limit">>
EngineSides == <<"Buy", "Sell">>

\* Mutant: the listener lists the event types in another order.
ListenerEventTypesReordered ==
    <<"OrderPlaced", "OrderCancelled", "OrderRejected", "OrderPartiallyFilled",
      "OrderFilled", "TradeExecuted">>

\* The same of the listener.
ListenerEventTypes ==
    <<"OrderPlaced", "OrderCancelled", "OrderFilled", "OrderPartiallyFilled",
      "OrderRejected", "TradeExecuted">>
ListenerOrderTypes == <<"Market", "Limit">>
ListenerSides == <<"Buy", "Sell">>

Code(names, name) == (CHOOSE i \in DOMAIN names : names[i] = name) - 1
Name(names, code) == names[code + 1]

-----------------------------------------------------------------------------
(***************************************************************************)
(* The JSON of an event about the order o of request r, or of a trade      *)
(* between two orders.  Every order here has a trader of its own, named    *)
(* like it.                                                                *)
(***************************************************************************)
OrderPlacedJSON(o, r) ==
    [order_id |-> o, trader_id |-> o, order_type |-> Code(EngineOrderTypes, r.type),
     order_side |-> Code(EngineSides, r.side), quantity |-> r.quantity,
     limit_price_cents |-> r.limit]

OrderCancelledJSON(o, r) ==
    [order_id |-> o, order_type |-> Code(EngineOrderTypes, r.type),
     order_side |-> Code(EngineSides, r.side)]

OrderFilledJSON(o) == [order_id |-> o]

OrderPartiallyFilledJSON(e) ==
    [order_id |-> e.order, filled_quantity |-> e.filled, remaining_quantity |-> e.left]

OrderRejectedJSON(o) == [order_id |-> o]

\* Mutant: the type of the selling order is sent as that of the buying one.
TradeExecutedJSONSellerType(e, buyer, seller) ==
    [buyer_order_id |-> e.buyer, seller_order_id |-> e.seller,
     buyer_order_type |-> Code(EngineOrderTypes, seller.type),
     buyer_trader_id |-> e.buyer, seller_trader_id |-> e.seller,
     quantity |-> e.quantity, price_cents |-> e.price,
     total_value_cents |-> e.price * e.quantity]

TradeExecutedJSON(e, buyer, seller) ==
    [buyer_order_id |-> e.buyer, seller_order_id |-> e.seller,
     buyer_order_type |-> Code(EngineOrderTypes, buyer.type),
     buyer_trader_id |-> e.buyer, seller_trader_id |-> e.seller,
     quantity |-> e.quantity, price_cents |-> e.price,
     total_value_cents |-> e.price * e.quantity]

\* The envelope.  request maps the orders to what they asked for.
MarshalEvent(e, request) ==
    [type |-> Code(EngineEventTypes, e.type),
     data |->
        CASE e.type = "OrderPlaced" -> OrderPlacedJSON(e.order, request[e.order])
          [] e.type = "OrderCancelled" -> OrderCancelledJSON(e.order, request[e.order])
          [] e.type = "OrderFilled" -> OrderFilledJSON(e.order)
          [] e.type = "OrderPartiallyFilled" -> OrderPartiallyFilledJSON(e)
          [] e.type = "OrderRejected" -> OrderRejectedJSON(e.order)
          [] e.type = "TradeExecuted" ->
                TradeExecutedJSON(e, request[e.buyer], request[e.seller])]

-----------------------------------------------------------------------------
(***************************************************************************)
(* The payload structs of stream_types.                                    *)
(***************************************************************************)
OrderPlacedEvent(d) ==
    [type |-> "OrderPlaced", order |-> d.order_id, trader |-> d.trader_id,
     orderType |-> Name(ListenerOrderTypes, d.order_type),
     side |-> Name(ListenerSides, d.order_side),
     quantity |-> d.quantity, limit |-> d.limit_price_cents]

OrderCancelledEvent(d) ==
    [type |-> "OrderCancelled", order |-> d.order_id,
     orderType |-> Name(ListenerOrderTypes, d.order_type),
     side |-> Name(ListenerSides, d.order_side)]

OrderFilledEvent(d) == [type |-> "OrderFilled", order |-> d.order_id]

OrderPartiallyFilledEvent(d) ==
    [type |-> "OrderPartiallyFilled", order |-> d.order_id, filled |-> d.filled_quantity]

OrderRejectedEvent(d) == [type |-> "OrderRejected", order |-> d.order_id]

TradeExecutedEvent(d) ==
    [type |-> "TradeExecuted", buyer |-> d.buyer_order_id, seller |-> d.seller_order_id,
     buyerType |-> Name(ListenerOrderTypes, d.buyer_order_type),
     buyerTrader |-> d.buyer_trader_id, sellerTrader |-> d.seller_trader_id,
     quantity |-> d.quantity, price |-> d.price_cents, total |-> d.total_value_cents]

UnmarshalStreamEvent(entry) ==
    LET type == Name(ListenerEventTypes, entry.type) IN
    CASE type = "OrderPlaced" -> OrderPlacedEvent(entry.data)
      [] type = "OrderCancelled" -> OrderCancelledEvent(entry.data)
      [] type = "OrderFilled" -> OrderFilledEvent(entry.data)
      [] type = "OrderPartiallyFilled" -> OrderPartiallyFilledEvent(entry.data)
      [] type = "OrderRejected" -> OrderRejectedEvent(entry.data)
      [] type = "TradeExecuted" -> TradeExecutedEvent(entry.data)
=============================================================================
