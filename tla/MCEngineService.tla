---------------------------- MODULE MCEngineService ----------------------------
(***************************************************************************)
(* Instance of EngineService for TLC: a limit order without a side, a      *)
(* market buy, an invalid order and a cancel of the first call's order.    *)
(***************************************************************************)
EXTENDS EngineService

Place(s, side, type, valid) ==
    [method |-> "PlaceOrder", stock |-> s, side |-> side, type |-> type, valid |-> valid]

CONSTANTS s1, c1

MCRequests ==
    {Place(s1, "UNSPECIFIED", "LIMIT", TRUE), Place(s1, "BUY", "MARKET", TRUE),
     Place(s1, "SELL", "LIMIT", FALSE)}
    \cup {[method |-> "CancelOrder", stock |-> s1, side |-> "UNSPECIFIED", order |-> c1]}
=============================================================================
