--------------------------- MODULE MCMatchingEngine ---------------------------
(***************************************************************************)
(* Instances of MatchingEngine for TLC.                                    *)
(***************************************************************************)
EXTENDS MatchingEngineProperties

LimitOrder(side, limit, quantity) ==
    [side |-> side, type |-> "Limit", wellFormed |-> TRUE,
     limit |-> limit, quantity |-> quantity, balance |-> 0]

\* The caller of a market order may fill in a limit price: nothing reads it.
MarketOrder(side, quantity, cash) ==
    [side |-> side, type |-> "Market", wellFormed |-> TRUE,
     limit |-> 1, quantity |-> quantity, balance |-> cash]

Malformed == [LimitOrder("Buy", 1, 1) EXCEPT !.wellFormed = FALSE]

\* Every kind of order at two prices: limit orders, market sells, market buys
\* that can pay for nothing, for a part and for all, and orders the checks
\* refuse.
AllKinds ==
    {LimitOrder(side, limit, quantity) :
        side \in Sides, limit \in {1, 2}, quantity \in {1, 2}}
    \cup {MarketOrder("Sell", 2, 0)}
    \cup {MarketOrder("Buy", 2, cash) : cash \in {0, 1, 3, 4}}
    \cup {LimitOrder("Sell", 0, 1), LimitOrder("Buy", 1, 0), Malformed}

\* Few kinds, for instances with many orders: two quantities at one ask, a
\* second ask, a bid that crosses both and a market buy that runs out of cash.
DeepAsks ==
    {LimitOrder("Sell", 1, 1), LimitOrder("Sell", 1, 2), LimitOrder("Sell", 2, 1),
     LimitOrder("Buy", 2, 2), MarketOrder("Buy", 3, 4)}

\* The mirror image, bids with sell takers.
DeepBids ==
    {LimitOrder("Buy", 2, 1), LimitOrder("Buy", 2, 2), LimitOrder("Buy", 1, 1),
     LimitOrder("Sell", 1, 2), MarketOrder("Sell", 3, 0)}

\* A behavior has orders of one of the two sets.
DeepRequests == DeepAsks \cup DeepBids

OneDeepSide ==
    LET submitted == {request[o] : o \in Orders} \ {NoRequest}
    IN  submitted \subseteq DeepAsks \/ submitted \subseteq DeepBids

DeepSpec == Init /\ [][Next /\ OneDeepSide']_vars

Symmetry == Permutations(Orders)
=============================================================================
