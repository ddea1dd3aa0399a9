--------------------------- MODULE MCTradingPlatform ---------------------------
(***************************************************************************)
(* Instance of TradingPlatform for TLC.                                    *)
(***************************************************************************)
EXTENDS TradingPlatform

LimitOrder(side, limit, quantity) ==
    [side |-> side, type |-> "Limit", wellFormed |-> TRUE,
     limit |-> limit, quantity |-> quantity, balance |-> 0]

MarketOrder(side, quantity, balanceCents) ==
    [side |-> side, type |-> "Market", wellFormed |-> TRUE,
     limit |-> 1, quantity |-> quantity, balance |-> balanceCents]

\* Orders that trade at a better price than their limit, in parts, or run out
\* of cash; and one that is refused.
MCRequests ==
    {LimitOrder("Sell", 1, 1), LimitOrder("Sell", 2, 2), LimitOrder("Buy", 2, 2),
     LimitOrder("Buy", 1, 1), MarketOrder("Sell", 2, 0), MarketOrder("Sell", 1, 0),
     MarketOrder("Buy", 2, 3), MarketOrder("Buy", 1, 4),
     LimitOrder("Buy", 1, 0)}

Symmetry == Permutations(Orders)
=============================================================================
