------------------------------ MODULE Settlement ------------------------------
(***************************************************************************)
(* The settlement of the engine's events in PostgreSQL: InsertEvent of     *)
(* event_listener/internal/db/postgres/postgres.go and the statements of   *)
(* database/queries/event_listener/events.sql, with the constraints of     *)
(* database/migrations, for one stock.                                     *)
(*                                                                         *)
(* Every statement is one transaction.  It commits only if the rows it     *)
(* leaves satisfy the CHECKs and the foreign keys; otherwise, or when the  *)
(* database cannot be reached, InsertEvent returns an error and nothing    *)
(* has changed.  The specification below delivers any event of WireEvents *)
(* at any time: events that are lost, repeated or out of order are all     *)
(* among its behaviors.  Events of traders without a row fail and are not  *)
(* among WireEvents.                                                       *)
(*                                                                         *)
(* Left out: timestamps, the cost basis of positions, the portfolio value, *)
(* the price of the stock.                                                 *)
(***************************************************************************)
EXTENDS Integers, Sequences

CONSTANTS
    Orders,
    Traders,          \* the traders that have a row
    WireEvents,       \* the events that may be delivered
    InitialCash,      \* cash_balance_cents when the listener starts
    InitialPositions, \* the positions at that time
    NoRow,            \* the key is not in the table
    MaxTrades         \* bound: rows of the trades table

\* limit_price_cents is NULL.  SQL would make NULL of a sum with it, and this
\* makes a number; but the two statements that calculate with the limit
\* (HandleLimitBuyTradeExecuted, HandleLimitBuyOrderCancelled) are dispatched
\* for limit buys alone, and all events of an order give
\* it the same type: its row has a limit.
NoLimit == 0

Positions == [quantity : Nat, hold : Nat]

Rows ==
    [trader : Traders, type : {"Limit", "Market"}, side : {"Buy", "Sell"},
     quantity : Int, filled : Int, remaining : Int, limit : Int,
     status : {"PENDING", "PARTIAL", "FILLED", "CANCELLED"}]

\* The payloads of stream_types, as far as a statement reads them.
EventType ==
    [type : {"OrderPlaced"}, order : Orders, trader : Traders,
     orderType : {"Limit", "Market"}, side : {"Buy", "Sell"},
     quantity : Int, limit : Int]
    \cup [type : {"OrderCancelled"}, order : Orders,
          orderType : {"Limit", "Market"}, side : {"Buy", "Sell"}]
    \cup [type : {"OrderFilled", "OrderRejected"}, order : Orders]
    \cup [type : {"OrderPartiallyFilled"}, order : Orders, filled : Int]
    \cup [type : {"TradeExecuted"}, buyer : Orders, seller : Orders,
          buyerType : {"Limit", "Market"}, buyerTrader : Traders,
          sellerTrader : Traders, quantity : Int, price : Int, total : Nat]

ASSUME SettlementAssumption ==
    /\ WireEvents \subseteq EventType
    /\ InitialCash \in [Traders -> Nat]
    /\ InitialPositions \in [Traders -> Positions \cup {NoRow}]
    /\ NoRow \notin [quantity : Int, hold : Int]
    /\ NoRow \notin Rows

VARIABLES
    cash,       \* traders.cash_balance_cents
    cashHold,   \* traders.cash_hold_cents
    positions,  \* the positions table
    rows,       \* the orders table
    trades      \* the trades table, in the order of insertion

tables == <<cash, cashHold, positions, rows, trades>>

Init ==
    /\ cash = InitialCash
    /\ cashHold = [t \in Traders |-> 0]
    /\ positions = InitialPositions
    /\ rows = [o \in Orders |-> NoRow]
    /\ trades = <<>>

-----------------------------------------------------------------------------
\* Mutant: the balance has no CHECK.
CashChecksIgnoreBalance ==
    \A t \in Traders : cashHold[t] >= 0

\* CHECK (cash_balance_cents >= 0), CHECK (cash_hold_cents >= 0).
CashChecks ==
    \A t \in Traders : cash[t] >= 0 /\ cashHold[t] >= 0

\* CHECK (quantity >= 0), CHECK (quantity_hold >= 0) of positions.
PositionChecks ==
    \A t \in Traders : positions[t] # NoRow =>
        positions[t].quantity >= 0 /\ positions[t].hold >= 0

\* CHECK (filled_quantity >= 0), CHECK (remaining_quantity >= 0) of orders.
RowChecks ==
    \A o \in Orders : rows[o] # NoRow =>
        rows[o].filled >= 0 /\ rows[o].remaining >= 0

IsOpen(o) == rows[o] # NoRow /\ rows[o].status \in {"PENDING", "PARTIAL"}

\* INSERT INTO orders, with its primary key and CHECK (quantity > 0).
InsertOrder(e, limit) ==
    /\ rows[e.order] = NoRow
    /\ e.quantity > 0
    /\ rows' = [rows EXCEPT ![e.order] =
                  [trader |-> e.trader, type |-> e.orderType, side |-> e.side,
                   quantity |-> e.quantity, filled |-> 0, remaining |-> e.quantity,
                   limit |-> limit, status |-> "PENDING"]]

HandleLimitBuyOrderPlaced(e) ==
    /\ InsertOrder(e, e.limit)
    /\ cash' = [cash EXCEPT ![e.trader] = @ - e.quantity * e.limit]
    /\ cashHold' = [cashHold EXCEPT ![e.trader] = @ + e.quantity * e.limit]
    /\ CashChecks'
    /\ UNCHANGED <<positions, trades>>

HandleMarketBuyOrderPlaced(e) ==
    /\ InsertOrder(e, NoLimit)
    /\ UNCHANGED <<cash, cashHold, positions, trades>>

\* A trader without a position locks nothing: the UPDATE finds no row.
HandleSellOrderPlaced(e) ==
    /\ InsertOrder(e, IF e.orderType = "Limit" THEN e.limit ELSE NoLimit)
    /\ positions' =
          [positions EXCEPT ![e.trader] =
              IF @ = NoRow THEN NoRow
              ELSE [quantity |-> @.quantity - e.quantity, hold |-> @.hold + e.quantity]]
    /\ PositionChecks'
    /\ UNCHANGED <<cash, cashHold, trades>>

-----------------------------------------------------------------------------
(***************************************************************************)
(* The two trade statements.  Both update the buyer's and the seller's     *)
(* row of traders and of positions in one command.  When they are one      *)
(* trader, PostgreSQL applies only one of two updates of the same row and  *)
(* does not say which; an INSERT .. ON CONFLICT may also fail.             *)
(***************************************************************************)
BothSides == {"buyer", "seller"}

SelfTrade(e) == e.buyerTrader = e.sellerTrader

\* The updates of traders, and of positions, that take effect.
CashUpdates(e) == IF SelfTrade(e) THEN {{"buyer"}, {"seller"}} ELSE {BothSides}

PositionUpdates(e) ==
    IF ~SelfTrade(e) THEN {BothSides}
    ELSE IF positions[e.sellerTrader] = NoRow THEN {{"buyer"}}
    ELSE {{"buyer"}, {"seller"}}

Gets(t, trader, who, updates, amount) ==
    IF who \in updates /\ t = trader THEN amount ELSE 0

\* INSERT INTO trades, with its foreign keys.  A trade that would make the
\* table larger than MaxTrades is left out.
InsertTrade(e) ==
    /\ Len(trades) < MaxTrades
    /\ rows[e.buyer] # NoRow /\ rows[e.seller] # NoRow
    /\ e.quantity > 0 /\ e.price > 0
    /\ trades' = Append(trades, e)

\* The buyer's upsert and the seller's release of the hold.
MoveShares(e) ==
    \E updates \in PositionUpdates(e) :
        /\ positions' = [t \in Traders |->
              LET bought == Gets(t, e.buyerTrader, "buyer", updates, e.quantity)
                  sold == Gets(t, e.sellerTrader, "seller", updates, e.quantity)
              IN  IF positions[t] # NoRow
                  THEN [quantity |-> positions[t].quantity + bought,
                        hold |-> positions[t].hold - sold]
                  ELSE IF bought > 0 THEN [quantity |-> bought, hold |-> 0]
                  ELSE NoRow]
        /\ PositionChecks'

\* The buyer's balance and hold change by the given amounts, the seller's
\* balance by the value of the trade.
MoveCash(e, balanceChange, holdChange) ==
    \E updates \in CashUpdates(e) :
        /\ cash' = [t \in Traders |-> cash[t]
              + Gets(t, e.buyerTrader, "buyer", updates, balanceChange)
              + Gets(t, e.sellerTrader, "seller", updates, e.total)]
        /\ cashHold' = [t \in Traders |-> cashHold[t]
              + Gets(t, e.buyerTrader, "buyer", updates, holdChange)]
        /\ CashChecks'

\* Mutant: the price improvement is not paid back.
HandleLimitBuyTradeExecutedNoRefund(e) ==
    /\ InsertTrade(e)
    /\ MoveShares(e)
    /\ MoveCash(e, 0, -(e.quantity * rows[e.buyer].limit))
    /\ UNCHANGED rows

\* Mutant: the hold is released at the price of the trade only.
HandleLimitBuyTradeExecutedAtPrice(e) ==
    /\ InsertTrade(e)
    /\ MoveShares(e)
    /\ MoveCash(e, 0, -e.total)
    /\ UNCHANGED rows

\* The hold is released at the buyer's limit, what the price was better is
\* paid back.
HandleLimitBuyTradeExecuted(e) ==
    /\ InsertTrade(e)
    /\ MoveShares(e)
    /\ LET held == e.quantity * rows[e.buyer].limit
       IN  MoveCash(e, held - e.total, -held)
    /\ UNCHANGED rows

HandleMarketBuyTradeExecuted(e) ==
    /\ InsertTrade(e)
    /\ MoveShares(e)
    /\ MoveCash(e, -e.total, 0)
    /\ UNCHANGED rows

-----------------------------------------------------------------------------
\* A row with another status and other quantities.
WithFill(row, status, filled, left) ==
    [row EXCEPT !.status = status, !.filled = filled, !.remaining = left]

\* Mutant: what remains is not cleared.
HandleOrderFilledKeepsRemaining(e) ==
    /\ rows' = [rows EXCEPT ![e.order] =
                  IF @ = NoRow THEN NoRow
                  ELSE WithFill(@, "FILLED", @.quantity, @.remaining)]
    /\ UNCHANGED <<cash, cashHold, positions, trades>>

\* An UPDATE of an order without a row changes nothing and succeeds.
HandleOrderFilled(e) ==
    /\ rows' = [rows EXCEPT ![e.order] =
                  IF @ = NoRow THEN NoRow ELSE WithFill(@, "FILLED", @.quantity, 0)]
    /\ UNCHANGED <<cash, cashHold, positions, trades>>

HandleOrderPartiallyFilled(e) ==
    /\ rows' = [rows EXCEPT ![e.order] =
                  IF @ = NoRow THEN NoRow
                  ELSE WithFill(@, "PARTIAL", @.filled + e.filled, @.remaining - e.filled)]
    /\ RowChecks'
    /\ UNCHANGED <<cash, cashHold, positions, trades>>

CancelRow(o) ==
    rows' = IF IsOpen(o) THEN [rows EXCEPT ![o].status = "CANCELLED"] ELSE rows

\* The hold goes back for what remains; an order that is not open is left alone.
HandleLimitBuyOrderCancelled(e) ==
    /\ CancelRow(e.order)
    /\ IF IsOpen(e.order)
       THEN LET row == rows[e.order]
                back == row.remaining * row.limit
            IN  /\ cash' = [cash EXCEPT ![row.trader] = @ + back]
                /\ cashHold' = [cashHold EXCEPT ![row.trader] = @ - back]
       ELSE UNCHANGED <<cash, cashHold>>
    /\ CashChecks'
    /\ UNCHANGED <<positions, trades>>

HandleMarketBuyOrderCancelled(e) ==
    /\ CancelRow(e.order)
    /\ UNCHANGED <<cash, cashHold, positions, trades>>

\* Mutant: the hold is not lowered.
HandleSellOrderCancelledKeepsHold(e) ==
    /\ CancelRow(e.order)
    /\ IF IsOpen(e.order) /\ positions[rows[e.order].trader] # NoRow
       THEN positions' =
              [positions EXCEPT ![rows[e.order].trader].quantity = @ + rows[e.order].remaining]
       ELSE UNCHANGED positions
    /\ PositionChecks'
    /\ UNCHANGED <<cash, cashHold, trades>>

\* The shares go back likewise.
HandleSellOrderCancelled(e) ==
    /\ CancelRow(e.order)
    /\ IF IsOpen(e.order)
       THEN LET row == rows[e.order]
            IN  positions' =
                  [positions EXCEPT ![row.trader] =
                      IF @ = NoRow THEN NoRow
                      ELSE [quantity |-> @.quantity + row.remaining,
                            hold |-> @.hold - row.remaining]]
       ELSE UNCHANGED positions
    /\ PositionChecks'
    /\ UNCHANGED <<cash, cashHold, trades>>

-----------------------------------------------------------------------------
\* The cases of InsertEvent: which statement runs depends on the order's type
\* and side, and for a trade on the type of the buyer's order.
InsertPlaced(e) ==
    \/ e.orderType = "Limit" /\ e.side = "Buy" /\ HandleLimitBuyOrderPlaced(e)
    \/ e.orderType = "Market" /\ e.side = "Buy" /\ HandleMarketBuyOrderPlaced(e)
    \/ e.side = "Sell" /\ HandleSellOrderPlaced(e)

InsertCancelled(e) ==
    \/ e.orderType = "Limit" /\ e.side = "Buy" /\ HandleLimitBuyOrderCancelled(e)
    \/ e.orderType = "Market" /\ e.side = "Buy" /\ HandleMarketBuyOrderCancelled(e)
    \/ e.side = "Sell" /\ HandleSellOrderCancelled(e)

InsertTradeExecuted(e) ==
    \/ e.buyerType = "Limit" /\ HandleLimitBuyTradeExecuted(e)
    \/ e.buyerType = "Market" /\ HandleMarketBuyTradeExecuted(e)

\* InsertEvent returns nil, which it never does for a Rejected event.
InsertEvent(e) ==
    \/ e.type = "OrderPlaced" /\ InsertPlaced(e)
    \/ e.type = "OrderCancelled" /\ InsertCancelled(e)
    \/ e.type = "OrderFilled" /\ HandleOrderFilled(e)
    \/ e.type = "OrderPartiallyFilled" /\ HandleOrderPartiallyFilled(e)
    \/ e.type = "TradeExecuted" /\ InsertTradeExecuted(e)

\* InsertEvent returns an error, the transaction is rolled back.
InsertFails == UNCHANGED tables

\* The INSERT of a rejected order omits columns that are NOT NULL.
HandleOrderRejected(e) == e.type = "OrderRejected" /\ InsertFails

Next ==
    \/ \E e \in WireEvents : InsertEvent(e)
    \/ InsertFails

Spec == Init /\ [][Next]_tables
-----------------------------------------------------------------------------
\* The columns have their types, and the CHECKs hold: no statement commits
\* that would overdraw a balance, a position or a hold.
SettlementTypeOK ==
    /\ cash \in [Traders -> Nat]
    /\ cashHold \in [Traders -> Nat]
    /\ positions \in [Traders -> Positions \cup {NoRow}]
    /\ rows \in [Orders -> Rows \cup {NoRow}]
    /\ trades \in Seq(EventType)

\* What is filled and what remains always add up to what was ordered, and an
\* order that is recorded as filled has nothing left: whichever of its events
\* are lost, repeated or late (HandleOrderFilled, HandleOrderPartiallyFilled).
RowsAddUp ==
    \A o \in Orders : rows[o] # NoRow =>
        /\ rows[o].filled + rows[o].remaining = rows[o].quantity
        /\ rows[o].filled >= 0 /\ rows[o].remaining >= 0
        /\ rows[o].status = "FILLED" => rows[o].remaining = 0

Cash == INSTANCE Ledger WITH
    account <- [t \in Traders |-> cash[t] + cashHold[t]]

Shares == INSTANCE Ledger WITH
    account <- [t \in Traders |->
        IF positions[t] = NoRow THEN 0 ELSE positions[t].quantity + positions[t].hold]

\* What the two properties below need of the events that are delivered.
TradesHaveTwoTraders ==
    \A e \in WireEvents : e.type = "TradeExecuted" => ~SelfTrade(e)

SellersHavePositions ==
    \A e \in WireEvents : e.type = "TradeExecuted" => InitialPositions[e.sellerTrader] # NoRow

\* Money only ever moves from one trader to another: no hold, refund, release
\* or repeated event creates or destroys any, or makes a debt.  This holds if
\* TradesHaveTwoTraders; what a trade with oneself does is the subject of
\* SelfTradeReleasesHold.
MoneyOnlyMoves == Cash!Spec

\* The same of shares, if also SellersHavePositions.
SharesOnlyMove == Shares!Spec

\* events.sql:121, "Release buyer's cash hold at limit price": the trade of a
\* limit buy lowers its trader's hold, whoever the seller is.
SelfTradeReleasesHold ==
    [][ Len(trades') > Len(trades) =>
          LET e == trades'[Len(trades')]
          IN  e.buyerType = "Limit" => cashHold'[e.buyerTrader] < cashHold[e.buyerTrader]
      ]_tables

\* events.sql:82, "Lock shares for sell": a sell that is recorded has its shares
\* on hold.
SellLocksShares ==
    [][ \A o \in Orders :
          rows[o] = NoRow /\ rows'[o] # NoRow /\ rows'[o].side = "Sell" =>
             LET t == rows'[o].trader
             IN  /\ positions'[t] # NoRow
                 /\ positions'[t].hold >= rows'[o].quantity ]_tables
=============================================================================
