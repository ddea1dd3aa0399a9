--------------------------- MODULE SettlementProofs ---------------------------
(***************************************************************************)
(* The settlement keeps its tables consistent and creates neither money    *)
(* nor shares, for any traders, orders and events, delivered in any order  *)
(* and any number of times.                                                *)
(***************************************************************************)
EXTENDS Settlement, SequenceTheorems, TLAPS

\* A delivered event has the fields of its type.
LEMMA Fields ==
    ASSUME NEW e \in WireEvents
    PROVE  /\ e.type = "OrderPlaced" =>
                e.order \in Orders /\ e.trader \in Traders
                /\ e.orderType \in {"Limit", "Market"} /\ e.side \in {"Buy", "Sell"}
                /\ e.quantity \in Int /\ e.limit \in Int
           /\ e.type \in {"OrderCancelled", "OrderFilled", "OrderPartiallyFilled"} =>
                e.order \in Orders
           /\ e.type = "OrderPartiallyFilled" => e.filled \in Int
           /\ e.type = "TradeExecuted" =>
                e.buyer \in Orders /\ e.seller \in Orders
                /\ e.buyerTrader \in Traders /\ e.sellerTrader \in Traders
                /\ e.quantity \in Int /\ e.price \in Int /\ e.total \in Nat
BY SettlementAssumption DEF EventType

-----------------------------------------------------------------------------
(***************************************************************************)
(* The orders table: one lemma per statement that writes it.               *)
(***************************************************************************)
RowsTypeOK == rows \in [Orders -> Rows \cup {NoRow}]

RowsInv == RowsTypeOK /\ RowsAddUp

\* A new row starts with everything remaining.
LEMMA InsertOrderRows ==
    ASSUME RowsInv, NEW e \in WireEvents, e.type = "OrderPlaced",
           NEW limit \in Int, InsertOrder(e, limit)
    PROVE  RowsInv'
<1> DEFINE row == [trader |-> e.trader, type |-> e.orderType, side |-> e.side,
                   quantity |-> e.quantity, filled |-> 0, remaining |-> e.quantity,
                   limit |-> limit, status |-> "PENDING"]
<1>1. row \in Rows
  BY Fields DEF Rows
<1>2. row # NoRow
  BY <1>1, SettlementAssumption
<1>3. /\ row.filled = 0 /\ row.remaining = e.quantity /\ row.quantity = e.quantity
      /\ row.status = "PENDING" /\ e.quantity \in Int /\ e.quantity > 0
  BY Fields DEF InsertOrder
<1>4. rows' = [rows EXCEPT ![e.order] = row]
  BY DEF InsertOrder
<1> HIDE DEF row
<1>5. RowsTypeOK'
  BY <1>1, <1>4, Fields DEF RowsInv, RowsTypeOK
<1>6. RowsAddUp'
  <2> SUFFICES ASSUME NEW o \in Orders, rows'[o] # NoRow
               PROVE  /\ rows'[o].filled + rows'[o].remaining = rows'[o].quantity
                      /\ rows'[o].filled >= 0 /\ rows'[o].remaining >= 0
                      /\ rows'[o].status = "FILLED" => rows'[o].remaining = 0
    BY DEF RowsAddUp
  <2>1. CASE o = e.order
    <3>1. rows'[o] = row
      BY <1>4, <2>1, Fields DEF RowsInv, RowsTypeOK
    <3>2. QED
      BY <1>3, <3>1
  <2>2. CASE o # e.order
    BY <1>4, <2>2 DEF RowsInv, RowsTypeOK, RowsAddUp
  <2>3. QED
    BY <2>1, <2>2
<1>7. QED
  BY <1>5, <1>6 DEF RowsInv

\* What an UPDATE of the two quantities and the status makes of a row.
LEMMA UpdatedRow ==
    ASSUME NEW r \in Rows, NEW filled \in Int, NEW left \in Int,
           NEW status \in {"PENDING", "PARTIAL", "FILLED", "CANCELLED"}
    PROVE  /\ WithFill(r, status, filled, left) \in Rows
           /\ WithFill(r, status, filled, left).status = status
           /\ WithFill(r, status, filled, left).filled = filled
           /\ WithFill(r, status, filled, left).remaining = left
           /\ WithFill(r, status, filled, left).quantity = r.quantity
<1> DEFINE r1 == [r EXCEPT !.status = status]
           r2 == [r1 EXCEPT !.filled = filled]
           r3 == [r2 EXCEPT !.remaining = left]
<1>1. r1 \in Rows /\ r1.status = status /\ r1.quantity = r.quantity
  BY DEF Rows
<1>2. r3 = WithFill(r, status, filled, left)
  BY DEF WithFill
<1> HIDE DEF r1
<1>3. r2 \in Rows /\ r2.status = status /\ r2.quantity = r.quantity /\ r2.filled = filled
  BY <1>1 DEF Rows
<1> HIDE DEF r2
<1>4. /\ r3 \in Rows /\ r3.status = status /\ r3.quantity = r.quantity
      /\ r3.filled = filled /\ r3.remaining = left
  BY <1>3 DEF Rows
<1>5. QED
  BY <1>2, <1>4

\* An UPDATE that keeps the sum of the quantities keeps the table consistent.
LEMMA UpdateRows ==
    ASSUME RowsInv, NEW o \in Orders, rows[o] # NoRow,
           NEW filled \in Int, NEW left \in Int,
           NEW status \in {"PENDING", "PARTIAL", "FILLED", "CANCELLED"},
           rows' = [rows EXCEPT ![o] = WithFill(rows[o], status, filled, left)],
           filled >= 0, left >= 0, filled + left = rows[o].quantity,
           status = "FILLED" => left = 0
    PROVE  RowsInv'
<1> DEFINE row == WithFill(rows[o], status, filled, left)
<1>1. rows[o] \in Rows
  BY DEF RowsInv, RowsTypeOK
<1>2. /\ row \in Rows /\ row.status = status /\ row.filled = filled
      /\ row.remaining = left /\ row.quantity = rows[o].quantity
  BY <1>1, UpdatedRow
<1> HIDE DEF row
<1>3. rows' = [rows EXCEPT ![o] = row]
  BY DEF row
<1>4. RowsTypeOK'
  BY <1>2, <1>3 DEF RowsInv, RowsTypeOK
<1>5. RowsAddUp'
  BY <1>2, <1>3 DEF RowsInv, RowsTypeOK, RowsAddUp
<1>6. QED
  BY <1>4, <1>5 DEF RowsInv

\* A full fill clears what remains.
LEMMA FilledRows ==
    ASSUME RowsInv, NEW e \in WireEvents, e.type = "OrderFilled", HandleOrderFilled(e)
    PROVE  RowsInv'
<1>1. CASE rows[e.order] = NoRow
  <2>1. rows' = rows
    BY <1>1, Fields DEF HandleOrderFilled, RowsInv, RowsTypeOK
  <2>2. QED
    BY <2>1 DEF RowsInv, RowsTypeOK, RowsAddUp
<1>2. CASE rows[e.order] # NoRow
  <2> DEFINE filled == rows[e.order].quantity
             left == 0
  <2>1. e.order \in Orders
    BY Fields
  <2>2. filled \in Int /\ filled >= 0
    BY <1>2, <2>1 DEF RowsInv, RowsTypeOK, RowsAddUp, Rows
  <2>3. rows' = [rows EXCEPT ![e.order] = WithFill(rows[e.order], "FILLED", filled, left)]
    BY <1>2, <2>1 DEF HandleOrderFilled
  <2>4. left \in Int /\ left >= 0 /\ left = 0 /\ filled + left = rows[e.order].quantity
    BY <2>2
  <2> HIDE DEF filled, left
  <2>5. QED
    BY <1>2, <2>1, <2>2, <2>3, <2>4, UpdateRows
<1>3. QED
  BY <1>1, <1>2

\* A partial fill moves shares from remaining to filled, or its CHECK refuses.
LEMMA PartiallyFilledRows ==
    ASSUME RowsInv, NEW e \in WireEvents, e.type = "OrderPartiallyFilled",
           HandleOrderPartiallyFilled(e)
    PROVE  RowsInv'
<1>1. CASE rows[e.order] = NoRow
  <2>1. rows' = rows
    BY <1>1, Fields DEF HandleOrderPartiallyFilled, RowsInv, RowsTypeOK
  <2>2. QED
    BY <2>1 DEF RowsInv, RowsTypeOK, RowsAddUp
<1>2. CASE rows[e.order] # NoRow
  <2> DEFINE filled == rows[e.order].filled + e.filled
             left == rows[e.order].remaining - e.filled
  <2>1. rows[e.order] \in Rows /\ e.filled \in Int /\ e.order \in Orders
    BY <1>2, Fields DEF RowsInv, RowsTypeOK
  <2>2. filled \in Int /\ left \in Int /\ filled + left = rows[e.order].quantity
    BY <1>2, <2>1 DEF RowsInv, RowsAddUp, Rows
  <2>3. rows' = [rows EXCEPT ![e.order] = WithFill(rows[e.order], "PARTIAL", filled, left)]
    BY <1>2, <2>1 DEF HandleOrderPartiallyFilled
  <2>4. filled >= 0 /\ left >= 0
    <3>1. /\ rows'[e.order] = WithFill(rows[e.order], "PARTIAL", filled, left)
      BY <2>1, <2>3 DEF RowsInv, RowsTypeOK
    <3>2. /\ rows'[e.order] \in Rows /\ rows'[e.order].filled = filled
          /\ rows'[e.order].remaining = left
      BY <2>1, <2>2, <3>1, UpdatedRow
    <3>3. rows'[e.order] # NoRow
      BY <3>2, SettlementAssumption
    <3>4. QED
      BY <2>1, <3>2, <3>3 DEF HandleOrderPartiallyFilled, RowChecks
  <2> HIDE DEF filled, left
  <2>5. QED
    BY <1>2, <2>1, <2>2, <2>3, <2>4, UpdateRows
<1>3. QED
  BY <1>1, <1>2

\* A cancel changes the status of an open order and nothing else.
LEMMA CancelRowRows ==
    ASSUME RowsInv, NEW o \in Orders, CancelRow(o)
    PROVE  RowsInv'
<1>1. CASE ~IsOpen(o)
  BY <1>1 DEF CancelRow, RowsInv, RowsTypeOK, RowsAddUp
<1>2. CASE IsOpen(o)
  <2> DEFINE row == [rows[o] EXCEPT !.status = "CANCELLED"]
  <2>1. rows[o] \in Rows /\ rows[o] # NoRow
    BY <1>2 DEF IsOpen, RowsInv, RowsTypeOK
  <2>2. /\ row \in Rows /\ row.filled = rows[o].filled /\ row.status = "CANCELLED"
        /\ row.remaining = rows[o].remaining /\ row.quantity = rows[o].quantity
    BY <2>1 DEF Rows
  <2>3. rows' = [rows EXCEPT ![o] = row]
    BY <1>2, <2>1 DEF CancelRow, RowsInv, RowsTypeOK, Rows
  <2> HIDE DEF row
  <2>4. RowsTypeOK'
    BY <2>2, <2>3 DEF RowsInv, RowsTypeOK
  <2>5. RowsAddUp'
    BY <2>1, <2>2, <2>3 DEF RowsInv, RowsTypeOK, RowsAddUp
  <2>6. QED
    BY <2>4, <2>5 DEF RowsInv
<1>3. QED
  BY <1>1, <1>2

\* Every event that is settled keeps the orders table consistent.
LEMMA InsertEventRows ==
    ASSUME RowsInv, NEW e \in WireEvents, InsertEvent(e)
    PROVE  RowsInv'
<1>1. CASE e.type = "OrderPlaced"
  <2>1. \E limit \in Int : InsertOrder(e, limit)
    BY <1>1, Fields DEF InsertEvent, InsertPlaced, HandleLimitBuyOrderPlaced,
                        HandleMarketBuyOrderPlaced, HandleSellOrderPlaced, NoLimit
  <2>2. QED
    BY <1>1, <2>1, InsertOrderRows
<1>2. CASE e.type = "OrderCancelled"
  <2>1. CancelRow(e.order)
    BY <1>2 DEF InsertEvent, InsertCancelled, HandleLimitBuyOrderCancelled,
                HandleMarketBuyOrderCancelled, HandleSellOrderCancelled
  <2>2. QED
    BY <1>2, <2>1, Fields, CancelRowRows
<1>3. CASE e.type = "OrderFilled"
  BY <1>3, FilledRows DEF InsertEvent
<1>4. CASE e.type = "OrderPartiallyFilled"
  BY <1>4, PartiallyFilledRows DEF InsertEvent
<1>5. CASE e.type = "TradeExecuted"
  <2>1. UNCHANGED rows
    BY <1>5 DEF InsertEvent, InsertTradeExecuted, HandleLimitBuyTradeExecuted,
                HandleMarketBuyTradeExecuted
  <2>2. QED
    BY <2>1 DEF RowsInv, RowsTypeOK, RowsAddUp
<1>6. QED
  BY <1>1, <1>2, <1>3, <1>4, <1>5 DEF InsertEvent

-----------------------------------------------------------------------------
(***************************************************************************)
(* Money: what a trader has, and how each kind of statement changes it.    *)
(***************************************************************************)
CashTypeOK == cash \in [Traders -> Nat] /\ cashHold \in [Traders -> Nat]

Money == [t \in Traders |-> cash[t] + cashHold[t]]

\* What CHECK makes of integers.
LEMMA CashChecked ==
    ASSUME cash' \in [Traders -> Int], cashHold' \in [Traders -> Int], CashChecks'
    PROVE  CashTypeOK'
BY DEF CashTypeOK, CashChecks

\* Taking a hold, or giving it back, leaves what the trader has as it is.
LEMMA HoldKeepsMoney ==
    ASSUME CashTypeOK, NEW t \in Traders, NEW amount \in Int,
           cash' = [cash EXCEPT ![t] = @ - amount],
           cashHold' = [cashHold EXCEPT ![t] = @ + amount],
           CashChecks'
    PROVE  CashTypeOK' /\ Money' = Money
<1>1. CashTypeOK'
  <2>1. cash' \in [Traders -> Int] /\ cashHold' \in [Traders -> Int]
    BY DEF CashTypeOK
  <2>2. QED
    BY <2>1, CashChecked
<1>2. ASSUME NEW u \in Traders PROVE cash'[u] + cashHold'[u] = cash[u] + cashHold[u]
  BY DEF CashTypeOK
<1>3. QED
  BY <1>1, <1>2 DEF Money

\* The cash of a trade between two traders is a transfer from the buyer to the
\* seller, whatever part of it was on hold.
LEMMA TradeMovesMoney ==
    ASSUME CashTypeOK, NEW e \in WireEvents, e.type = "TradeExecuted",
           NEW balanceChange \in Int, NEW holdChange \in Int,
           balanceChange + holdChange = -e.total,
           MoveCash(e, balanceChange, holdChange)
    PROVE  CashTypeOK' /\ (~SelfTrade(e) => Cash!Next)
<1>1. /\ e.buyerTrader \in Traders /\ e.sellerTrader \in Traders /\ e.total \in Nat
  BY Fields
<1>2. CashTypeOK'
  <2>1. PICK updates \in CashUpdates(e) :
          /\ cash' = [t \in Traders |-> cash[t]
                + Gets(t, e.buyerTrader, "buyer", updates, balanceChange)
                + Gets(t, e.sellerTrader, "seller", updates, e.total)]
          /\ cashHold' = [t \in Traders |-> cashHold[t]
                + Gets(t, e.buyerTrader, "buyer", updates, holdChange)]
          /\ CashChecks'
    BY DEF MoveCash
  <2>2. ASSUME NEW t \in Traders
        PROVE  /\ Gets(t, e.buyerTrader, "buyer", updates, balanceChange) \in Int
               /\ Gets(t, e.sellerTrader, "seller", updates, e.total) \in Int
               /\ Gets(t, e.buyerTrader, "buyer", updates, holdChange) \in Int
    BY <1>1 DEF Gets
  <2>3. cash' \in [Traders -> Int] /\ cashHold' \in [Traders -> Int]
    BY <2>1, <2>2 DEF CashTypeOK
  <2>4. QED
    BY <2>1, <2>3, CashChecked
<1>3. ASSUME ~SelfTrade(e) PROVE Cash!Next
  <2> DEFINE buyer == e.buyerTrader
             seller == e.sellerTrader
  <2>1. buyer # seller /\ buyer \in Traders /\ seller \in Traders
    BY <1>1, <1>3 DEF SelfTrade
  <2>2. /\ cash' = [t \in Traders |-> cash[t]
                + Gets(t, buyer, "buyer", BothSides, balanceChange)
                + Gets(t, seller, "seller", BothSides, e.total)]
        /\ cashHold' = [t \in Traders |-> cashHold[t]
                + Gets(t, buyer, "buyer", BothSides, holdChange)]
    BY <1>3 DEF MoveCash, CashUpdates
  <2>3. ASSUME NEW t \in Traders
        PROVE  /\ Money[t] \in Nat /\ Money'[t] \in Nat
               /\ Money'[t] = IF t = buyer THEN Money[t] - e.total
                              ELSE IF t = seller THEN Money[t] + e.total ELSE Money[t]
    <3>1. /\ cash[t] \in Nat /\ cashHold[t] \in Nat
          /\ cash'[t] \in Nat /\ cashHold'[t] \in Nat
      BY <1>2 DEF CashTypeOK
    <3>2. Money[t] = cash[t] + cashHold[t] /\ Money'[t] = cash'[t] + cashHold'[t]
      BY DEF Money
    <3>3. cash'[t] = cash[t] + (IF t = buyer THEN balanceChange ELSE 0)
                             + (IF t = seller THEN e.total ELSE 0)
      BY <2>2 DEF Gets, BothSides
    <3>4. cashHold'[t] = cashHold[t] + (IF t = buyer THEN holdChange ELSE 0)
      BY <2>2 DEF Gets, BothSides
    <3>5. Money[t] \in Nat /\ Money'[t] \in Nat
      BY <3>1, <3>2
    <3>6. CASE t = buyer
      BY <1>1, <2>1, <3>1, <3>2, <3>3, <3>4, <3>5, <3>6
    <3>7. CASE t # buyer
      BY <1>1, <3>1, <3>2, <3>3, <3>4, <3>5, <3>7
    <3>8. QED
      BY <3>5, <3>6, <3>7
  <2>4. e.total \in 0..Money[buyer]
    <3>1. Money'[buyer] = Money[buyer] - e.total /\ Money[buyer] \in Nat /\ Money'[buyer] \in Nat
      BY <2>1, <2>3
    <3> HIDE DEF buyer
    <3>2. QED
      BY <1>1, <3>1
  <2>5. Money' = [Money EXCEPT ![buyer] = @ - e.total, ![seller] = @ + e.total]
    BY <2>1, <2>3 DEF Money
  <2>6. Cash!Transfer(buyer, seller, e.total)
    BY <1>1, <2>1, <2>4, <2>5 DEF Cash!Transfer, Money
  <2>7. QED
    BY <2>1, <2>4, <2>6 DEF Cash!Next, Money
<1>4. QED
  BY <1>2, <1>3

\* Every event that is settled keeps what traders have, or moves it once.
LEMMA InsertEventMoney ==
    ASSUME RowsInv, CashTypeOK, NEW e \in WireEvents, InsertEvent(e)
    PROVE  /\ CashTypeOK'
           /\ TradesHaveTwoTraders => Cash!Next \/ Money' = Money
<1>1. CASE UNCHANGED <<cash, cashHold>>
  BY <1>1 DEF CashTypeOK, Money
<1>2. CASE HandleLimitBuyOrderPlaced(e) /\ e.type = "OrderPlaced"
  <2> DEFINE amount == e.quantity * e.limit
  <2>1. e.trader \in Traders /\ amount \in Int
    BY <1>2, Fields
  <2>2. /\ cash' = [cash EXCEPT ![e.trader] = @ - amount]
        /\ cashHold' = [cashHold EXCEPT ![e.trader] = @ + amount]
        /\ CashChecks'
    BY <1>2 DEF HandleLimitBuyOrderPlaced
  <2> HIDE DEF amount
  <2>3. QED
    BY <2>1, <2>2, HoldKeepsMoney
<1>3. CASE HandleLimitBuyOrderCancelled(e) /\ e.type = "OrderCancelled" /\ IsOpen(e.order)
  <2> DEFINE row == rows[e.order]
             back == row.remaining * row.limit
             amount == -back
  <2>1. row \in Rows
    BY <1>3, Fields DEF RowsInv, RowsTypeOK, IsOpen
  <2>2. row.trader \in Traders /\ back \in Int
    BY <2>1 DEF Rows
  <2>3. /\ cash' = [cash EXCEPT ![row.trader] = @ + back]
        /\ cashHold' = [cashHold EXCEPT ![row.trader] = @ - back]
        /\ CashChecks'
    BY <1>3 DEF HandleLimitBuyOrderCancelled
  <2> HIDE DEF row, back
  <2>4. amount \in Int /\ cash[row.trader] \in Int /\ cashHold[row.trader] \in Int
    BY <2>2 DEF CashTypeOK
  <2>5. /\ cash[row.trader] + back = cash[row.trader] - amount
        /\ cashHold[row.trader] - back = cashHold[row.trader] + amount
    BY <2>2, <2>4
  <2> HIDE DEF amount
  <2>6. /\ cash' = [cash EXCEPT ![row.trader] = @ - amount]
        /\ cashHold' = [cashHold EXCEPT ![row.trader] = @ + amount]
    BY <2>3, <2>5
  <2>7. QED
    BY <2>2, <2>3, <2>4, <2>6, HoldKeepsMoney
<1>4. CASE HandleLimitBuyTradeExecuted(e) /\ e.type = "TradeExecuted"
  <2> DEFINE held == e.quantity * rows[e.buyer].limit
             balanceChange == held - e.total
             holdChange == -held
  <2>1. rows[e.buyer] \in Rows /\ e.total \in Int /\ e.quantity \in Int
    BY <1>4, Fields DEF HandleLimitBuyTradeExecuted, InsertTrade, RowsInv, RowsTypeOK
  <2>2. held \in Int
    BY <2>1 DEF Rows
  <2>3. MoveCash(e, balanceChange, holdChange)
    BY <1>4 DEF HandleLimitBuyTradeExecuted
  <2> HIDE DEF held
  <2>4. balanceChange \in Int /\ holdChange \in Int /\ balanceChange + holdChange = -e.total
    BY <2>1, <2>2
  <2> HIDE DEF balanceChange, holdChange
  <2>5. QED
    BY <1>4, <2>3, <2>4, TradeMovesMoney DEF TradesHaveTwoTraders
<1>5. CASE HandleMarketBuyTradeExecuted(e) /\ e.type = "TradeExecuted"
  <2> DEFINE balanceChange == -e.total
             holdChange == 0
  <2>1. MoveCash(e, balanceChange, holdChange)
    BY <1>5 DEF HandleMarketBuyTradeExecuted
  <2>2. balanceChange \in Int /\ holdChange \in Int /\ balanceChange + holdChange = -e.total
    BY <1>5, Fields
  <2> HIDE DEF balanceChange, holdChange
  <2>3. QED
    BY <1>5, <2>1, <2>2, TradeMovesMoney DEF TradesHaveTwoTraders
<1>6. QED
  BY <1>1, <1>2, <1>3, <1>4, <1>5
     DEF InsertEvent, InsertPlaced, InsertCancelled, InsertTradeExecuted,
         HandleMarketBuyOrderPlaced, HandleSellOrderPlaced,
         HandleLimitBuyOrderCancelled, HandleMarketBuyOrderCancelled,
         HandleSellOrderCancelled, HandleOrderFilled, HandleOrderPartiallyFilled

-----------------------------------------------------------------------------
(***************************************************************************)
(* Shares: the same for positions.                                         *)
(***************************************************************************)
PositionsTypeOK == positions \in [Traders -> Positions \cup {NoRow}]

Holding == [t \in Traders |->
    IF positions[t] = NoRow THEN 0 ELSE positions[t].quantity + positions[t].hold]

\* No row of the positions table is ever deleted.
PositionsStay == \A t \in Traders : InitialPositions[t] # NoRow => positions[t] # NoRow

\* A row that passes its CHECKs is a position.
LEMMA PositionChecked ==
    ASSUME NEW t \in Traders, PositionChecks', NEW quantity \in Int, NEW hold \in Int,
           positions'[t] = [quantity |-> quantity, hold |-> hold]
    PROVE  /\ quantity \in Nat /\ hold \in Nat
           /\ positions'[t] \in Positions /\ positions'[t] # NoRow
<1>1. positions'[t] # NoRow
  BY SettlementAssumption
<1>2. quantity >= 0 /\ hold >= 0
  BY <1>1 DEF PositionChecks
<1>3. QED
  BY <1>1, <1>2 DEF Positions

\* Locking shares, or giving them back, leaves what the trader has as it is.
LEMMA LockKeepsShares ==
    ASSUME PositionsTypeOK, PositionsStay, NEW t \in Traders, NEW amount \in Int,
           positions' = [positions EXCEPT ![t] =
               IF @ = NoRow THEN NoRow
               ELSE [quantity |-> @.quantity - amount, hold |-> @.hold + amount]],
           PositionChecks'
    PROVE  PositionsTypeOK' /\ PositionsStay' /\ Holding' = Holding
<1>1. CASE positions[t] = NoRow
  <2>1. positions' = positions
    BY <1>1 DEF PositionsTypeOK
  <2>2. QED
    BY <2>1 DEF PositionsTypeOK, PositionsStay, Holding
<1>2. CASE positions[t] # NoRow
  <2> DEFINE quantity == positions[t].quantity - amount
             hold == positions[t].hold + amount
  <2>1. positions[t].quantity \in Nat /\ positions[t].hold \in Nat
    BY <1>2 DEF PositionsTypeOK, Positions
  <2>2. quantity \in Int /\ hold \in Int
        /\ quantity + hold = positions[t].quantity + positions[t].hold
    BY <2>1
  <2>3. positions' = [positions EXCEPT ![t] = [quantity |-> quantity, hold |-> hold]]
    BY <1>2
  <2> HIDE DEF quantity, hold
  <2>4. positions'[t] = [quantity |-> quantity, hold |-> hold]
    BY <2>3 DEF PositionsTypeOK
  <2>5. positions'[t] \in Positions /\ positions'[t] # NoRow
    BY <2>2, <2>4, PositionChecked
  <2>6. PositionsTypeOK' /\ PositionsStay'
    BY <2>3, <2>4, <2>5 DEF PositionsTypeOK, PositionsStay
  <2>7. ASSUME NEW u \in Traders PROVE Holding'[u] = Holding[u]
    <3>1. CASE u = t
      BY <1>2, <2>2, <2>4, <2>5, <3>1 DEF Holding
    <3>2. CASE u # t
      BY <2>3, <3>2 DEF Holding, PositionsTypeOK
    <3>3. QED
      BY <3>1, <3>2
  <2>8. Holding' = Holding
    BY <2>7 DEF Holding
  <2>9. QED
    BY <2>6, <2>8
<1>3. QED
  BY <1>1, <1>2

\* The row of a trader after a trade: its quantity grows by what the trader
\* bought, its hold shrinks by what the trader sold.
LEMMA TradedPosition ==
    ASSUME PositionsTypeOK, NEW t \in Traders, PositionChecks',
           NEW bought \in Nat, NEW sold \in Nat,
           positions'[t] =
               IF positions[t] # NoRow
               THEN [quantity |-> positions[t].quantity + bought,
                     hold |-> positions[t].hold - sold]
               ELSE IF bought > 0 THEN [quantity |-> bought, hold |-> 0]
               ELSE NoRow
    PROVE  /\ positions'[t] \in Positions \cup {NoRow}
           /\ positions[t] # NoRow => positions'[t] # NoRow
           /\ Holding[t] \in Nat /\ Holding'[t] \in Nat
           /\ positions[t] # NoRow \/ sold = 0 => Holding'[t] = Holding[t] + bought - sold
<1>1. CASE positions[t] # NoRow
  <2> DEFINE quantity == positions[t].quantity + bought
             hold == positions[t].hold - sold
  <2>1. positions[t].quantity \in Nat /\ positions[t].hold \in Nat
    BY <1>1 DEF PositionsTypeOK, Positions
  <2>2. quantity \in Int /\ hold \in Int
        /\ quantity + hold = positions[t].quantity + positions[t].hold + bought - sold
    BY <2>1
  <2>3. positions'[t] = [quantity |-> quantity, hold |-> hold]
    BY <1>1
  <2> HIDE DEF quantity, hold
  <2>4. /\ quantity \in Nat /\ hold \in Nat
        /\ positions'[t] \in Positions /\ positions'[t] # NoRow
    BY <2>2, <2>3, PositionChecked
  <2>5. Holding[t] = positions[t].quantity + positions[t].hold
    BY <1>1 DEF Holding
  <2>6. Holding'[t] = quantity + hold
    BY <2>3, <2>4 DEF Holding
  <2>7. QED
    BY <2>1, <2>2, <2>4, <2>5, <2>6
<1>2. CASE positions[t] = NoRow /\ bought > 0
  <2>1. positions'[t] = [quantity |-> bought, hold |-> 0]
    BY <1>2
  <2>2. positions'[t] \in Positions /\ positions'[t] # NoRow
    BY <2>1, PositionChecked
  <2>3. Holding[t] = 0 /\ Holding'[t] = bought
    BY <1>2, <2>1, <2>2 DEF Holding
  <2>4. QED
    BY <1>2, <2>2, <2>3
<1>3. CASE positions[t] = NoRow /\ ~(bought > 0)
  <2>1. positions'[t] = NoRow /\ bought = 0
    BY <1>3
  <2>2. Holding[t] = 0 /\ Holding'[t] = 0
    BY <1>3, <2>1 DEF Holding
  <2>3. QED
    BY <1>3, <2>1, <2>2
<1>4. QED
  BY <1>1, <1>2, <1>3

\* The shares of a trade between two traders are a transfer from the seller to
\* the buyer, if the seller has a position.
LEMMA TradeMovesShares ==
    ASSUME PositionsTypeOK, PositionsStay, NEW e \in WireEvents, e.type = "TradeExecuted",
           e.quantity > 0, MoveShares(e)
    PROVE  /\ PositionsTypeOK' /\ PositionsStay'
           /\ ~SelfTrade(e) /\ InitialPositions[e.sellerTrader] # NoRow => Shares!Next
<1> DEFINE buyer == e.buyerTrader
           seller == e.sellerTrader
           Bought(t, updates) == Gets(t, buyer, "buyer", updates, e.quantity)
           Sold(t, updates) == Gets(t, seller, "seller", updates, e.quantity)
<1>1. buyer \in Traders /\ seller \in Traders /\ e.quantity \in Nat
  BY Fields
<1>2. PICK updates \in PositionUpdates(e) :
        /\ positions' = [t \in Traders |->
              IF positions[t] # NoRow
              THEN [quantity |-> positions[t].quantity + Bought(t, updates),
                    hold |-> positions[t].hold - Sold(t, updates)]
              ELSE IF Bought(t, updates) > 0
              THEN [quantity |-> Bought(t, updates), hold |-> 0]
              ELSE NoRow]
        /\ PositionChecks'
  BY DEF MoveShares
<1>3. ASSUME NEW t \in Traders
      PROVE  Bought(t, updates) \in Nat /\ Sold(t, updates) \in Nat
  BY <1>1 DEF Gets
<1> DEFINE bought(t) == Bought(t, updates)
           sold(t) == Sold(t, updates)
<1>4. ASSUME NEW t \in Traders
      PROVE  /\ positions'[t] \in Positions \cup {NoRow}
             /\ positions[t] # NoRow => positions'[t] # NoRow
             /\ Holding[t] \in Nat /\ Holding'[t] \in Nat
             /\ positions[t] # NoRow \/ sold(t) = 0 =>
                   Holding'[t] = Holding[t] + bought(t) - sold(t)
  <2>1. bought(t) \in Nat /\ sold(t) \in Nat
    BY <1>3
  <2>2. positions'[t] =
           IF positions[t] # NoRow
           THEN [quantity |-> positions[t].quantity + bought(t),
                 hold |-> positions[t].hold - sold(t)]
           ELSE IF bought(t) > 0 THEN [quantity |-> bought(t), hold |-> 0]
           ELSE NoRow
    BY <1>2
  <2> HIDE DEF bought, sold
  <2>3. QED
    BY <1>2, <2>1, <2>2, TradedPosition
<1>5. PositionsTypeOK' /\ PositionsStay'
  <2>1. DOMAIN positions' = Traders /\ positions' = [t \in Traders |-> positions'[t]]
    BY <1>2
  <2>2. QED
    BY <1>4, <2>1 DEF PositionsTypeOK, PositionsStay
<1>6. ASSUME ~SelfTrade(e), InitialPositions[seller] # NoRow PROVE Shares!Next
  <2>1. buyer # seller
    BY <1>6 DEF SelfTrade
  <2>2. updates = BothSides
    BY <1>2, <1>6 DEF PositionUpdates
  <2>3. ASSUME NEW t \in Traders
        PROVE  /\ bought(t) = IF t = buyer THEN e.quantity ELSE 0
               /\ sold(t) = IF t = seller THEN e.quantity ELSE 0
    BY <2>2 DEF Gets, BothSides
  <2>4. positions[seller] # NoRow
    BY <1>1, <1>6 DEF PositionsStay
  <2> HIDE DEF bought, sold, buyer, seller
  <2>5. ASSUME NEW t \in Traders
        PROVE  Holding'[t] = IF t = buyer THEN Holding[t] + e.quantity
                             ELSE IF t = seller THEN Holding[t] - e.quantity ELSE Holding[t]
    <3>1. Holding'[t] = Holding[t] + bought(t) - sold(t)
      BY <1>4, <2>3, <2>4
    <3>2. Holding[t] \in Nat /\ e.quantity \in Nat
      BY <1>1, <1>4
    <3>3. CASE t = buyer
      BY <2>1, <2>3, <3>1, <3>2, <3>3
    <3>4. CASE t # buyer
      BY <2>3, <3>1, <3>2, <3>4
    <3>5. QED
      BY <3>3, <3>4
  <2>6. e.quantity \in 0..Holding[seller]
    <3>1. Holding'[seller] = Holding[seller] - e.quantity
      BY <1>1, <2>1, <2>5
    <3>2. Holding[seller] \in Nat /\ Holding'[seller] \in Nat
      BY <1>1, <1>4
    <3>3. QED
      BY <1>1, <3>1, <3>2
  <2>7. Holding' = [Holding EXCEPT ![seller] = @ - e.quantity, ![buyer] = @ + e.quantity]
    BY <1>1, <2>1, <2>5 DEF Holding
  <2>8. Shares!Transfer(seller, buyer, e.quantity)
    BY <1>1, <2>1, <2>6, <2>7 DEF Shares!Transfer, Holding
  <2>9. QED
    BY <1>1, <2>6, <2>8 DEF Shares!Next, Holding
<1>7. QED
  BY <1>5, <1>6

\* Every event that is settled keeps the shares traders have, or moves them once.
LEMMA InsertEventShares ==
    ASSUME RowsInv, PositionsTypeOK, PositionsStay, NEW e \in WireEvents, InsertEvent(e)
    PROVE  /\ PositionsTypeOK' /\ PositionsStay'
           /\ TradesHaveTwoTraders /\ SellersHavePositions =>
                Shares!Next \/ Holding' = Holding
<1>1. CASE UNCHANGED positions
  BY <1>1 DEF PositionsTypeOK, PositionsStay, Holding
<1>2. CASE HandleSellOrderPlaced(e) /\ e.type = "OrderPlaced"
  BY <1>2, Fields, LockKeepsShares DEF HandleSellOrderPlaced
<1>3. CASE HandleSellOrderCancelled(e) /\ e.type = "OrderCancelled" /\ IsOpen(e.order)
  <2> DEFINE t == rows[e.order].trader
             amount == -rows[e.order].remaining
  <2>1. rows[e.order] \in Rows
    BY <1>3, Fields DEF RowsInv, RowsTypeOK, IsOpen
  <2>2. t \in Traders /\ amount \in Int /\ rows[e.order].remaining \in Int
    BY <2>1 DEF Rows
  <2>3. /\ positions' = [positions EXCEPT ![t] =
              IF @ = NoRow THEN NoRow
              ELSE [quantity |-> @.quantity + rows[e.order].remaining,
                    hold |-> @.hold - rows[e.order].remaining]]
        /\ PositionChecks'
    BY <1>3 DEF HandleSellOrderCancelled
  <2>4. positions[t] # NoRow =>
          /\ positions[t].quantity + rows[e.order].remaining = positions[t].quantity - amount
          /\ positions[t].hold - rows[e.order].remaining = positions[t].hold + amount
    BY <2>2 DEF PositionsTypeOK, Positions
  <2> HIDE DEF t, amount
  <2>5. positions' = [positions EXCEPT ![t] =
              IF @ = NoRow THEN NoRow
              ELSE [quantity |-> @.quantity - amount, hold |-> @.hold + amount]]
    BY <2>3, <2>4
  <2>6. QED
    BY <2>2, <2>3, <2>5, LockKeepsShares
<1>4. CASE /\ HandleLimitBuyTradeExecuted(e) \/ HandleMarketBuyTradeExecuted(e)
           /\ e.type = "TradeExecuted"
  <2>1. e.quantity > 0 /\ MoveShares(e)
    BY <1>4 DEF HandleLimitBuyTradeExecuted, HandleMarketBuyTradeExecuted, InsertTrade
  <2>2. QED
    BY <1>4, <2>1, TradeMovesShares DEF TradesHaveTwoTraders, SellersHavePositions
<1>5. QED
  BY <1>1, <1>2, <1>3, <1>4
     DEF InsertEvent, InsertPlaced, InsertCancelled, InsertTradeExecuted,
         HandleLimitBuyOrderPlaced, HandleMarketBuyOrderPlaced,
         HandleLimitBuyOrderCancelled, HandleMarketBuyOrderCancelled,
         HandleSellOrderCancelled, HandleOrderFilled, HandleOrderPartiallyFilled

-----------------------------------------------------------------------------
(***************************************************************************)
(* The theorems about the tables.                                          *)
(***************************************************************************)
TradesTypeOK == trades \in Seq(EventType)

\* The inductive invariant: the tables one by one.
SInv == RowsInv /\ CashTypeOK /\ PositionsTypeOK /\ PositionsStay /\ TradesTypeOK

\* The tables the listener starts with satisfy the invariant.
LEMMA InitSInv == Init => SInv
<1> SUFFICES ASSUME Init PROVE SInv
  OBVIOUS
<1>1. RowsInv
  BY DEF Init, RowsInv, RowsTypeOK, RowsAddUp
<1>2. CashTypeOK /\ PositionsTypeOK /\ PositionsStay
  BY SettlementAssumption DEF Init, CashTypeOK, PositionsTypeOK, PositionsStay
<1>3. TradesTypeOK
  BY EmptySeq DEF Init, TradesTypeOK
<1>4. QED
  BY <1>1, <1>2, <1>3 DEF SInv

\* Every event keeps the invariant.
LEMMA InsertEventSInv ==
    ASSUME SInv, NEW e \in WireEvents, InsertEvent(e)
    PROVE  SInv'
<1>1. RowsInv' /\ CashTypeOK' /\ PositionsTypeOK' /\ PositionsStay'
  BY InsertEventRows, InsertEventMoney, InsertEventShares DEF SInv
<1>2. TradesTypeOK'
  <2>1. CASE UNCHANGED trades
    BY <2>1 DEF SInv, TradesTypeOK
  <2>2. CASE trades' = Append(trades, e)
    <3>1. e \in EventType
      BY SettlementAssumption
    <3> HIDE DEF EventType
    <3>2. QED
      BY <2>2, <3>1, AppendProperties DEF SInv, TradesTypeOK
  <2>3. QED
    BY <2>1, <2>2
       DEF InsertEvent, InsertPlaced, InsertCancelled, InsertTradeExecuted,
           HandleLimitBuyOrderPlaced, HandleMarketBuyOrderPlaced,
           HandleSellOrderPlaced, HandleLimitBuyOrderCancelled,
           HandleMarketBuyOrderCancelled, HandleSellOrderCancelled, HandleOrderFilled,
           HandleOrderPartiallyFilled, HandleLimitBuyTradeExecuted,
           HandleMarketBuyTradeExecuted, InsertTrade
<1>3. QED
  BY <1>1, <1>2 DEF SInv

\* The invariant holds for ever.
LEMMA Invariant == Spec => []SInv
<1>1. SInv /\ [Next]_tables => SInv'
  <2> SUFFICES ASSUME SInv, [Next]_tables PROVE SInv'
    OBVIOUS
  <2>1. CASE UNCHANGED tables
    BY <2>1 DEF tables, SInv, RowsInv, RowsTypeOK, RowsAddUp, CashTypeOK, PositionsTypeOK,
                PositionsStay, TradesTypeOK
  <2>2. CASE \E e \in WireEvents : InsertEvent(e)
    BY <2>2, InsertEventSInv
  <2>3. QED
    BY <2>1, <2>2 DEF Next, InsertFails
<1>2. QED
  BY <1>1, InitSInv, PTL DEF Spec

\* SettlementTypeOK: the columns keep their types, and no balance, hold or position
\* is ever negative.
THEOREM TypeCorrect == Spec => []SettlementTypeOK
<1>1. SInv => SettlementTypeOK
  BY DEF SInv, SettlementTypeOK, RowsInv, RowsTypeOK, CashTypeOK, PositionsTypeOK,
         TradesTypeOK
<1>2. QED
  BY <1>1, Invariant, PTL

\* RowsAddUp: filled and remaining add up to the quantity of every order, and a
\* filled order has nothing remaining, whatever events are lost or repeated.
THEOREM RowsAlwaysAddUp == Spec => []RowsAddUp
<1>1. SInv => RowsAddUp
  BY DEF SInv, RowsInv
<1>2. QED
  BY <1>1, Invariant, PTL

\* MoneyOnlyMoves: the settlement implements the ledger of what traders have in
\* cash, when nobody trades with himself.
THEOREM ImplementsCashLedger ==
    ASSUME TradesHaveTwoTraders
    PROVE  Spec => MoneyOnlyMoves
<1>1. Init => Cash!Init
  <2> SUFFICES ASSUME Init PROVE Cash!Init
    OBVIOUS
  <2>1. CashTypeOK
    BY InitSInv DEF SInv
  <2>2. \A t \in Traders : cash[t] + cashHold[t] \in Nat
    BY <2>1 DEF CashTypeOK
  <2>3. QED
    BY <2>2 DEF Cash!Init
<1>2. SInv /\ [Next]_tables => [Cash!Next]_Money
  <2> SUFFICES ASSUME SInv, [Next]_tables PROVE Cash!Next \/ Money' = Money
    OBVIOUS
  <2>1. CASE UNCHANGED tables
    BY <2>1 DEF tables, Money
  <2>2. CASE \E e \in WireEvents : InsertEvent(e)
    BY <2>2, InsertEventMoney DEF SInv
  <2>3. QED
    BY <2>1, <2>2 DEF Next, InsertFails
<1>3. SInv /\ [Next]_tables => [Cash!Next]_[t \in Traders |-> cash[t] + cashHold[t]]
  BY <1>2 DEF Money
<1>4. QED
  BY <1>1, <1>3, Invariant, PTL DEF Spec, MoneyOnlyMoves, Cash!Spec

\* SharesOnlyMove: the settlement implements the ledger of shares, when nobody
\* trades with himself and every seller has a position to begin with.
THEOREM ImplementsShareLedger ==
    ASSUME TradesHaveTwoTraders, SellersHavePositions
    PROVE  Spec => SharesOnlyMove
<1>1. Init => Shares!Init
  <2> SUFFICES ASSUME Init PROVE Shares!Init
    OBVIOUS
  <2>1. PositionsTypeOK
    BY InitSInv DEF SInv
  <2>2. ASSUME NEW t \in Traders
        PROVE  (IF positions[t] = NoRow THEN 0
                ELSE positions[t].quantity + positions[t].hold) \in Nat
    BY <2>1 DEF PositionsTypeOK, Positions
  <2>3. QED
    BY <2>2 DEF Shares!Init
<1>2. SInv /\ [Next]_tables => [Shares!Next]_Holding
  <2> SUFFICES ASSUME SInv, [Next]_tables PROVE Shares!Next \/ Holding' = Holding
    OBVIOUS
  <2>1. CASE UNCHANGED tables
    BY <2>1 DEF tables, Holding
  <2>2. CASE \E e \in WireEvents : InsertEvent(e)
    BY <2>2, InsertEventShares DEF SInv
  <2>3. QED
    BY <2>1, <2>2 DEF Next, InsertFails
<1>3. SInv /\ [Next]_tables => [Shares!Next]_[t \in Traders |->
        IF positions[t] = NoRow THEN 0 ELSE positions[t].quantity + positions[t].hold]
  BY <1>2 DEF Holding
<1>4. QED
  BY <1>1, <1>3, Invariant, PTL DEF Spec, SharesOnlyMove, Shares!Spec
=============================================================================
