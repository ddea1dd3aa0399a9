------------------------ MODULE TradingPlatformProofs ------------------------
(***************************************************************************)
(* The tables against the events that were settled, while the engine goes  *)
(* on: proofs of the properties of module TradingPlatform for every set of *)
(* orders, prices and requests, on top of the invariants of the engine's   *)
(* stream.                                                                 *)
(***************************************************************************)
EXTENDS TradingPlatform, MatchingEngineStreamProofs

-----------------------------------------------------------------------------
(***************************************************************************)
(* What the engine says of partial fills, and who trades with whom.        *)
(***************************************************************************)
PartFills(o) == About("OrderPartiallyFilled", o)

Reported(S) == SumFunction([i \in S |-> events[i].filled])

\* A taker's partial fills are reported at the end of its match.  From then on
\* the reports add up to what traded, until the order is filled.  What remains of
\* a taker is not more than it came with.
ReportsOf(o) ==
    /\ pc[o] \in {"select", "fill"} => PartFills(o) = {} /\ remaining <= qty[o]
    /\ pc[o] = "returned" /\ About("OrderFilled", o) = {} =>
          Reported(PartFills(o)) = Traded(o)

\* An order trades on its side, with an order of the other side.
TradesOnItsSide(o) ==
    \A i \in Trades(o) :
        /\ events[i].buyer # events[i].seller
        /\ events[i].buyer = o <=> Side(o) = "Buy"

ReportInv == \A o \in Orders : ReportsOf(o) /\ TradesOnItsSide(o)

\* The partial fills of an order are finitely many, each with an integer.
LEMMA PartFillTerms ==
    ASSUME events \in Seq(Events), NEW o
    PROVE  /\ IsFiniteSet(PartFills(o)) /\ PartFills(o) \subseteq DOMAIN events
           /\ \A i \in PartFills(o) : events[i].filled \in Int
<1>1. DOMAIN events = 1..Len(events) /\ Len(events) \in Nat
  BY LenProperties
<1>2. PartFills(o) \subseteq DOMAIN events
  BY DEF PartFills, About, Published
<1>3. IsFiniteSet(PartFills(o))
  <2>1. IsFiniteSet(1..Len(events))
    BY <1>1, FS_Interval
  <2>2. QED
    BY <1>1, <1>2, <2>1, FS_Subset
<1>4. ASSUME NEW i \in PartFills(o) PROVE events[i].filled \in Int
  <2>1. events[i] \in Events /\ events[i].type = "OrderPartiallyFilled"
    BY <1>1, <1>2, ElementOfSeq DEF PartFills, About, Published
  <2>2. QED
    BY <2>1 DEF Events
<1>5. QED
  BY <1>2, <1>3, <1>4

\* What is reported of an order changes with its partial fills only, ...
LEMMA ReportedFrame ==
    ASSUME events \in Seq(Events), StreamExtends, NEW o, PartFills(o)' = PartFills(o)
    PROVE  Reported(PartFills(o))' = Reported(PartFills(o))
<1>1. \A i \in PartFills(o) : events'[i] = events[i]
  BY PartFillTerms DEF StreamExtends
<1>2. [i \in PartFills(o)' |-> events'[i].filled] = [i \in PartFills(o) |-> events[i].filled]
  BY <1>1
<1>3. QED
  BY <1>2 DEF Reported

\* ... each of which adds what it says was filled.
LEMMA ReportedMore ==
    ASSUME events \in Seq(Events), StreamExtends, NEW o, NEW n, n \notin DOMAIN events,
           PartFills(o)' = PartFills(o) \cup {n}, events'[n].filled \in Int
    PROVE  Reported(PartFills(o))' = Reported(PartFills(o)) + events'[n].filled
<1> DEFINE S == PartFills(o)
           R == PartFills(o) \cup {n}
           f == [i \in S |-> events[i].filled]
           ff == [i \in R |-> events'[i].filled]
<1>1. /\ Reported(PartFills(o)) = SumFunctionOnSet(f, S)
      /\ Reported(PartFills(o))' = SumFunctionOnSet(ff, R)
  BY DEF Reported, SumFunction
<1>2. IsFiniteSet(S) /\ n \notin S /\ \A i \in S : events'[i] = events[i]
  BY PartFillTerms DEF StreamExtends
<1>3. \A i \in S : f[i] \in Int /\ ff[i] = f[i]
  BY <1>2, PartFillTerms
<1>4. ff[n] = events'[n].filled
  OBVIOUS
<1>5. ff[n] \in Int
  BY <1>4
<1> HIDE DEF S, f, ff
<1>6. R = S \cup {n}
  BY DEF S
<1> HIDE DEF R
<1>7. SumFunctionOnSet(ff, R) = SumFunctionOnSet(f, S) + ff[n]
  BY <1>2, <1>3, <1>5, <1>6, SumOfOneMore
<1>8. QED
  BY <1>1, <1>4, <1>7

\* What is reported of an order is an integer, zero before any report.
LEMMA ReportedIsInt ==
    ASSUME events \in Seq(Events), NEW o
    PROVE  /\ Reported(PartFills(o)) \in Int
           /\ PartFills(o) = {} => Reported(PartFills(o)) = 0
<1> DEFINE f == [i \in PartFills(o) |-> events[i].filled]
<1>1. Reported(PartFills(o)) = SumFunctionOnSet(f, PartFills(o))
  BY DEF Reported, SumFunction
<1>2. \A i \in PartFills(o) : f[i] \in Int
  BY PartFillTerms
<1> HIDE DEF f
<1>3. QED
  BY <1>1, <1>2, PartFillTerms, SumIsInt, SumOfNone

\* A step keeps the reports of an order that it does not touch.
LEMMA UntouchedReports ==
    ASSUME IInv, NEW x \in Orders, ReportsOf(x), TradesOnItsSide(x), StreamExtends,
           Trades(x)' = Trades(x), PartFills(x)' = PartFills(x),
           About("OrderFilled", x)' = About("OrderFilled", x),
           request'[x] = request[x],
           \/ pc'[x] = pc[x]
           \/ pc[x] \in {"select", "fill"} /\ pc'[x] \in {"select", "fill"},
           pc[x] \in {"select", "fill"} => remaining' = remaining /\ qty'[x] = qty[x]
    PROVE  ReportsOf(x)' /\ TradesOnItsSide(x)'
<1>1. events \in Seq(Events)
  BY DEF IInv, TypeOK
<1>2. Traded(x)' = Traded(x) /\ Reported(PartFills(x))' = Reported(PartFills(x))
  BY <1>1, TradedFrame, ReportedFrame
<1>3. ReportsOf(x)'
  BY <1>2 DEF ReportsOf
<1>4. \A i \in Trades(x) : events'[i] = events[i]
  BY <1>1, SumTerms DEF StreamExtends
<1>5. TradesOnItsSide(x)'
  BY <1>4 DEF TradesOnItsSide, Side
<1>6. QED
  BY <1>3, <1>5

\* Nothing was reported of an order that was not accepted yet.
LEMMA UnseenReports ==
    ASSUME StreamInv, NEW x \in Orders, pc[x] \in {"new", "waiting", "rejected"}
    PROVE  PartFills(x) = {} /\ Trades(x) = {}
BY DEF StreamInv, StreamOf, UnseenBeforePlaced, Executions, PartFills

\* Until it is accepted an order has nothing to report.
LEMMA SubmitReports ==
    ASSUME IInv, StreamInv, ReportInv, NEW o \in Orders, NEW r \in Requests,
           Submit(o, r) \/ Reject(o, r)
    PROVE  ReportInv'
<1>1. /\ pc[o] = "new"
      /\ pc' = [pc EXCEPT ![o] = pc'[o]]
      /\ pc'[o] \in {"waiting", "rejected"}
      /\ request' = [request EXCEPT ![o] = r]
      /\ qty' = [qty EXCEPT ![o] = r.quantity]
      /\ remaining' = remaining
      /\ events' \in {events, Append(events, RejectedEvent(o, r))}
  BY DEF Submit, Reject, IInv, TypeOK
<1>2. SUFFICES ASSUME NEW x \in Orders PROVE ReportsOf(x)' /\ TradesOnItsSide(x)'
  BY DEF ReportInv
<1>3. /\ StreamExtends
      /\ Trades(x)' = Trades(x)
      /\ PartFills(x)' = PartFills(x)
      /\ About("OrderFilled", x)' = About("OrderFilled", x)
  <2>1. CASE events' = events
    BY <2>1 DEF StreamExtends, Trades, PartFills, About, Published
  <2>2. CASE events' = Append(events, RejectedEvent(o, r))
    <3> DEFINE e == RejectedEvent(o, r)
               n == Len(events) + 1
    <3>1. events \in Seq(Events)
      BY DEF IInv, TypeOK
    <3>2. e.type = "OrderRejected"
      BY DEF RejectedEvent
    <3> HIDE DEF e
    <3>3. /\ \A t : About(t, x)' = About(t, x) \cup At(n, Concerns(e, t, x))
          /\ Trades(x)' = Trades(x) \cup At(n, TradeOf(e, x))
      BY <2>2, <3>1, OneEventMore, Zenon DEF e
    <3>4. StreamExtends
      BY <2>2, <3>1, OneEventExtends
    <3>5. QED
      BY <3>2, <3>3, <3>4 DEF Concerns, TradeOf, At, PartFills
  <2>3. QED
    BY <1>1, <2>1, <2>2
<1>4. CASE x = o
  <2>1. pc'[x] \in {"waiting", "rejected"}
    BY <1>1, <1>4
  <2>2. Trades(x)' = {}
    BY <1>1, <1>3, <1>4, UnseenReports
  <2>3. QED
    BY <2>1, <2>2 DEF ReportsOf, TradesOnItsSide
<1>5. CASE x # o
  <2>1. pc'[x] = pc[x] /\ request'[x] = request[x] /\ qty'[x] = qty[x]
    BY <1>1, <1>5 DEF IInv, TypeOK
  <2>2. QED
    BY <1>1, <1>3, <2>1, UntouchedReports DEF ReportInv
<1>6. QED
  BY <1>4, <1>5

\* Accept says that the order is placed and nothing of fills.
LEMMA AcceptReports ==
    ASSUME IInv, StreamInv, ReportInv, NEW o \in Orders, Accept(o)
    PROVE  ReportInv'
<1> DEFINE e == PlacedEvent(o)
           n == Len(events) + 1
<1>1. /\ pc[o] = "waiting"
      /\ lock = NoOrder
      /\ pc' = [pc EXCEPT ![o] = "select"]
      /\ events' = Append(events, e)
      /\ remaining' = qty[o]
      /\ UNCHANGED <<request, qty>>
  BY DEF Accept
<1>2. SUFFICES ASSUME NEW x \in Orders PROVE ReportsOf(x)' /\ TradesOnItsSide(x)'
  BY DEF ReportInv
<1>3. e.type = "OrderPlaced"
  BY DEF PlacedEvent
<1> HIDE DEF e
<1>4. /\ StreamExtends
      /\ Trades(x)' = Trades(x)
      /\ PartFills(x)' = PartFills(x)
      /\ About("OrderFilled", x)' = About("OrderFilled", x)
  <2>1. events \in Seq(Events)
    BY DEF IInv, TypeOK
  <2>2. /\ \A t : About(t, x)' = About(t, x) \cup At(n, Concerns(e, t, x))
        /\ Trades(x)' = Trades(x) \cup At(n, TradeOf(e, x))
    BY <1>1, <2>1, OneEventMore, Zenon
  <2>3. StreamExtends
    BY <1>1, <2>1, OneEventExtends
  <2>4. QED
    BY <1>3, <2>2, <2>3 DEF Concerns, TradeOf, At, PartFills
<1>5. CASE x = o
  <2>1. pc'[x] = "select"
    BY <1>1, <1>5 DEF IInv, TypeOK
  <2>2. PartFills(x)' = {} /\ Trades(x)' = {}
    BY <1>1, <1>4, <1>5, UnseenReports
  <2>3. remaining' <= qty'[x]
    BY <1>1, <1>5 DEF IInv, TypeOK
  <2>4. QED
    BY <2>1, <2>2, <2>3 DEF ReportsOf, TradesOnItsSide
<1>6. CASE x # o
  <2>1. pc'[x] = pc[x] /\ pc[x] \notin {"select", "fill"}
    BY <1>1, <1>6, RequestsAssumption DEF IInv, TypeOK, MutualExclusion
  <2>2. QED
    BY <1>1, <1>4, <2>1, UntouchedReports DEF ReportInv
<1>7. QED
  BY <1>5, <1>6

\* Steps that publish nothing.
LEMMA SilentReports ==
    ASSUME IInv, ReportInv,
           \/ \E o \in Orders : SelectLevel(o) \/ LeaveLevel(o)
           \/ UNCHANGED vars
    PROVE  ReportInv'
<1>1. /\ \/ pc' = pc
         \/ \E o \in Orders : /\ pc[o] \in {"select", "fill"}
                              /\ pc' \in {[pc EXCEPT ![o] = "select"],
                                          [pc EXCEPT ![o] = "fill"]}
      /\ UNCHANGED <<request, qty, remaining, events>>
  BY DEF SelectLevel, LeaveLevel, vars
<1>2. SUFFICES ASSUME NEW x \in Orders PROVE ReportsOf(x)' /\ TradesOnItsSide(x)'
  BY DEF ReportInv
<1>3. /\ StreamExtends
      /\ Trades(x)' = Trades(x)
      /\ PartFills(x)' = PartFills(x)
      /\ About("OrderFilled", x)' = About("OrderFilled", x)
  BY <1>1 DEF StreamExtends, Trades, PartFills, About, Published
<1>4. \/ pc'[x] = pc[x]
      \/ pc[x] \in {"select", "fill"} /\ pc'[x] \in {"select", "fill"}
  BY <1>1 DEF IInv, TypeOK
<1>5. QED
  BY <1>1, <1>3, <1>4, UntouchedReports DEF ReportInv

\* The two events of a fill: who traded, and what the maker's report adds.
LEMMA FillsSay ==
    ASSUME IInv, NEW o \in Orders, FillFront(o),
           NEW maker \in Orders, NEW quantity \in Nat \ {0}, Fills(o, maker, quantity)
    PROVE  LET n == Len(events) + 1
               m == Len(events) + 2
           IN  /\ events'[n].buyer = IF Side(o) = "Buy" THEN o ELSE maker
               /\ events'[n].seller = IF Side(o) = "Buy" THEN maker ELSE o
               /\ m \notin DOMAIN events
               /\ qty[maker] # quantity => events'[m].filled = quantity
<1> DEFINE trade == IF Side(o) = "Buy" THEN TradeEvent(o, maker, bestPrice, quantity)
                    ELSE TradeEvent(maker, o, bestPrice, quantity)
           fill == IF qty[maker] = quantity THEN FilledEvent(maker, qty[maker])
                   ELSE PartiallyFilledEvent(maker, quantity, qty[maker] - quantity)
           more == <<trade, fill>>
           n == Len(events) + 1
           m == Len(events) + 2
<1>1. events \in Seq(Events) /\ events' = events \o more
  BY Zenon DEF Fills, IInv, TypeOK
<1>2. more \in Seq(Events) /\ Len(more) = 2 /\ more[1] = trade /\ more[2] = fill
  <2>1. bestPrice \in Prices /\ qty \in [Orders -> Int] /\ quantity \in Int
    BY FillFrontTrades DEF IInv, TypeOK
  <2>2. trade \in Events
    BY <2>1 DEF TradeEvent, Events
  <2>3. fill \in Events
    BY <2>1 DEF FilledEvent, PartiallyFilledEvent, Events
  <2> HIDE DEF trade, fill
  <2>4. QED
    BY <2>2, <2>3
<1>3. /\ trade.buyer = IF Side(o) = "Buy" THEN o ELSE maker
      /\ trade.seller = IF Side(o) = "Buy" THEN maker ELSE o
      /\ qty[maker] # quantity => fill.filled = quantity
  BY DEF TradeEvent, PartiallyFilledEvent
<1> HIDE DEF trade, fill, more
<1>4. m \notin DOMAIN events /\ events'[n] = trade /\ events'[m] = fill
  BY <1>1, <1>2, TwoEventsExtend
<1>5. QED
  BY <1>3, <1>4

\* A fill adds the same quantity to what the maker traded and to what is
\* reported of it.
LEMMA FillFrontReports ==
    ASSUME IInv, StreamInv, ReportInv, NEW o \in Orders, FillFront(o)
    PROVE  ReportInv'
<1>1. /\ Side(o) \in Sides /\ Opposite(Side(o)) \in Sides
      /\ pc[o] = "fill"
      /\ \E maker \in Orders, quantity \in Nat \ {0} : Fills(o, maker, quantity)
  BY FillFrontTrades
<1>2. PICK maker \in Orders, quantity \in Nat \ {0} : Fills(o, maker, quantity)
  BY <1>1
<1> DEFINE gone == qty[maker] = quantity
           n == Len(events) + 1
           m == Len(events) + 2
<1>3. /\ pc' = pc /\ request' = request
      /\ remaining' = remaining - quantity
      /\ qty' = [qty EXCEPT ![maker] = qty[maker] - quantity]
      /\ pc[maker] = "returned"
      /\ Resting(book[Opposite(Side(o))], maker)
  BY <1>2 DEF Fills
<1>4. Side(maker) = Opposite(Side(o)) /\ InBook(maker) /\ o # maker
  BY <1>1, <1>3 DEF IInv, OnlyOpenLimitOrdersRest, InBook
<1>5. /\ events \in Seq(Events) /\ quantity \in Int
      /\ remaining \in Int /\ qty \in [Orders -> Int]
  BY DEF IInv, TypeOK
<1>6. SUFFICES ASSUME NEW x \in Orders PROVE ReportsOf(x)' /\ TradesOnItsSide(x)'
  BY DEF ReportInv
<1>7. /\ StreamExtends
      /\ n \notin DOMAIN events
      /\ events'[n].quantity = quantity
      /\ Trades(x)' = Trades(x) \cup At(n, x \in {o, maker})
      /\ About("OrderFilled", x)' = About("OrderFilled", x) \cup At(m, x = maker /\ gone)
      /\ PartFills(x)' = PartFills(x) \cup At(m, x = maker /\ ~gone)
  BY <1>2, FillsEvents DEF PartFills
<1>8. /\ events'[n].buyer = IF Side(o) = "Buy" THEN o ELSE maker
      /\ events'[n].seller = IF Side(o) = "Buy" THEN maker ELSE o
      /\ m \notin DOMAIN events
      /\ ~gone => events'[m].filled = quantity
  BY <1>2, FillsSay
<1>9. events'[n].price \in Int
  <2>1. events'[n].price = bestPrice /\ bestPrice \in Prices
    BY <1>2, FillsEvents, FillFrontTrades
  <2>2. QED
    BY <2>1, PricesAssumption
<1>10. ReportsOf(x) /\ TradesOnItsSide(x) /\ StreamOf(x)
  BY DEF ReportInv, StreamInv
<1> HIDE DEF n, m, gone
<1>11. TradesOnItsSide(x)'
  <2>1. \A i \in Trades(x) : events'[i] = events[i]
    BY <1>5, <1>7, SumTerms DEF StreamExtends
  <2>2. Side(x)' = Side(x)
    BY <1>3 DEF Side
  <2>3. ASSUME x \in {o, maker}
        PROVE  /\ events'[n].buyer # events'[n].seller
               /\ events'[n].buyer = x <=> Side(x) = "Buy"
    BY <1>1, <1>4, <1>8, <2>3 DEF Opposite, Sides
  <2>4. QED
    BY <1>7, <1>10, <2>1, <2>2, <2>3 DEF TradesOnItsSide, At
<1>12. CASE x = maker
  <2>1. About("OrderFilled", x) = {}
    BY <1>3, <1>4, <1>10, <1>12 DEF StreamOf, FinalWhenOutOfBook, Final
  <2>2. Reported(PartFills(x)) = Traded(x)
    BY <1>3, <1>10, <1>12, <2>1 DEF ReportsOf
  <2>3. CASE gone
    <3>1. pc'[x] = "returned" /\ About("OrderFilled", x)' # {}
      BY <1>3, <1>7, <1>12, <2>3 DEF At
    <3>2. QED
      BY <1>11, <3>1 DEF ReportsOf
  <2>4. CASE ~gone
    <3>1. Traded(x)' = Traded(x) + quantity
      <4>1. Trades(x)' = Trades(x) \cup {n}
        BY <1>7, <1>12 DEF At
      <4>2. events'[n].quantity \in Int
        BY <1>5, <1>7
      <4>3. Traded(x)' = Traded(x) + events'[n].quantity
        BY <1>5, <1>7, <1>9, <4>1, <4>2, TradedMore
      <4>4. QED
        BY <1>7, <4>3
    <3>2. Reported(PartFills(x))' = Reported(PartFills(x)) + quantity
      <4>1. PartFills(x)' = PartFills(x) \cup {m}
        BY <1>7, <1>12, <2>4 DEF At
      <4>2. events'[m].filled \in Int /\ events'[m].filled = quantity
        BY <1>5, <1>8, <2>4
      <4>3. Reported(PartFills(x))' = Reported(PartFills(x)) + events'[m].filled
        BY <1>5, <1>7, <1>8, <4>1, <4>2, ReportedMore
      <4>4. QED
        BY <4>2, <4>3
    <3>3. ReportsOf(x)'
      BY <1>3, <1>12, <2>2, <3>1, <3>2 DEF ReportsOf
    <3>4. QED
      BY <1>11, <3>3
  <2>5. QED
    BY <1>11, <2>3, <2>4
<1>13. CASE x = o
  <2>1. PartFills(x)' = {} /\ pc'[x] = "fill"
    BY <1>1, <1>3, <1>4, <1>7, <1>10, <1>13 DEF ReportsOf, At
  <2>2. remaining <= qty[x]
    BY <1>1, <1>10, <1>13 DEF ReportsOf
  <2>3. remaining' <= qty'[x]
    BY <1>3, <1>4, <1>5, <1>13, <2>2
  <2>4. QED
    BY <1>11, <2>1, <2>3 DEF ReportsOf
<1>14. CASE x \notin {o, maker}
  <2>1. /\ Trades(x)' = Trades(x) /\ PartFills(x)' = PartFills(x)
        /\ About("OrderFilled", x)' = About("OrderFilled", x)
    BY <1>7, <1>14 DEF At
  <2>2. pc[x] \notin {"select", "fill"}
    BY <1>1, <1>14 DEF IInv, MutualExclusion
  <2>3. QED
    BY <1>3, <1>7, <1>10, <2>1, <2>2, UntouchedReports
<1>15. QED
  BY <1>12, <1>13, <1>14

\* The end of a match reports a partial fill exactly when the taker traded
\* some and not all.
LEMMA FinishPartFills ==
    ASSUME IInv, NEW o \in Orders, Finish(o), NEW x
    PROVE  \E k : /\ k \notin DOMAIN events
                  /\ PartFills(x)' = PartFills(x)
                        \cup At(k, x = o /\ remaining > 0 /\ remaining < qty[o])
                  /\ remaining > 0 /\ remaining < qty[o] =>
                        events'[k].filled = qty[o] - remaining
<1> DEFINE filled == FilledEvent(o, qty[o])
           partial == PartiallyFilledEvent(o, qty[o] - remaining, remaining)
           cancel == CancelledEvent(o, remaining)
           n == Len(events) + 1
           m == Len(events) + 2
<1>1. /\ events \in Seq(Events) /\ events' = events \o TakerEvents(o)
      /\ remaining \in Nat /\ qty[o] \in Int
  BY DEF Finish, IInv, TypeOK
<1>2. /\ filled.type = "OrderFilled" /\ filled.order = o
      /\ partial.type = "OrderPartiallyFilled" /\ partial.order = o
      /\ partial.filled = qty[o] - remaining
      /\ cancel.type = "OrderCancelled" /\ cancel.order = o
      /\ filled \in Events /\ partial \in Events /\ cancel \in Events
  <2>1. qty[o] - remaining \in Int /\ remaining \in Int
    BY <1>1
  <2>2. QED
    BY <1>1, <2>1 DEF FilledEvent, PartiallyFilledEvent, CancelledEvent, Events
<1>3. TakerEvents(o) =
        IF remaining = 0 THEN <<filled>>
        ELSE IF IsMarket(o)
        THEN IF remaining < qty[o] THEN <<partial, cancel>> ELSE <<cancel>>
        ELSE IF remaining < qty[o] THEN <<partial>> ELSE <<>>
  BY <1>1, TakerEventsAre, Zenon
<1> HIDE DEF filled, partial, cancel
<1> DEFINE some == remaining > 0 /\ remaining < qty[o]
<1>4. \/ some /\ TakerEvents(o) = <<partial, cancel>>
      \/ some /\ TakerEvents(o) = <<partial>>
      \/ ~some /\ TakerEvents(o) \in {<<filled>>, <<cancel>>}
      \/ ~some /\ TakerEvents(o) = <<>>
  BY <1>1, <1>3
<1>5. ASSUME NEW e \in Events, TakerEvents(o) = <<e>>
      PROVE  /\ n \notin DOMAIN events
             /\ events'[n] = e
             /\ \A t : About(t, x)' = About(t, x) \cup At(n, Concerns(e, t, x))
  <2>1. events' = Append(events, e)
    BY <1>1, <1>5, AppendIsConcat
  <2>2. n \notin DOMAIN events /\ events'[n] = e
    BY <1>1, <2>1, OneEventExtends
  <2>3. \A t : About(t, x)' = About(t, x) \cup At(n, Concerns(e, t, x))
    BY <1>1, <2>1, OneEventMore, Zenon
  <2>4. QED
    BY <2>2, <2>3
<1>6. CASE some /\ TakerEvents(o) = <<partial, cancel>>
  <2> DEFINE more == <<partial, cancel>>
  <2>1. /\ more \in Seq(Events) /\ Len(more) = 2
        /\ more[1] = partial /\ more[2] = cancel
    BY <1>2
  <2>2. events' = events \o more
    BY <1>1, <1>6
  <2> HIDE DEF more
  <2>3. n \notin DOMAIN events /\ events'[n] = partial
    BY <1>1, <2>1, <2>2, TwoEventsExtend
  <2>4. \A t : About(t, x)' = About(t, x) \cup At(n, Concerns(more[1], t, x))
                                         \cup At(m, Concerns(more[2], t, x))
    BY <1>1, <2>1, <2>2, TwoEventsMore, Zenon
  <2> HIDE DEF n, m
  <2>5. PartFills(x)' = PartFills(x) \cup At(n, x = o)
    BY <1>2, <2>1, <2>4 DEF Concerns, At, PartFills
  <2>6. QED
    BY <1>2, <1>6, <2>3, <2>5 DEF At
<1>7. CASE some /\ TakerEvents(o) = <<partial>>
  <2>1. n \notin DOMAIN events /\ events'[n] = partial
    BY <1>2, <1>5, <1>7
  <2>2. PartFills(x)' = PartFills(x) \cup At(n, x = o)
    BY <1>2, <1>5, <1>7 DEF Concerns, At, PartFills
  <2> HIDE DEF n
  <2>3. QED
    BY <1>2, <1>7, <2>1, <2>2 DEF At
<1>8. CASE ~some /\ TakerEvents(o) \in {<<filled>>, <<cancel>>}
  <2>1. PICK e \in {filled, cancel} : TakerEvents(o) = <<e>>
    BY <1>8
  <2>2. n \notin DOMAIN events /\ PartFills(x)' = PartFills(x)
    BY <1>2, <1>5, <2>1 DEF Concerns, At, PartFills
  <2> HIDE DEF n
  <2>3. QED
    BY <1>8, <2>2 DEF At
<1>9. CASE ~some /\ TakerEvents(o) = <<>>
  <2>1. events' = events
    BY <1>1, <1>9, ConcatEmptySeq
  <2>2. PartFills(x)' = PartFills(x)
    BY <2>1 DEF PartFills, About, Published
  <2>3. n \notin DOMAIN events
    BY <1>1, LenProperties
  <2> HIDE DEF n
  <2>4. QED
    BY <1>9, <2>2, <2>3 DEF At
<1>10. QED
  BY <1>4, <1>6, <1>7, <1>8, <1>9, Zenon

\* The taker's own report makes up for all it traded.
LEMMA FinishReports ==
    ASSUME IInv, StreamInv, SharesInv, ReportInv, NEW o \in Orders, Finish(o)
    PROVE  ReportInv'
<1>1. /\ pc[o] = "select" /\ pc' = [pc EXCEPT ![o] = "returned"]
      /\ request' = request
  BY DEF Finish
<1>2. /\ remaining \in Nat /\ qty \in [Orders -> Int] /\ pc \in [Orders -> HandlerStates]
      /\ events \in Seq(Events)
  BY DEF IInv, TypeOK
<1>3. SUFFICES ASSUME NEW x \in Orders PROVE ReportsOf(x)' /\ TradesOnItsSide(x)'
  BY DEF ReportInv
<1> DEFINE some == remaining > 0 /\ remaining < qty[o]
<1>4. PICK k : /\ k \notin DOMAIN events
               /\ PartFills(x)' = PartFills(x) \cup At(k, x = o /\ some)
               /\ some => events'[k].filled = qty[o] - remaining
  BY FinishPartFills
<1>5. /\ StreamExtends /\ Trades(x)' = Trades(x)
      /\ \E j : About("OrderFilled", x)' =
                   About("OrderFilled", x) \cup At(j, x = o /\ remaining = 0)
  BY FinishEvents
<1>6. ReportsOf(x) /\ TradesOnItsSide(x) /\ StreamOf(x) /\ SharesOf(x)
  BY DEF ReportInv, StreamInv, SharesInv
<1>7. TradesOnItsSide(x)'
  <2>1. \A i \in Trades(x) : events'[i] = events[i]
    BY <1>2, <1>5, SumTerms DEF StreamExtends
  <2>2. QED
    BY <1>1, <1>5, <1>6, <2>1 DEF TradesOnItsSide, Side
<1>8. CASE x = o
  <2>1. pc'[x] = "returned"
    BY <1>1, <1>2, <1>8
  <2>2. PartFills(x) = {}
    BY <1>1, <1>6, <1>8 DEF ReportsOf
  <2>3. Traded(x)' = Traded(x) /\ Traded(x) \in Int /\ Reported(PartFills(x)) = 0
    BY <1>2, <1>5, <2>2, TradedFrame, SumsAreInts, ReportedIsInt
  <2>4. qty[o] = Traded(x) + remaining
    BY <1>1, <1>6, <1>8 DEF SharesOf, SharesAccounted, QuantityAsSubmitted
  <2>5. CASE remaining = 0
    <3>1. About("OrderFilled", x)' # {}
      BY <1>5, <1>8, <2>5 DEF At
    <3>2. QED
      BY <1>7, <2>1, <3>1 DEF ReportsOf
  <2>6. CASE some
    <3>1. PartFills(x)' = PartFills(x) \cup {k}
      BY <1>4, <1>8, <2>6 DEF At
    <3>2. events'[k].filled = Traded(x)
      BY <1>2, <1>4, <2>3, <2>4, <2>6
    <3>3. Reported(PartFills(x))' = Reported(PartFills(x)) + events'[k].filled
      BY <1>2, <1>4, <1>5, <2>3, <3>1, <3>2, ReportedMore
    <3>4. Reported(PartFills(x))' = Traded(x)'
      BY <2>3, <3>2, <3>3
    <3>5. QED
      BY <1>7, <2>1, <3>4 DEF ReportsOf
  <2>7. CASE remaining > 0 /\ ~some
    <3>1. PartFills(x)' = PartFills(x)
      BY <1>4, <2>7 DEF At
    <3>2. Reported(PartFills(x))' = 0
      BY <1>2, <1>5, <2>3, <3>1, ReportedFrame
    <3>3. remaining <= qty[o]
      BY <1>1, <1>6, <1>8 DEF ReportsOf
    <3>4. Traded(x) = 0
      BY <1>2, <2>3, <2>4, <2>7, <3>3
    <3>5. QED
      BY <1>7, <2>1, <2>3, <3>2, <3>4 DEF ReportsOf
  <2>8. QED
    BY <1>2, <2>5, <2>6, <2>7
<1>9. CASE x # o
  <2>1. /\ About("OrderFilled", x)' = About("OrderFilled", x)
        /\ PartFills(x)' = PartFills(x) /\ pc'[x] = pc[x]
    BY <1>1, <1>2, <1>4, <1>5, <1>9 DEF At
  <2>2. pc[x] \notin {"select", "fill"}
    BY <1>1, <1>9 DEF IInv, MutualExclusion
  <2>3. QED
    BY <1>1, <1>5, <1>6, <2>1, <2>2, UntouchedReports
<1>10. QED
  BY <1>8, <1>9

\* A cancel says nothing of fills or trades.
LEMMA CancelReports ==
    ASSUME IInv, ReportInv, NEW o \in Orders, NEW side \in Sides, Cancel(o, side)
    PROVE  ReportInv'
<1>1. UNCHANGED <<request, qty, pc, remaining>>
  BY DEF Cancel
<1>2. SUFFICES ASSUME NEW x \in Orders PROVE ReportsOf(x)' /\ TradesOnItsSide(x)'
  BY DEF ReportInv
<1>3. /\ StreamExtends /\ Trades(x)' = Trades(x)
      /\ PartFills(x)' = PartFills(x)
      /\ About("OrderFilled", x)' = About("OrderFilled", x)
  BY CancelEvents DEF PartFills
<1>4. QED
  BY <1>1, <1>3, UntouchedReports DEF ReportInv

\* Nothing is reported at first.
LEMMA InitReports == Init => ReportInv
<1> SUFFICES ASSUME Init, NEW o \in Orders PROVE ReportsOf(o) /\ TradesOnItsSide(o)
  BY DEF ReportInv
<1>1. pc[o] = "new" /\ Trades(o) = {}
  BY DEF Init, Trades, Published
<1>2. QED
  BY <1>1 DEF ReportsOf, TradesOnItsSide

\* Every step of the engine keeps reports and trades in step.
LEMMA NextReports ==
    IInv /\ StreamInv /\ SharesInv /\ ReportInv /\ [Next]_vars => ReportInv'
<1> SUFFICES ASSUME IInv, StreamInv, SharesInv, ReportInv, [Next]_vars PROVE ReportInv'
  OBVIOUS
<1>1. CASE UNCHANGED vars
  BY <1>1, SilentReports
<1>2. ASSUME NEW o \in Orders, NEW r \in Requests, Submit(o, r) \/ Reject(o, r)
      PROVE  ReportInv'
  BY <1>2, SubmitReports
<1>3. ASSUME NEW o \in Orders, Accept(o) PROVE ReportInv'
  BY <1>3, AcceptReports
<1>4. ASSUME NEW o \in Orders, SelectLevel(o) \/ LeaveLevel(o) PROVE ReportInv'
  BY <1>4, SilentReports
<1>5. ASSUME NEW o \in Orders, FillFront(o) PROVE ReportInv'
  BY <1>5, FillFrontReports
<1>6. ASSUME NEW o \in Orders, Finish(o) PROVE ReportInv'
  BY <1>6, FinishReports
<1>7. ASSUME NEW o \in Orders, NEW side \in Sides, Cancel(o, side) PROVE ReportInv'
  BY <1>7, CancelReports
<1>8. QED
  BY <1>1, <1>2, <1>3, <1>4, <1>5, <1>6, <1>7 DEF Next

\* The reports of partial fills add up to what traded.
LEMMA ReportInvariance == Spec => []ReportInv
BY Invariance, StreamInvariance, SharesInvariance, InitReports, NextReports, PTL DEF Spec

-----------------------------------------------------------------------------
(***************************************************************************)
(* The tables of an order and its trader, after the events settled so far. *)
(***************************************************************************)
\* The indexes in S whose event was settled.
Seen(S) == {i \in S : i <= consumed}

\* The row says what the settled events said.
RowOf(o) ==
    LET row == rows[o] IN
    /\ row # NoRow <=> Seen(Placed(o)) # {}
    /\ row # NoRow =>
         /\ row.trader = o /\ row.type = request[o].type /\ row.side = Side(o)
         /\ row.quantity = request[o].quantity
         /\ row.type = "Limit" => row.limit = request[o].limit
         /\ row.status = "FILLED" <=> Seen(About("OrderFilled", o)) # {}
         /\ row.status = "CANCELLED" <=> Seen(About("OrderCancelled", o)) # {}
         /\ row.filled = IF row.status = "FILLED" THEN row.quantity
                         ELSE Reported(Seen(PartFills(o)))
         /\ row.remaining = row.quantity - row.filled

\* What a row keeps on hold: the shares that did not trade, until it is cancelled.
OnHold(o) ==
    IF rows[o] = NoRow THEN 0
    ELSE IF rows[o].status = "CANCELLED" THEN 0
    ELSE rows[o].quantity - Shares(Seen(Trades(o)))

HoldsOf(o) ==
    IF rows[o] = NoRow THEN cashHold[o] = 0 /\ positions[o].hold = 0
    ELSE /\ cashHold[o] = IF rows[o].side = "Buy" /\ rows[o].type = "Limit"
                          THEN OnHold(o) * rows[o].limit ELSE 0
         /\ positions[o].hold = IF rows[o].side = "Sell" THEN OnHold(o) ELSE 0

Sold(o) == Trades(o) \ Bought(o)

OwnsOf(o) ==
    /\ cash[o] + cashHold[o] =
          InitialCash + Value(Seen(Sold(o))) - Value(Seen(Bought(o)))
    /\ positions[o].quantity + positions[o].hold =
          InitialShares + Shares(Seen(Bought(o))) - Shares(Seen(Sold(o)))

TablesOf(o) == RowOf(o) /\ HoldsOf(o) /\ OwnsOf(o)

EngineInv == IInv /\ StreamInv /\ SharesInv /\ ReportInv

\* The invariant of the platform.
PlatformInv ==
    /\ EngineInv
    /\ PlatformTypeOK
    /\ \A o \in Orders : positions[o] # NoRow
    /\ \A o \in Orders : TablesOf(o)

-----------------------------------------------------------------------------
(***************************************************************************)
(* The engine goes on.                                                     *)
(***************************************************************************)
\* Every step of the engine leaves what is published, and what was requested.
LEMMA NextExtends ==
    ASSUME IInv, [Next]_vars
    PROVE  /\ StreamExtends
           /\ \A x \in Orders : pc[x] # "new" => request'[x] = request[x]
<1>0. events \in Seq(Events) /\ request \in [Orders -> Requests \cup {NoRequest}]
  BY DEF IInv, TypeOK
<1>1. CASE events' = events /\ request' = request
  BY <1>1 DEF StreamExtends
<1>2. ASSUME NEW o \in Orders, NEW r \in Requests, Submit(o, r)
      PROVE  /\ StreamExtends
             /\ \A x \in Orders : pc[x] # "new" => request'[x] = request[x]
  BY <1>0, <1>2 DEF Submit, StreamExtends
<1>3. ASSUME NEW o \in Orders, NEW r \in Requests, Reject(o, r)
      PROVE  /\ StreamExtends
             /\ \A x \in Orders : pc[x] # "new" => request'[x] = request[x]
  <2>1. events' = Append(events, RejectedEvent(o, r))
    BY <1>3 DEF Reject
  <2>2. StreamExtends
    BY <1>0, <2>1, OneEventExtends
  <2>3. QED
    BY <1>0, <1>3, <2>2 DEF Reject
<1>4. ASSUME NEW o \in Orders, Accept(o) PROVE StreamExtends /\ request' = request
  <2>1. events' = Append(events, PlacedEvent(o)) /\ request' = request
    BY <1>4 DEF Accept
  <2>2. QED
    BY <1>0, <2>1, OneEventExtends
<1>5. ASSUME NEW o \in Orders, FillFront(o) PROVE StreamExtends /\ request' = request
  <2>1. PICK maker \in Orders, quantity \in Nat \ {0} : Fills(o, maker, quantity)
    BY <1>5, FillFrontTrades
  <2>2. StreamExtends
    BY <1>5, <2>1, FillsEvents
  <2>3. QED
    BY <2>1, <2>2 DEF Fills
<1>6. ASSUME NEW o \in Orders, Finish(o) PROVE StreamExtends /\ request' = request
  <2>1. StreamExtends
    BY <1>6, FinishEvents
  <2>2. QED
    BY <1>6, <2>1 DEF Finish
<1>7. ASSUME NEW o \in Orders, NEW side \in Sides, Cancel(o, side)
      PROVE  StreamExtends /\ request' = request
  <2>1. StreamExtends
    BY <1>7, CancelEvents
  <2>2. QED
    BY <1>7, <2>1 DEF Cancel
<1>8. ASSUME NEW o \in Orders, SelectLevel(o) \/ LeaveLevel(o)
      PROVE  events' = events /\ request' = request
  BY <1>8 DEF SelectLevel, LeaveLevel
<1>9. QED
  BY <1>1, <1>2, <1>3, <1>4, <1>5, <1>6, <1>7, <1>8 DEF Next, vars

\* What was settled of an order stays so while the engine publishes.
LEMMA SeenStays ==
    ASSUME events \in Seq(Events), events' \in Seq(Events), StreamExtends,
           consumed \in 0..Len(events), consumed' = consumed, NEW o
    PROVE  /\ \A t : Seen(About(t, o))' = Seen(About(t, o))
           /\ Seen(Trades(o))' = Seen(Trades(o))
           /\ Seen(Bought(o))' = Seen(Bought(o))
           /\ Seen(Sold(o))' = Seen(Sold(o))
           /\ \A i \in 1..consumed : events'[i] = events[i]
<1>1. \A i : i \in DOMAIN events' /\ i <= consumed' <=> i \in DOMAIN events /\ i <= consumed
  BY LenProperties DEF StreamExtends
<1>2. \A i \in DOMAIN events : events'[i] = events[i]
  BY DEF StreamExtends
<1>3. \A i \in 1..consumed : events'[i] = events[i]
  BY <1>2, LenProperties
<1>4. ASSUME NEW t PROVE Seen(About(t, o))' = Seen(About(t, o))
  BY <1>1, <1>2 DEF Seen, About, Published
<1>5. Seen(Trades(o))' = Seen(Trades(o))
  BY <1>1, <1>2 DEF Seen, Trades, Published
<1>6. Seen(Bought(o))' = Seen(Bought(o)) /\ Seen(Sold(o))' = Seen(Sold(o))
  BY <1>1, <1>2 DEF Seen, Bought, Sold, Trades, Published
<1>7. QED
  BY <1>3, <1>4, <1>5, <1>6

\* What was settled lies within the listener's position.
LEMMA SeenWithin ==
    ASSUME events \in Seq(Events), consumed \in Nat, NEW o
    PROVE  /\ \A t : Seen(About(t, o)) \subseteq 1..consumed
           /\ Seen(Trades(o)) \subseteq 1..consumed
           /\ Seen(Bought(o)) \subseteq 1..consumed
           /\ Seen(Sold(o)) \subseteq 1..consumed
BY LenProperties DEF Seen, About, Bought, Sold, Trades, Published

\* ... and so do the sums over it.
LEMMA SeenSumsStay ==
    ASSUME events \in Seq(Events), events' \in Seq(Events), StreamExtends,
           consumed \in 0..Len(events), consumed' = consumed, NEW o
    PROVE  /\ Reported(Seen(PartFills(o)))' = Reported(Seen(PartFills(o)))
           /\ Shares(Seen(Trades(o)))' = Shares(Seen(Trades(o)))
           /\ Shares(Seen(Bought(o)))' = Shares(Seen(Bought(o)))
           /\ Shares(Seen(Sold(o)))' = Shares(Seen(Sold(o)))
           /\ Value(Seen(Bought(o)))' = Value(Seen(Bought(o)))
           /\ Value(Seen(Sold(o)))' = Value(Seen(Sold(o)))
<1> DEFINE p == Seen(PartFills(o))
           a == Seen(Trades(o))
           b == Seen(Bought(o))
           c == Seen(Sold(o))
<1>1. p' = p /\ a' = a /\ b' = b /\ c' = c
  BY SeenStays DEF PartFills
<1>2. \A i \in 1..consumed : events'[i] = events[i]
  BY SeenStays
<1>3. /\ p \subseteq 1..consumed /\ a \subseteq 1..consumed
      /\ b \subseteq 1..consumed /\ c \subseteq 1..consumed
  BY SeenWithin, LenProperties DEF PartFills
<1>4. Reported(p)' = Reported(p)
  <2>1. [i \in p' |-> events'[i].filled] = [i \in p |-> events[i].filled]
    BY <1>1, <1>2, <1>3
  <2>2. QED
    BY <2>1 DEF Reported
<1>5. Shares(a)' = Shares(a)
  <2>1. [i \in a' |-> events'[i].quantity] = [i \in a |-> events[i].quantity]
    BY <1>1, <1>2, <1>3
  <2>2. QED
    BY <2>1 DEF Shares
<1>6. Shares(b)' = Shares(b) /\ Value(b)' = Value(b)
  <2>1. /\ [i \in b' |-> events'[i].quantity] = [i \in b |-> events[i].quantity]
        /\ [i \in b' |-> events'[i].price * events'[i].quantity]
              = [i \in b |-> events[i].price * events[i].quantity]
    BY <1>1, <1>2, <1>3
  <2>2. QED
    BY <2>1 DEF Shares, Value
<1>7. Shares(c)' = Shares(c) /\ Value(c)' = Value(c)
  <2>1. /\ [i \in c' |-> events'[i].quantity] = [i \in c |-> events[i].quantity]
        /\ [i \in c' |-> events'[i].price * events'[i].quantity]
              = [i \in c |-> events[i].price * events[i].quantity]
    BY <1>1, <1>2, <1>3
  <2>2. QED
    BY <2>1 DEF Shares, Value
<1>8. QED
  BY <1>4, <1>5, <1>6, <1>7

\* The tables still say what the settled events said.
LEMMA TradeKeepsTables ==
    ASSUME PlatformInv, [Next]_vars, IInv', UNCHANGED <<consumed, tables>>, NEW o \in Orders
    PROVE  TablesOf(o)'
<1>1. /\ events \in Seq(Events) /\ events' \in Seq(Events)
      /\ consumed \in 0..Len(events) /\ consumed' = consumed
      /\ UNCHANGED <<cash, cashHold, positions, rows>>
      /\ TablesOf(o) /\ StreamOf(o)
  BY DEF PlatformInv, EngineInv, PlatformTypeOK, IInv, TypeOK, StreamInv, tables
<1>2. StreamExtends /\ (pc[o] # "new" => request'[o] = request[o])
  BY NextExtends DEF PlatformInv, EngineInv
<1>3. /\ \A t : Seen(About(t, o))' = Seen(About(t, o))
      /\ Reported(Seen(PartFills(o)))' = Reported(Seen(PartFills(o)))
      /\ Shares(Seen(Trades(o)))' = Shares(Seen(Trades(o)))
      /\ Shares(Seen(Bought(o)))' = Shares(Seen(Bought(o)))
      /\ Shares(Seen(Sold(o)))' = Shares(Seen(Sold(o)))
      /\ Value(Seen(Bought(o)))' = Value(Seen(Bought(o)))
      /\ Value(Seen(Sold(o)))' = Value(Seen(Sold(o)))
  BY <1>1, <1>2, SeenStays, SeenSumsStay
<1>4. rows[o] # NoRow => request'[o] = request[o]
  <2>1. rows[o] # NoRow => Placed(o) # {}
    BY <1>1 DEF TablesOf, RowOf, Seen
  <2>2. QED
    BY <1>1, <1>2, <2>1 DEF StreamOf, UnseenBeforePlaced
<1>5. Seen(Placed(o))' = Seen(Placed(o))
  BY <1>3 DEF Placed
<1>6. RowOf(o)'
  BY <1>1, <1>3, <1>4, <1>5 DEF TablesOf, RowOf, Side
<1>7. HoldsOf(o)' /\ OwnsOf(o)'
  BY <1>1, <1>3 DEF TablesOf, HoldsOf, OnHold, OwnsOf
<1>8. QED
  BY <1>6, <1>7 DEF TablesOf

-----------------------------------------------------------------------------
(***************************************************************************)
(* The listener settles one more event.                                    *)
(***************************************************************************)
\* The wire names every type as the engine does.
LEMMA NameOfCode ==
    ASSUME NEW names, DOMAIN names \subseteq Int, NEW name,
           \E i \in DOMAIN names : names[i] = name
    PROVE  Name(names, Code(names, name)) = name
<1> DEFINE j == CHOOSE i \in DOMAIN names : names[i] = name
<1>1. j \in DOMAIN names /\ names[j] = name
  BY Zenon
<1> HIDE DEF j
<1>2. (j - 1) + 1 = j
  BY <1>1
<1>3. Code(names, name) = j - 1
  BY DEF Code, j
<1>4. QED
  BY <1>1, <1>2, <1>3 DEF Name

\* Every name of the engine comes back as itself.
LEMMA Codes ==
    /\ \A t \in {"OrderPlaced", "OrderCancelled", "OrderFilled", "OrderPartiallyFilled",
                 "OrderRejected", "TradeExecuted"} :
          Name(ListenerEventTypes, Code(EngineEventTypes, t)) = t
    /\ \A t \in {"Limit", "Market"} : Name(ListenerOrderTypes, Code(EngineOrderTypes, t)) = t
    /\ \A t \in {"Buy", "Sell"} : Name(ListenerSides, Code(EngineSides, t)) = t
<1>1. ASSUME NEW t \in {"OrderPlaced", "OrderCancelled", "OrderFilled",
                        "OrderPartiallyFilled", "OrderRejected", "TradeExecuted"}
      PROVE  Name(ListenerEventTypes, Code(EngineEventTypes, t)) = t
  <2>1. /\ ListenerEventTypes = EngineEventTypes
        /\ DOMAIN EngineEventTypes \subseteq Int
        /\ \E i \in DOMAIN EngineEventTypes : EngineEventTypes[i] = t
    BY DEF ListenerEventTypes, EngineEventTypes
  <2>2. QED
    BY <2>1, NameOfCode
<1>2. ASSUME NEW t \in {"Limit", "Market"}
      PROVE  Name(ListenerOrderTypes, Code(EngineOrderTypes, t)) = t
  <2>1. /\ ListenerOrderTypes = EngineOrderTypes
        /\ DOMAIN EngineOrderTypes \subseteq Int
        /\ \E i \in DOMAIN EngineOrderTypes : EngineOrderTypes[i] = t
    BY DEF ListenerOrderTypes, EngineOrderTypes
  <2>2. QED
    BY <2>1, NameOfCode
<1>3. ASSUME NEW t \in {"Buy", "Sell"}
      PROVE  Name(ListenerSides, Code(EngineSides, t)) = t
  <2>1. /\ ListenerSides = EngineSides
        /\ DOMAIN EngineSides \subseteq Int
        /\ \E i \in DOMAIN EngineSides : EngineSides[i] = t
    BY DEF ListenerSides, EngineSides
  <2>2. QED
    BY <2>1, NameOfCode
<1>4. QED
  BY <1>1, <1>2, <1>3

\* What InsertEvent gets of the engine's event e.
Decoded(e) == UnmarshalStreamEvent(MarshalEvent(e, request))

\* The number on the wire stands for the type of the event.
LEMMA DecodedType ==
    ASSUME NEW e \in Events
    PROVE  /\ Name(ListenerEventTypes, MarshalEvent(e, request).type) = e.type
           /\ e.type \in {"OrderPlaced", "OrderCancelled", "OrderFilled",
                          "OrderPartiallyFilled", "OrderRejected", "TradeExecuted"}
<1>1. e.type \in {"OrderPlaced", "OrderCancelled", "OrderFilled",
                  "OrderPartiallyFilled", "OrderRejected", "TradeExecuted"}
  BY DEF Events
<1>2. MarshalEvent(e, request).type = Code(EngineEventTypes, e.type)
  BY DEF MarshalEvent
<1>3. QED
  BY <1>1, <1>2, Codes

\* A Placed event arrives with the fields of the request.
LEMMA DecodedPlaced ==
    ASSUME NEW e \in Events, e.type = "OrderPlaced", request[e.order] \in Requests
    PROVE  Decoded(e) =
             [type |-> "OrderPlaced", order |-> e.order, trader |-> e.order,
              orderType |-> request[e.order].type, side |-> request[e.order].side,
              quantity |-> request[e.order].quantity, limit |-> request[e.order].limit]
<1>1. request[e.order].type \in {"Limit", "Market"} /\ request[e.order].side \in {"Buy", "Sell"}
  BY RequestsAssumption DEF RequestType, Sides
<1>2. MarshalEvent(e, request).data = OrderPlacedJSON(e.order, request[e.order])
  BY DEF MarshalEvent
<1>3. Decoded(e) = OrderPlacedEvent(MarshalEvent(e, request).data)
  BY DecodedType DEF Decoded, UnmarshalStreamEvent
<1>4. QED
  BY <1>1, <1>2, <1>3, Codes DEF OrderPlacedEvent, OrderPlacedJSON

\* A Cancelled event arrives with the order's type and side.
LEMMA DecodedCancelled ==
    ASSUME NEW e \in Events, e.type = "OrderCancelled", request[e.order] \in Requests
    PROVE  Decoded(e) =
             [type |-> "OrderCancelled", order |-> e.order,
              orderType |-> request[e.order].type, side |-> request[e.order].side]
<1>1. request[e.order].type \in {"Limit", "Market"} /\ request[e.order].side \in {"Buy", "Sell"}
  BY RequestsAssumption DEF RequestType, Sides
<1>2. MarshalEvent(e, request).data = OrderCancelledJSON(e.order, request[e.order])
  BY DEF MarshalEvent
<1>3. Decoded(e) = OrderCancelledEvent(MarshalEvent(e, request).data)
  BY DecodedType DEF Decoded, UnmarshalStreamEvent
<1>4. QED
  BY <1>1, <1>2, <1>3, Codes DEF OrderCancelledEvent, OrderCancelledJSON

\* A Filled event arrives with its order.
LEMMA DecodedFilled ==
    ASSUME NEW e \in Events, e.type = "OrderFilled"
    PROVE  Decoded(e) = [type |-> "OrderFilled", order |-> e.order]
<1>1. MarshalEvent(e, request).data = OrderFilledJSON(e.order)
  BY DEF MarshalEvent
<1>2. Decoded(e) = OrderFilledEvent(MarshalEvent(e, request).data)
  BY DecodedType DEF Decoded, UnmarshalStreamEvent
<1>3. QED
  BY <1>1, <1>2 DEF OrderFilledEvent, OrderFilledJSON

\* A PartiallyFilled event arrives with what was filled.
LEMMA DecodedPartiallyFilled ==
    ASSUME NEW e \in Events, e.type = "OrderPartiallyFilled"
    PROVE  Decoded(e) =
             [type |-> "OrderPartiallyFilled", order |-> e.order, filled |-> e.filled]
<1>1. MarshalEvent(e, request).data = OrderPartiallyFilledJSON(e)
  BY DEF MarshalEvent
<1>2. Decoded(e) = OrderPartiallyFilledEvent(MarshalEvent(e, request).data)
  BY DecodedType DEF Decoded, UnmarshalStreamEvent
<1>3. QED
  BY <1>1, <1>2 DEF OrderPartiallyFilledEvent, OrderPartiallyFilledJSON

\* A Rejected event arrives as one.
LEMMA DecodedRejected ==
    ASSUME NEW e \in Events, e.type = "OrderRejected"
    PROVE  Decoded(e).type = "OrderRejected"
<1>1. Decoded(e) = OrderRejectedEvent(MarshalEvent(e, request).data)
  BY DecodedType DEF Decoded, UnmarshalStreamEvent
<1>2. QED
  BY <1>1 DEF OrderRejectedEvent

\* A trade arrives with both orders, the buyer's type and what it cost.
LEMMA DecodedTrade ==
    ASSUME NEW e \in Events, e.type = "TradeExecuted", request[e.buyer] \in Requests
    PROVE  Decoded(e) =
             [type |-> "TradeExecuted", buyer |-> e.buyer, seller |-> e.seller,
              buyerType |-> request[e.buyer].type,
              buyerTrader |-> e.buyer, sellerTrader |-> e.seller,
              quantity |-> e.quantity, price |-> e.price, total |-> e.price * e.quantity]
<1>1. request[e.buyer].type \in {"Limit", "Market"}
  BY RequestsAssumption DEF RequestType
<1>2. MarshalEvent(e, request).data =
        TradeExecutedJSON(e, request[e.buyer], request[e.seller])
  BY DEF MarshalEvent
<1>3. Decoded(e) = TradeExecutedEvent(MarshalEvent(e, request).data)
  BY DecodedType DEF Decoded, UnmarshalStreamEvent
<1>4. QED
  BY <1>1, <1>2, <1>3, Codes DEF TradeExecutedEvent, TradeExecutedJSON

-----------------------------------------------------------------------------
\* The event e, the n-th of the stream, is the listener's next.
Due(n, e) == n \in DOMAIN events /\ e = events[n] /\ consumed = n - 1

\* The listener settles it.
Settling(n, e) ==
    /\ Due(n, e)
    /\ consumed' = n
    /\ UNCHANGED vars

\* What was settled of an order grows by what the event is about.
LEMMA SeenAboutGrows ==
    ASSUME events \in Seq(Events), NEW n, NEW e, Settling(n, e), NEW t, NEW o
    PROVE  Seen(About(t, o))' = Seen(About(t, o)) \cup At(n, Concerns(e, t, o))
<1>1. /\ n \in 1..Len(events) /\ DOMAIN events = 1..Len(events) /\ Len(events) \in Nat
      /\ e = events[n] /\ consumed = n - 1 /\ consumed' = n /\ events' = events
  BY LenProperties DEF Settling, Due, vars
<1>2. \A i \in DOMAIN events : i <= consumed' <=> i <= consumed \/ i = n
  BY <1>1
<1>3. QED
  BY <1>1, <1>2 DEF Seen, About, Published, At, Concerns

\* The settled trades of an order grow by the event if it is one of them.
LEMMA SeenTradesGrow ==
    ASSUME events \in Seq(Events), NEW n, NEW e, Settling(n, e), NEW o
    PROVE  /\ Seen(Trades(o))' = Seen(Trades(o)) \cup At(n, TradeOf(e, o))
           /\ Seen(Bought(o))' = Seen(Bought(o)) \cup At(n, TradeOf(e, o) /\ e.buyer = o)
           /\ Seen(Sold(o))' = Seen(Sold(o)) \cup At(n, TradeOf(e, o) /\ e.buyer # o)
<1>1. /\ n \in 1..Len(events) /\ DOMAIN events = 1..Len(events) /\ Len(events) \in Nat
      /\ e = events[n] /\ consumed = n - 1 /\ consumed' = n /\ events' = events
  BY LenProperties DEF Settling, Due, vars
<1>2. \A i \in DOMAIN events : i <= consumed' <=> i <= consumed \/ i = n
  BY <1>1
<1>3. Seen(Trades(o))' = Seen(Trades(o)) \cup At(n, TradeOf(e, o))
  BY <1>1, <1>2 DEF Seen, Trades, Published, At, TradeOf
<1>4. Seen(Bought(o))' = Seen(Bought(o)) \cup At(n, TradeOf(e, o) /\ e.buyer = o)
  BY <1>1, <1>2 DEF Seen, Bought, Trades, Published, At, TradeOf
<1>5. Seen(Sold(o))' = Seen(Sold(o)) \cup At(n, TradeOf(e, o) /\ e.buyer # o)
  BY <1>1, <1>2 DEF Seen, Sold, Bought, Trades, Published, At, TradeOf
<1>6. QED
  BY <1>3, <1>4, <1>5

\* One index more adds its value.
LEMMA SharesAreInts ==
    ASSUME NEW S, IsFiniteSet(S),
           \A i \in S : events[i].quantity \in Int, \A i \in S : events[i].price \in Int
    PROVE  Shares(S) \in Int /\ Value(S) \in Int
<1> DEFINE f == [i \in S |-> events[i].quantity]
           g == [i \in S |-> events[i].price * events[i].quantity]
<1>1. Shares(S) = SumFunctionOnSet(f, S) /\ Value(S) = SumFunctionOnSet(g, S)
  BY DEF Shares, Value, SumFunction
<1>2. \A i \in S : f[i] \in Int
  OBVIOUS
<1>3. \A i \in S : g[i] \in Int
  <2>1. \A a, b \in Int : a * b \in Int
    OBVIOUS
  <2>2. QED
    BY <2>1
<1> HIDE DEF f, g
<1>4. QED
  BY <1>1, <1>2, <1>3, SumIsInt

\* One more trade adds its shares and its value.
LEMMA SharesOfOneMore ==
    ASSUME NEW S, IsFiniteSet(S), NEW n, n \notin S, NEW R, R = S \cup {n},
           \A i \in R : events[i].quantity \in Int, \A i \in R : events[i].price \in Int
    PROVE  /\ Shares(R) = Shares(S) + events[n].quantity
           /\ Value(R) = Value(S) + events[n].price * events[n].quantity
<1>1. \A i \in R : events[i].price * events[i].quantity \in Int
  <2>1. \A a, b \in Int : a * b \in Int
    OBVIOUS
  <2>2. QED
    BY <2>1
<1>2. Shares(R) = Shares(S) + events[n].quantity
  <2> DEFINE f == [i \in S |-> events[i].quantity]
             g == [i \in R |-> events[i].quantity]
  <2>1. Shares(S) = SumFunctionOnSet(f, S) /\ Shares(R) = SumFunctionOnSet(g, R)
    BY DEF Shares, SumFunction
  <2>2. /\ \A y \in S : f[y] \in Int
        /\ \A y \in S : g[y] = f[y]
        /\ g[n] \in Int /\ g[n] = events[n].quantity
    OBVIOUS
  <2> HIDE DEF f, g
  <2>3. SumFunctionOnSet(g, R) = SumFunctionOnSet(f, S) + g[n]
    BY <2>2, SumOfOneMore
  <2>4. QED
    BY <2>1, <2>2, <2>3
<1>3. Value(R) = Value(S) + events[n].price * events[n].quantity
  <2> DEFINE v(i) == events[i].price * events[i].quantity
             f == [i \in S |-> v(i)]
             g == [i \in R |-> v(i)]
  <2>1. Value(S) = SumFunctionOnSet(f, S) /\ Value(R) = SumFunctionOnSet(g, R)
    BY DEF Value, SumFunction
  <2>2. \A i \in R : v(i) \in Int
    BY <1>1
  <2> HIDE DEF v
  <2>3. /\ \A y \in S : f[y] \in Int
        /\ \A y \in S : g[y] = f[y]
        /\ g[n] \in Int /\ g[n] = v(n)
    BY <2>2
  <2> HIDE DEF f, g
  <2>4. SumFunctionOnSet(g, R) = SumFunctionOnSet(f, S) + g[n]
    BY <2>3, SumOfOneMore
  <2>5. QED
    BY <2>1, <2>3, <2>4 DEF v
<1>4. QED
  BY <1>2, <1>3

\* One more report adds what it says.
LEMMA ReportedOfOneMore ==
    ASSUME NEW S, IsFiniteSet(S), NEW n, n \notin S, NEW R, R = S \cup {n},
           \A i \in R : events[i].filled \in Int
    PROVE  Reported(R) = Reported(S) + events[n].filled
<1> DEFINE f == [i \in S |-> events[i].filled]
           g == [i \in R |-> events[i].filled]
<1>1. Reported(S) = SumFunctionOnSet(f, S) /\ Reported(R) = SumFunctionOnSet(g, R)
  BY DEF Reported, SumFunction
<1>2. /\ \A y \in S : f[y] \in Int
      /\ \A y \in S : g[y] = f[y]
      /\ g[n] \in Int /\ g[n] = events[n].filled
  OBVIOUS
<1> HIDE DEF f, g
<1>3. SumFunctionOnSet(g, R) = SumFunctionOnSet(f, S) + g[n]
  BY <1>2, SumOfOneMore
<1>4. QED
  BY <1>1, <1>2, <1>3

\* The sums over what was settled of an order, and their terms.
LEMMA SeenTerms ==
    ASSUME events \in Seq(Events), NEW o
    PROVE  /\ IsFiniteSet(Seen(PartFills(o))) /\ IsFiniteSet(Seen(Trades(o)))
           /\ IsFiniteSet(Seen(Bought(o))) /\ IsFiniteSet(Seen(Sold(o)))
           /\ Seen(PartFills(o)) \subseteq PartFills(o)
           /\ Seen(Trades(o)) \subseteq Trades(o)
           /\ Seen(Bought(o)) \subseteq Trades(o)
           /\ Seen(Sold(o)) \subseteq Trades(o)
           /\ \A i \in Trades(o) : events[i].quantity \in Int
           /\ \A i \in Trades(o) : events[i].price \in Int
           /\ \A i \in PartFills(o) : events[i].filled \in Int
<1>1. /\ Seen(PartFills(o)) \subseteq PartFills(o)
      /\ Seen(Trades(o)) \subseteq Trades(o)
      /\ Seen(Bought(o)) \subseteq Trades(o)
      /\ Seen(Sold(o)) \subseteq Trades(o)
  BY DEF Seen, Bought, Sold
<1>2. IsFiniteSet(Trades(o)) /\ IsFiniteSet(PartFills(o))
  BY SumTerms, PartFillTerms
<1>3. /\ \A i \in Trades(o) : events[i].quantity \in Int
      /\ \A i \in Trades(o) : events[i].price \in Int
      /\ \A i \in PartFills(o) : events[i].filled \in Int
  BY SumTerms, PartFillTerms
<1>4. QED
  BY <1>1, <1>2, <1>3, FS_Subset

\* The sums over the settled events are integers.
LEMMA SeenSumsAreInts ==
    ASSUME events \in Seq(Events), NEW o
    PROVE  /\ Reported(Seen(PartFills(o))) \in Int
           /\ Shares(Seen(Trades(o))) \in Int
           /\ Shares(Seen(Bought(o))) \in Int /\ Value(Seen(Bought(o))) \in Int
           /\ Shares(Seen(Sold(o))) \in Int /\ Value(Seen(Sold(o))) \in Int
<1> DEFINE p == Seen(PartFills(o))
           f == [i \in p |-> events[i].filled]
<1>1. Reported(p) = SumFunctionOnSet(f, p)
  BY DEF Reported, SumFunction
<1>2. IsFiniteSet(p) /\ \A i \in p : f[i] \in Int
  BY SeenTerms
<1> HIDE DEF f, p
<1>3. Reported(p) \in Int
  BY <1>1, <1>2, SumIsInt
<1>4. Shares(Seen(Trades(o))) \in Int
  BY SeenTerms, SharesAreInts
<1>5. Shares(Seen(Bought(o))) \in Int /\ Value(Seen(Bought(o))) \in Int
  BY SeenTerms, SharesAreInts
<1>6. Shares(Seen(Sold(o))) \in Int /\ Value(Seen(Sold(o))) \in Int
  BY SeenTerms, SharesAreInts
<1>7. QED
  BY <1>3, <1>4, <1>5, <1>6 DEF p

\* The sums change by what the event says.
LEMMA SeenSumsGrow ==
    ASSUME events \in Seq(Events), NEW n, NEW e, Settling(n, e), NEW o
    PROVE  /\ Reported(Seen(PartFills(o)))' = Reported(Seen(PartFills(o)))
                  + (IF Concerns(e, "OrderPartiallyFilled", o) THEN e.filled ELSE 0)
           /\ Shares(Seen(Trades(o)))' = Shares(Seen(Trades(o)))
                  + (IF TradeOf(e, o) THEN e.quantity ELSE 0)
           /\ Shares(Seen(Bought(o)))' = Shares(Seen(Bought(o)))
                  + (IF TradeOf(e, o) /\ e.buyer = o THEN e.quantity ELSE 0)
           /\ Shares(Seen(Sold(o)))' = Shares(Seen(Sold(o)))
                  + (IF TradeOf(e, o) /\ e.buyer # o THEN e.quantity ELSE 0)
           /\ Value(Seen(Bought(o)))' = Value(Seen(Bought(o)))
                  + (IF TradeOf(e, o) /\ e.buyer = o THEN e.price * e.quantity ELSE 0)
           /\ Value(Seen(Sold(o)))' = Value(Seen(Sold(o)))
                  + (IF TradeOf(e, o) /\ e.buyer # o THEN e.price * e.quantity ELSE 0)
<1>1. n \in DOMAIN events /\ e = events[n] /\ consumed = n - 1 /\ events' = events /\ n \in Int
  BY LenProperties DEF Settling, Due, vars
<1>2. /\ n \notin Seen(PartFills(o)) /\ n \notin Seen(Trades(o))
      /\ n \notin Seen(Bought(o)) /\ n \notin Seen(Sold(o))
  BY <1>1 DEF Seen
<1>3. /\ TradeOf(e, o) => n \in Trades(o)
      /\ Concerns(e, "OrderPartiallyFilled", o) => n \in PartFills(o)
  BY <1>1 DEF TradeOf, Trades, Published, Concerns, PartFills, About
<1>4. Reported(Seen(PartFills(o)))' = Reported(Seen(PartFills(o)))
                  + (IF Concerns(e, "OrderPartiallyFilled", o) THEN e.filled ELSE 0)
  <2> DEFINE S == Seen(PartFills(o))
             R == S \cup At(n, Concerns(e, "OrderPartiallyFilled", o))
  <2>0. Seen(About("OrderPartiallyFilled", o))' = Seen(About("OrderPartiallyFilled", o))
            \cup At(n, Concerns(e, "OrderPartiallyFilled", o))
    BY SeenAboutGrows
  <2>1. S' = R
    BY <2>0 DEF PartFills
  <2>2. Reported(S)' = Reported(R)
    BY <1>1, <2>1 DEF Reported
  <2>3. CASE Concerns(e, "OrderPartiallyFilled", o)
    <3>1. R = S \cup {n}
      BY <2>3 DEF At
    <3>2. IsFiniteSet(S) /\ n \notin S /\ \A i \in R : events[i].filled \in Int
      BY <1>2, <1>3, <2>3, <3>1, SeenTerms
    <3> HIDE DEF R, S
    <3>3. Reported(R) = Reported(S) + events[n].filled
      BY <3>1, <3>2, ReportedOfOneMore
    <3>4. QED
      BY <1>1, <2>2, <2>3, <3>3 DEF S
  <2>4. CASE ~Concerns(e, "OrderPartiallyFilled", o)
    <3>1. R = S
      BY <2>4 DEF At
    <3>2. Reported(S) \in Int
      BY SeenSumsAreInts
    <3> HIDE DEF R, S
    <3>3. QED
      BY <2>2, <2>4, <3>1, <3>2 DEF S
  <2>5. QED
    BY <2>3, <2>4
<1>5. Shares(Seen(Trades(o)))' = Shares(Seen(Trades(o)))
                  + (IF TradeOf(e, o) THEN e.quantity ELSE 0)
  <2> DEFINE S == Seen(Trades(o))
             R == S \cup At(n, TradeOf(e, o))
  <2>1. S' = R
    BY SeenTradesGrow
  <2>2. Shares(S)' = Shares(R)
    BY <1>1, <2>1 DEF Shares
  <2>3. CASE TradeOf(e, o)
    <3>1. R = S \cup {n}
      BY <2>3 DEF At
    <3>2. /\ IsFiniteSet(S) /\ n \notin S
          /\ \A i \in R : events[i].quantity \in Int
          /\ \A i \in R : events[i].price \in Int
      BY <1>2, <1>3, <2>3, <3>1, SeenTerms
    <3> HIDE DEF R, S
    <3>3. Shares(R) = Shares(S) + events[n].quantity
      BY <3>1, <3>2, SharesOfOneMore
    <3>4. QED
      BY <1>1, <2>2, <2>3, <3>3 DEF S
  <2>4. CASE ~TradeOf(e, o)
    <3>1. R = S
      BY <2>4 DEF At
    <3>2. Shares(S) \in Int
      BY SeenSumsAreInts
    <3> HIDE DEF R, S
    <3>3. QED
      BY <2>2, <2>4, <3>1, <3>2 DEF S
  <2>5. QED
    BY <2>3, <2>4
<1>6. /\ Shares(Seen(Bought(o)))' = Shares(Seen(Bought(o)))
                  + (IF TradeOf(e, o) /\ e.buyer = o THEN e.quantity ELSE 0)
      /\ Value(Seen(Bought(o)))' = Value(Seen(Bought(o)))
                  + (IF TradeOf(e, o) /\ e.buyer = o THEN e.price * e.quantity ELSE 0)
  <2> DEFINE S == Seen(Bought(o))
             R == S \cup At(n, TradeOf(e, o) /\ e.buyer = o)
  <2>1. S' = R
    BY SeenTradesGrow
  <2>2. Shares(S)' = Shares(R) /\ Value(S)' = Value(R)
    BY <1>1, <2>1 DEF Shares, Value
  <2>3. CASE TradeOf(e, o) /\ e.buyer = o
    <3>1. R = S \cup {n}
      BY <2>3 DEF At
    <3>2. /\ IsFiniteSet(S) /\ n \notin S
          /\ \A i \in R : events[i].quantity \in Int
          /\ \A i \in R : events[i].price \in Int
      BY <1>2, <1>3, <2>3, <3>1, SeenTerms
    <3> HIDE DEF R, S
    <3>3. /\ Shares(R) = Shares(S) + events[n].quantity
          /\ Value(R) = Value(S) + events[n].price * events[n].quantity
      BY <3>1, <3>2, SharesOfOneMore
    <3>4. QED
      BY <1>1, <2>2, <2>3, <3>3 DEF S
  <2>4. CASE ~(TradeOf(e, o) /\ e.buyer = o)
    <3>1. R = S
      BY <2>4 DEF At
    <3>2. Shares(S) \in Int /\ Value(S) \in Int
      BY SeenSumsAreInts
    <3> HIDE DEF R, S
    <3>3. QED
      BY <2>2, <2>4, <3>1, <3>2 DEF S
  <2>5. QED
    BY <2>3, <2>4
<1>7. /\ Shares(Seen(Sold(o)))' = Shares(Seen(Sold(o)))
                  + (IF TradeOf(e, o) /\ e.buyer # o THEN e.quantity ELSE 0)
      /\ Value(Seen(Sold(o)))' = Value(Seen(Sold(o)))
                  + (IF TradeOf(e, o) /\ e.buyer # o THEN e.price * e.quantity ELSE 0)
  <2> DEFINE S == Seen(Sold(o))
             R == S \cup At(n, TradeOf(e, o) /\ e.buyer # o)
  <2>1. S' = R
    BY SeenTradesGrow
  <2>2. Shares(S)' = Shares(R) /\ Value(S)' = Value(R)
    BY <1>1, <2>1 DEF Shares, Value
  <2>3. CASE TradeOf(e, o) /\ e.buyer # o
    <3>1. R = S \cup {n}
      BY <2>3 DEF At
    <3>2. /\ IsFiniteSet(S) /\ n \notin S
          /\ \A i \in R : events[i].quantity \in Int
          /\ \A i \in R : events[i].price \in Int
      BY <1>2, <1>3, <2>3, <3>1, SeenTerms
    <3> HIDE DEF R, S
    <3>3. /\ Shares(R) = Shares(S) + events[n].quantity
          /\ Value(R) = Value(S) + events[n].price * events[n].quantity
      BY <3>1, <3>2, SharesOfOneMore
    <3>4. QED
      BY <1>1, <2>2, <2>3, <3>3 DEF S
  <2>4. CASE ~(TradeOf(e, o) /\ e.buyer # o)
    <3>1. R = S
      BY <2>4 DEF At
    <3>2. Shares(S) \in Int /\ Value(S) \in Int
      BY SeenSumsAreInts
    <3> HIDE DEF R, S
    <3>3. QED
      BY <2>2, <2>4, <3>1, <3>2 DEF S
  <2>5. QED
    BY <2>3, <2>4
<1>8. QED
  BY <1>4, <1>5, <1>6, <1>7

-----------------------------------------------------------------------------
(***************************************************************************)
(* What the statements do to the rows of the orders and their traders.     *)
(***************************************************************************)
\* The types and CHECKs of the tables, and a position for everybody.
TablesTypeOK ==
    /\ Tables!SettlementTypeOK
    /\ \A x \in Orders : positions[x] # NoRow

\* Nothing that belongs to x changes.
Stays(x) ==
    /\ rows'[x] = rows[x]
    /\ cash'[x] = cash[x] /\ cashHold'[x] = cashHold[x]
    /\ positions'[x] = positions[x]

\* The balance of x, its hold, the shares of x and their hold change by the
\* amounts given.
Moves(x, money, held, shares, heldShares) ==
    /\ cash'[x] = cash[x] + money
    /\ cashHold'[x] = cashHold[x] + held
    /\ positions'[x].quantity = positions[x].quantity + shares
    /\ positions'[x].hold = positions[x].hold + heldShares

\* What CHECK makes of integers.
LEMMA CashColumns ==
    ASSUME cash' \in [Orders -> Int], cashHold' \in [Orders -> Int], Tables!CashChecks'
    PROVE  cash' \in [Orders -> Nat] /\ cashHold' \in [Orders -> Nat]
BY DEF Tables!CashChecks

\* ... and of the two columns of a position.
LEMMA PositionColumns ==
    ASSUME positions' \in [Orders -> [quantity : Int, hold : Int]], Tables!PositionChecks'
    PROVE  /\ positions' \in [Orders -> Tables!Positions \cup {NoRow}]
           /\ \A x \in Orders : positions'[x] # NoRow
<1>1. \A x \in Orders : positions'[x] \in [quantity : Int, hold : Int] /\ positions'[x] # NoRow
  BY PlatformAssumption
<1>2. \A x \in Orders : positions'[x].quantity >= 0 /\ positions'[x].hold >= 0
  BY <1>1 DEF Tables!PositionChecks
<1>3. \A x \in Orders : positions'[x] \in Tables!Positions
  BY <1>1, <1>2 DEF Tables!Positions
<1>4. QED
  BY <1>1, <1>3

\* One row of positions.
LEMMA PositionMoves ==
    ASSUME TablesTypeOK, NEW o \in Orders, NEW a \in Int, NEW b \in Int,
           positions' = [positions EXCEPT ![o] =
               [quantity |-> positions[o].quantity + a, hold |-> positions[o].hold + b]],
           Tables!PositionChecks'
    PROVE  /\ positions' \in [Orders -> Tables!Positions \cup {NoRow}]
           /\ \A x \in Orders : positions'[x] # NoRow
           /\ \A x \in Orders \ {o} : positions'[x] = positions[x]
           /\ positions'[o].quantity = positions[o].quantity + a
           /\ positions'[o].hold = positions[o].hold + b
<1>1. /\ positions \in [Orders -> Tables!Positions \cup {NoRow}]
      /\ \A x \in Orders : positions[x] \in Tables!Positions
  BY DEF TablesTypeOK, Tables!SettlementTypeOK
<1>2. \A x \in Orders : positions[x] \in [quantity : Int, hold : Int]
  BY <1>1 DEF Tables!Positions
<1> DEFINE p == [quantity |-> positions[o].quantity + a, hold |-> positions[o].hold + b]
<1>3. /\ p \in [quantity : Int, hold : Int]
      /\ p.quantity = positions[o].quantity + a /\ p.hold = positions[o].hold + b
  BY <1>2
<1> HIDE DEF p
<1>4. positions' = [positions EXCEPT ![o] = p]
  BY DEF p
<1>5. /\ positions' \in [Orders -> [quantity : Int, hold : Int]]
      /\ positions'[o] = p
      /\ \A x \in Orders \ {o} : positions'[x] = positions[x]
  BY <1>1, <1>2, <1>3, <1>4
<1>6. QED
  BY <1>3, <1>5, PositionColumns

\* The rows keep their type when one is written.
LEMMA WrittenRow ==
    ASSUME TablesTypeOK, NEW o \in Orders, NEW row \in Tables!Rows,
           rows' = [rows EXCEPT ![o] = row]
    PROVE  /\ rows' \in [Orders -> Tables!Rows \cup {NoRow}]
           /\ rows'[o] = row
           /\ \A x \in Orders \ {o} : rows'[x] = rows[x]
BY DEF TablesTypeOK, Tables!SettlementTypeOK

\* The new row, and the hold that comes with it.
WritesOrder(o, type, side, q, l, h, s) ==
    /\ TablesTypeOK'
    /\ \A x \in Orders \ {o} : Stays(x)
    /\ Moves(o, -h, h, -s, s)
    /\ \E limit \in Int :
          /\ type = "Limit" => limit = l
          /\ rows'[o] = [trader |-> o, type |-> type, side |-> side, quantity |-> q,
                         filled |-> 0, remaining |-> q, limit |-> limit,
                         status |-> "PENDING"]

\* The statement of a Placed event writes the row and takes the hold.
LEMMA PlacedStatement ==
    ASSUME TablesTypeOK, NEW o \in Orders,
           NEW type \in {"Limit", "Market"}, NEW side \in {"Buy", "Sell"},
           NEW q \in Int, NEW l \in Int, NEW d,
           d = [type |-> "OrderPlaced", order |-> o, trader |-> o, orderType |-> type,
                side |-> side, quantity |-> q, limit |-> l],
           Tables!InsertPlaced(d),
           NEW h, h = (IF side = "Buy" /\ type = "Limit" THEN q * l ELSE 0),
           NEW s, s = (IF side = "Sell" THEN q ELSE 0)
    PROVE  WritesOrder(o, type, side, q, l, h, s)
<1>1. /\ d.order = o /\ d.trader = o /\ d.orderType = type /\ d.side = side
      /\ d.quantity = q /\ d.limit = l
  OBVIOUS
<1> DEFINE Row(limit) == [trader |-> o, type |-> type, side |-> side, quantity |-> q,
                          filled |-> 0, remaining |-> q, limit |-> limit,
                          status |-> "PENDING"]
<1>2. \A limit \in Int : Row(limit) \in Tables!Rows
  BY DEF Tables!Rows
<1>3. ASSUME NEW limit \in Int, Tables!InsertOrder(d, limit)
      PROVE  /\ rows' \in [Orders -> Tables!Rows \cup {NoRow}]
             /\ rows'[o] = Row(limit)
             /\ \A x \in Orders \ {o} : rows'[x] = rows[x]
  <2>1. rows' = [rows EXCEPT ![o] = Row(limit)]
    BY <1>1, <1>3 DEF Tables!InsertOrder
  <2> HIDE DEF Row
  <2>2. QED
    BY <1>2, <2>1, WrittenRow
<1>4. /\ cash \in [Orders -> Nat] /\ cashHold \in [Orders -> Nat]
      /\ positions \in [Orders -> Tables!Positions \cup {NoRow}]
      /\ \A x \in Orders : positions[x] # NoRow
      /\ trades \in Seq(Tables!EventType)
  BY DEF TablesTypeOK, Tables!SettlementTypeOK
<1>5. \A x \in Orders : positions[x].quantity \in Int /\ positions[x].hold \in Int
  BY <1>4 DEF Tables!Positions
<1>6. CASE type = "Limit" /\ side = "Buy"
  <2>1. Tables!HandleLimitBuyOrderPlaced(d)
    BY <1>1, <1>6 DEF Tables!InsertPlaced
  <2> DEFINE amount == q * l
  <2>2. amount \in Int /\ h = amount /\ s = 0
    BY <1>6
  <2>3. /\ Tables!InsertOrder(d, l)
        /\ cash' = [cash EXCEPT ![o] = cash[o] - amount]
        /\ cashHold' = [cashHold EXCEPT ![o] = cashHold[o] + amount]
        /\ Tables!CashChecks'
        /\ UNCHANGED <<positions, trades>>
    BY <1>1, <2>1 DEF Tables!HandleLimitBuyOrderPlaced
  <2> HIDE DEF amount, Row
  <2>4. cash' \in [Orders -> Int] /\ cashHold' \in [Orders -> Int]
    BY <1>4, <2>2, <2>3
  <2>5. cash' \in [Orders -> Nat] /\ cashHold' \in [Orders -> Nat]
    BY <2>3, <2>4, CashColumns
  <2>6. /\ rows' \in [Orders -> Tables!Rows \cup {NoRow}]
        /\ rows'[o] = Row(l)
        /\ \A x \in Orders \ {o} : rows'[x] = rows[x]
    BY <1>3, <2>3
  <2>7. TablesTypeOK'
    BY <1>4, <2>3, <2>5, <2>6 DEF TablesTypeOK, Tables!SettlementTypeOK
  <2>8. \A x \in Orders \ {o} : Stays(x)
    BY <1>4, <2>3, <2>6 DEF Stays
  <2>9. cash'[o] = cash[o] + (-amount) /\ cashHold'[o] = cashHold[o] + amount
    BY <1>4, <2>2, <2>3
  <2>10. /\ positions'[o].quantity = positions[o].quantity + (-0)
         /\ positions'[o].hold = positions[o].hold + 0
    BY <1>5, <2>3
  <2>11. Moves(o, -h, h, -s, s)
    BY <2>2, <2>9, <2>10 DEF Moves
  <2>12. QED
    BY <2>6, <2>7, <2>8, <2>11 DEF Row, WritesOrder
<1>7. CASE type = "Market" /\ side = "Buy"
  <2>1. Tables!HandleMarketBuyOrderPlaced(d)
    BY <1>1, <1>7 DEF Tables!InsertPlaced
  <2>2. /\ Tables!InsertOrder(d, 0)
        /\ UNCHANGED <<cash, cashHold, positions, trades>>
    BY <2>1 DEF Tables!HandleMarketBuyOrderPlaced, Tables!NoLimit
  <2>3. h = 0 /\ s = 0
    BY <1>7
  <2> HIDE DEF Row
  <2>4. /\ rows' \in [Orders -> Tables!Rows \cup {NoRow}]
        /\ rows'[o] = Row(0)
        /\ \A x \in Orders \ {o} : rows'[x] = rows[x]
    BY <1>3, <2>2
  <2>5. TablesTypeOK'
    BY <1>4, <2>2, <2>4 DEF TablesTypeOK, Tables!SettlementTypeOK
  <2>6. \A x \in Orders \ {o} : Stays(x)
    BY <2>2, <2>4 DEF Stays
  <2>7. Moves(o, -h, h, -s, s)
    BY <1>4, <1>5, <2>2, <2>3 DEF Moves
  <2>8. QED
    BY <1>7, <2>4, <2>5, <2>6, <2>7 DEF Row, WritesOrder
<1>8. CASE side = "Sell"
  <2>1. Tables!HandleSellOrderPlaced(d)
    BY <1>1, <1>8 DEF Tables!InsertPlaced
  <2> DEFINE limit == IF type = "Limit" THEN l ELSE 0
  <2>2. /\ Tables!InsertOrder(d, limit)
        /\ positions' = [positions EXCEPT ![o] =
              [quantity |-> positions[o].quantity + (-q), hold |-> positions[o].hold + q]]
        /\ Tables!PositionChecks'
        /\ UNCHANGED <<cash, cashHold, trades>>
    <3>1. /\ Tables!InsertOrder(d, limit)
          /\ positions' = [positions EXCEPT ![o] =
              [quantity |-> positions[o].quantity - q, hold |-> positions[o].hold + q]]
          /\ Tables!PositionChecks'
          /\ UNCHANGED <<cash, cashHold, trades>>
      BY <1>1, <1>4, <2>1 DEF Tables!HandleSellOrderPlaced, Tables!NoLimit
    <3>2. positions[o].quantity - q = positions[o].quantity + (-q)
      BY <1>5
    <3>3. QED
      BY <3>1, <3>2
  <2>3. h = 0 /\ s = q /\ limit \in Int /\ (type = "Limit" => limit = l)
    BY <1>8
  <2> HIDE DEF Row, limit
  <2>4. /\ rows' \in [Orders -> Tables!Rows \cup {NoRow}]
        /\ rows'[o] = Row(limit)
        /\ \A x \in Orders \ {o} : rows'[x] = rows[x]
    BY <1>3, <2>2, <2>3
  <2>5. -q \in Int
    OBVIOUS
  <2>6. /\ positions' \in [Orders -> Tables!Positions \cup {NoRow}]
        /\ \A x \in Orders : positions'[x] # NoRow
        /\ \A x \in Orders \ {o} : positions'[x] = positions[x]
        /\ positions'[o].quantity = positions[o].quantity + (-q)
        /\ positions'[o].hold = positions[o].hold + q
    BY <2>2, <2>5, PositionMoves
  <2>7. TablesTypeOK'
    BY <1>4, <2>2, <2>4, <2>6 DEF TablesTypeOK, Tables!SettlementTypeOK
  <2>8. \A x \in Orders \ {o} : Stays(x)
    BY <2>2, <2>4, <2>6 DEF Stays
  <2>9. Moves(o, -h, h, -s, s)
    BY <1>4, <2>2, <2>3, <2>6 DEF Moves
  <2>10. QED
    BY <2>3, <2>4, <2>7, <2>8, <2>9 DEF Row, WritesOrder
<1>9. QED
  BY <1>6, <1>7, <1>8

\* The types of what a statement reads.
LEMMA ColumnTypes ==
    ASSUME TablesTypeOK
    PROVE  /\ cash \in [Orders -> Nat] /\ cashHold \in [Orders -> Nat]
           /\ positions \in [Orders -> Tables!Positions \cup {NoRow}]
           /\ rows \in [Orders -> Tables!Rows \cup {NoRow}]
           /\ trades \in Seq(Tables!EventType)
           /\ \A x \in Orders : positions[x] # NoRow
           /\ \A x \in Orders : positions[x].quantity \in Int /\ positions[x].hold \in Int
           /\ \A x \in Orders : rows[x] # NoRow =>
                 /\ rows[x] \in Tables!Rows
                 /\ rows[x].quantity \in Int /\ rows[x].filled \in Int
                 /\ rows[x].remaining \in Int /\ rows[x].limit \in Int
                 /\ rows[x].status \in {"PENDING", "PARTIAL", "FILLED", "CANCELLED"}
<1>1. /\ cash \in [Orders -> Nat] /\ cashHold \in [Orders -> Nat]
      /\ positions \in [Orders -> Tables!Positions \cup {NoRow}]
      /\ rows \in [Orders -> Tables!Rows \cup {NoRow}]
      /\ trades \in Seq(Tables!EventType)
      /\ \A x \in Orders : positions[x] # NoRow
  BY DEF TablesTypeOK, Tables!SettlementTypeOK
<1>2. \A x \in Orders : positions[x].quantity \in Int /\ positions[x].hold \in Int
  BY <1>1 DEF Tables!Positions
<1>3. ASSUME NEW x \in Orders, rows[x] # NoRow
      PROVE  /\ rows[x] \in Tables!Rows
             /\ rows[x].quantity \in Int /\ rows[x].filled \in Int
             /\ rows[x].remaining \in Int /\ rows[x].limit \in Int
             /\ rows[x].status \in {"PENDING", "PARTIAL", "FILLED", "CANCELLED"}
  <2>1. rows[x] \in Tables!Rows
    BY <1>1, <1>3
  <2>2. QED
    BY <2>1 DEF Tables!Rows
<1>4. QED
  BY <1>1, <1>2, <1>3

\* The row as it was, but for its status and quantities.
RowIs(row, old, status, filled, left) ==
    /\ row \in Tables!Rows
    /\ row.trader = old.trader /\ row.type = old.type /\ row.side = old.side
    /\ row.quantity = old.quantity /\ row.limit = old.limit
    /\ row.status = status /\ row.filled = filled /\ row.remaining = left

\* A row with a new status keeps what it says of the order.
LEMMA FilledRow ==
    ASSUME NEW row \in Tables!Rows, NEW filled \in Int, NEW left \in Int,
           NEW status \in {"PENDING", "PARTIAL", "FILLED", "CANCELLED"}
    PROVE  /\ RowIs(Tables!WithFill(row, status, filled, left), row, status, filled, left)
           /\ RowIs([row EXCEPT !.status = status], row, status, row.filled, row.remaining)
<1>1. RowIs(Tables!WithFill(row, status, filled, left), row, status, filled, left)
  BY DEF RowIs, Tables!WithFill, Tables!Rows
<1>2. RowIs([row EXCEPT !.status = status], row, status, row.filled, row.remaining)
  BY DEF RowIs, Tables!Rows
<1>3. QED
  BY <1>1, <1>2

\* The two statements on the quantities of an order.
LEMMA FilledStatement ==
    ASSUME TablesTypeOK, NEW o \in Orders, rows[o] # NoRow, NEW d, d.order = o,
           NEW status, NEW filled, NEW left,
           \/ /\ Tables!HandleOrderFilled(d)
              /\ status = "FILLED" /\ filled = rows[o].quantity /\ left = 0
           \/ /\ Tables!HandleOrderPartiallyFilled(d) /\ d.filled \in Int
              /\ status = "PARTIAL" /\ filled = rows[o].filled + d.filled
              /\ left = rows[o].remaining - d.filled
    PROVE  /\ TablesTypeOK'
           /\ \A x \in Orders \ {o} : Stays(x)
           /\ Moves(o, 0, 0, 0, 0)
           /\ RowIs(rows'[o], rows[o], status, filled, left)
<1>1. /\ rows[o] \in Tables!Rows
      /\ rows[o].quantity \in Int /\ rows[o].filled \in Int /\ rows[o].remaining \in Int
  BY ColumnTypes
<1>2. /\ status \in {"PENDING", "PARTIAL", "FILLED", "CANCELLED"}
      /\ filled \in Int /\ left \in Int
  BY <1>1
<1> DEFINE row == Tables!WithFill(rows[o], status, filled, left)
<1>3. rows' = [rows EXCEPT ![o] = row] /\ UNCHANGED <<cash, cashHold, positions, trades>>
  <2>1. CASE /\ Tables!HandleOrderFilled(d)
             /\ status = "FILLED" /\ filled = rows[o].quantity /\ left = 0
    BY <2>1, ColumnTypes DEF Tables!HandleOrderFilled
  <2>2. CASE /\ Tables!HandleOrderPartiallyFilled(d) /\ d.filled \in Int
             /\ status = "PARTIAL" /\ filled = rows[o].filled + d.filled
             /\ left = rows[o].remaining - d.filled
    BY <2>2, ColumnTypes DEF Tables!HandleOrderPartiallyFilled
  <2>3. QED
    BY <2>1, <2>2
<1>4. row \in Tables!Rows /\ RowIs(row, rows[o], status, filled, left)
  <2>1. RowIs(row, rows[o], status, filled, left)
    BY <1>1, <1>2, FilledRow
  <2>2. QED
    BY <2>1 DEF RowIs
<1> HIDE DEF row
<1>5. /\ rows' \in [Orders -> Tables!Rows \cup {NoRow}]
      /\ rows'[o] = row
      /\ \A x \in Orders \ {o} : rows'[x] = rows[x]
  BY <1>3, <1>4, WrittenRow
<1>6. TablesTypeOK'
  BY <1>3, <1>5, ColumnTypes DEF TablesTypeOK, Tables!SettlementTypeOK
<1>7. \A x \in Orders \ {o} : Stays(x)
  BY <1>3, <1>5 DEF Stays
<1>8. Moves(o, 0, 0, 0, 0)
  <2>1. /\ cash' = cash /\ cashHold' = cashHold /\ positions' = positions
        /\ cash[o] \in Int /\ cashHold[o] \in Int
        /\ positions[o].quantity \in Int /\ positions[o].hold \in Int
    BY <1>3, ColumnTypes
  <2>2. QED
    BY <2>1 DEF Moves
<1>9. QED
  BY <1>4, <1>5, <1>6, <1>7, <1>8

\* The cancel of an open order: its status, and what it gives back.
LEMMA CancelledStatement ==
    ASSUME TablesTypeOK, NEW o \in Orders, Tables!IsOpen(o), rows[o].trader = o,
           NEW type \in {"Limit", "Market"}, NEW side \in {"Buy", "Sell"}, NEW d,
           d = [type |-> "OrderCancelled", order |-> o, orderType |-> type, side |-> side],
           Tables!InsertCancelled(d),
           NEW h, h = (IF side = "Buy" /\ type = "Limit"
                       THEN rows[o].remaining * rows[o].limit ELSE 0),
           NEW s, s = (IF side = "Sell" THEN rows[o].remaining ELSE 0)
    PROVE  /\ TablesTypeOK'
           /\ \A x \in Orders \ {o} : Stays(x)
           /\ Moves(o, h, -h, s, -s)
           /\ RowIs(rows'[o], rows[o], "CANCELLED", rows[o].filled, rows[o].remaining)
<1>1. d.order = o /\ d.orderType = type /\ d.side = side
  OBVIOUS
<1>2. /\ rows[o] # NoRow /\ rows[o] \in Tables!Rows
      /\ rows[o].remaining \in Int /\ rows[o].limit \in Int
  BY ColumnTypes DEF Tables!IsOpen
<1> DEFINE row == [rows[o] EXCEPT !.status = "CANCELLED"]
<1>3. /\ row \in Tables!Rows
      /\ RowIs(row, rows[o], "CANCELLED", rows[o].filled, rows[o].remaining)
  <2>1. rows[o].filled \in Int
    BY <1>2, ColumnTypes
  <2>2. RowIs(row, rows[o], "CANCELLED", rows[o].filled, rows[o].remaining)
    BY <1>2, <2>1, FilledRow
  <2>3. QED
    BY <2>2 DEF RowIs
<1>4. ASSUME Tables!CancelRow(o) PROVE rows' = [rows EXCEPT ![o] = row]
  BY <1>4, ColumnTypes DEF Tables!CancelRow
<1> HIDE DEF row
<1>5. ASSUME Tables!CancelRow(o)
      PROVE  /\ rows' \in [Orders -> Tables!Rows \cup {NoRow}]
             /\ rows'[o] = row
             /\ \A x \in Orders \ {o} : rows'[x] = rows[x]
  BY <1>3, <1>4, <1>5, WrittenRow
<1>6. CASE type = "Limit" /\ side = "Buy"
  <2>1. Tables!HandleLimitBuyOrderCancelled(d)
    BY <1>1, <1>6 DEF Tables!InsertCancelled
  <2> DEFINE amount == rows[o].remaining * rows[o].limit
  <2>2. amount \in Int /\ h = amount /\ s = 0
    BY <1>2, <1>6
  <2>3. /\ Tables!CancelRow(o)
        /\ cash' = [cash EXCEPT ![o] = cash[o] + amount]
        /\ cashHold' = [cashHold EXCEPT ![o] = cashHold[o] - amount]
        /\ Tables!CashChecks'
        /\ UNCHANGED <<positions, trades>>
    BY <1>1, <2>1 DEF Tables!HandleLimitBuyOrderCancelled
  <2> HIDE DEF amount
  <2>4. cash' \in [Orders -> Int] /\ cashHold' \in [Orders -> Int]
    BY <2>2, <2>3, ColumnTypes
  <2>5. cash' \in [Orders -> Nat] /\ cashHold' \in [Orders -> Nat]
    BY <2>3, <2>4, CashColumns
  <2>6. TablesTypeOK'
    BY <1>5, <2>3, <2>5, ColumnTypes DEF TablesTypeOK, Tables!SettlementTypeOK
  <2>7. \A x \in Orders \ {o} : Stays(x)
    BY <1>5, <2>3, ColumnTypes DEF Stays
  <2>8. cash'[o] = cash[o] + amount /\ cashHold'[o] = cashHold[o] + (-amount)
    BY <2>2, <2>3, ColumnTypes
  <2>9. /\ positions'[o].quantity = positions[o].quantity + 0
        /\ positions'[o].hold = positions[o].hold + (-0)
    BY <2>3, ColumnTypes
  <2>10. Moves(o, h, -h, s, -s)
    BY <2>2, <2>8, <2>9 DEF Moves
  <2>11. QED
    BY <1>3, <1>5, <2>3, <2>6, <2>7, <2>10
<1>7. CASE type = "Market" /\ side = "Buy"
  <2>1. Tables!HandleMarketBuyOrderCancelled(d)
    BY <1>1, <1>7 DEF Tables!InsertCancelled
  <2>2. Tables!CancelRow(o) /\ UNCHANGED <<cash, cashHold, positions, trades>>
    BY <1>1, <2>1 DEF Tables!HandleMarketBuyOrderCancelled
  <2>3. h = 0 /\ s = 0
    BY <1>7
  <2>4. TablesTypeOK'
    BY <1>5, <2>2, ColumnTypes DEF TablesTypeOK, Tables!SettlementTypeOK
  <2>5. \A x \in Orders \ {o} : Stays(x)
    BY <1>5, <2>2 DEF Stays
  <2>6. Moves(o, h, -h, s, -s)
    BY <2>2, <2>3, ColumnTypes DEF Moves
  <2>7. QED
    BY <1>3, <1>5, <2>2, <2>4, <2>5, <2>6
<1>8. CASE side = "Sell"
  <2>1. Tables!HandleSellOrderCancelled(d)
    BY <1>1, <1>8 DEF Tables!InsertCancelled
  <2> DEFINE left == rows[o].remaining
  <2>2. /\ Tables!CancelRow(o)
        /\ positions' = [positions EXCEPT ![o] =
              [quantity |-> positions[o].quantity + left,
               hold |-> positions[o].hold + (-left)]]
        /\ Tables!PositionChecks'
        /\ UNCHANGED <<cash, cashHold, trades>>
    <3>1. /\ Tables!CancelRow(o)
          /\ positions' = [positions EXCEPT ![o] =
              [quantity |-> positions[o].quantity + left, hold |-> positions[o].hold - left]]
          /\ Tables!PositionChecks'
          /\ UNCHANGED <<cash, cashHold, trades>>
      BY <1>1, <2>1, ColumnTypes DEF Tables!HandleSellOrderCancelled
    <3>2. positions[o].hold - left = positions[o].hold + (-left)
      BY <1>2, ColumnTypes
    <3>3. QED
      BY <3>1, <3>2
  <2>3. h = 0 /\ s = left /\ left \in Int /\ -left \in Int
    BY <1>2, <1>8
  <2> HIDE DEF left
  <2>4. /\ positions' \in [Orders -> Tables!Positions \cup {NoRow}]
        /\ \A x \in Orders : positions'[x] # NoRow
        /\ \A x \in Orders \ {o} : positions'[x] = positions[x]
        /\ positions'[o].quantity = positions[o].quantity + left
        /\ positions'[o].hold = positions[o].hold + (-left)
    BY <2>2, <2>3, PositionMoves
  <2>5. TablesTypeOK'
    BY <1>5, <2>2, <2>4, ColumnTypes DEF TablesTypeOK, Tables!SettlementTypeOK
  <2>6. \A x \in Orders \ {o} : Stays(x)
    BY <1>5, <2>2, <2>4 DEF Stays
  <2>7. Moves(o, h, -h, s, -s)
    BY <2>2, <2>3, <2>4, ColumnTypes DEF Moves
  <2>8. QED
    BY <1>3, <1>5, <2>2, <2>5, <2>6, <2>7
<1>9. QED
  BY <1>6, <1>7, <1>8

\* A trade between two traders: the buyer's shares and cash, the seller's hold.
LEMMA TradeMoves ==
    ASSUME TablesTypeOK, NEW buyer \in Orders, NEW seller \in Orders, buyer # seller,
           NEW k \in Int, NEW total \in Nat, NEW held \in Int, NEW d \in Tables!EventType,
           d.buyerTrader = buyer, d.sellerTrader = seller,
           d.quantity = k, d.total = total,
           Tables!InsertTrade(d), Tables!MoveShares(d),
           Tables!MoveCash(d, held - total, -held), UNCHANGED rows
    PROVE  /\ TablesTypeOK'
           /\ \A x \in Orders \ {buyer, seller} : Stays(x)
           /\ Moves(buyer, held - total, -held, k, 0)
           /\ Moves(seller, total, 0, 0, -k)
<1>4. ~Tables!SelfTrade(d)
  BY DEF Tables!SelfTrade
<1>5. Tables!PositionUpdates(d) = {{"buyer", "seller"}} /\ Tables!CashUpdates(d) = {{"buyer", "seller"}}
  BY <1>4 DEF Tables!PositionUpdates, Tables!CashUpdates, Tables!BothSides
<1> DEFINE gets(x) == IF x = buyer THEN k ELSE 0
           gives(x) == IF x = seller THEN k ELSE 0
           pays(x) == IF x = buyer THEN held - total ELSE 0
           earns(x) == IF x = seller THEN total ELSE 0
           frees(x) == IF x = buyer THEN -held ELSE 0
<1>6. /\ positions' = [x \in Orders |->
              [quantity |-> positions[x].quantity + gets(x),
               hold |-> positions[x].hold - gives(x)]]
      /\ Tables!PositionChecks'
  <2>1. PICK updates \in Tables!PositionUpdates(d) :
            /\ positions' = [t \in Orders |->
                  IF positions[t] # NoRow
                  THEN [quantity |-> positions[t].quantity
                           + Tables!Gets(t, d.buyerTrader, "buyer", updates, d.quantity),
                        hold |-> positions[t].hold
                           - Tables!Gets(t, d.sellerTrader, "seller", updates, d.quantity)]
                  ELSE IF Tables!Gets(t, d.buyerTrader, "buyer", updates, d.quantity) > 0
                  THEN [quantity |-> Tables!Gets(t, d.buyerTrader, "buyer", updates, d.quantity),
                        hold |-> 0]
                  ELSE NoRow]
            /\ Tables!PositionChecks'
    BY DEF Tables!MoveShares
  <2>2. updates = {"buyer", "seller"}
    BY <1>5, <2>1
  <2>3. \A x \in Orders :
            /\ Tables!Gets(x, d.buyerTrader, "buyer", updates, d.quantity) = gets(x)
            /\ Tables!Gets(x, d.sellerTrader, "seller", updates, d.quantity) = gives(x)
    BY <2>2 DEF Tables!Gets
  <2> HIDE DEF gets, gives
  <2>4. \A x \in Orders : positions[x] # NoRow
    BY ColumnTypes
  <2>5. QED
    BY <2>1, <2>3, <2>4
<1>7. /\ cash' = [x \in Orders |-> cash[x] + pays(x) + earns(x)]
      /\ cashHold' = [x \in Orders |-> cashHold[x] + frees(x)]
      /\ Tables!CashChecks'
  <2>1. PICK updates \in Tables!CashUpdates(d) :
            /\ cash' = [t \in Orders |-> cash[t]
                  + Tables!Gets(t, d.buyerTrader, "buyer", updates, held - total)
                  + Tables!Gets(t, d.sellerTrader, "seller", updates, d.total)]
            /\ cashHold' = [t \in Orders |-> cashHold[t]
                  + Tables!Gets(t, d.buyerTrader, "buyer", updates, -held)]
            /\ Tables!CashChecks'
    BY DEF Tables!MoveCash
  <2>2. updates = {"buyer", "seller"}
    BY <1>5, <2>1
  <2>3. \A x \in Orders :
            /\ Tables!Gets(x, d.buyerTrader, "buyer", updates, held - total) = pays(x)
            /\ Tables!Gets(x, d.sellerTrader, "seller", updates, d.total) = earns(x)
            /\ Tables!Gets(x, d.buyerTrader, "buyer", updates, -held) = frees(x)
    BY <2>2 DEF Tables!Gets
  <2> HIDE DEF pays, earns, frees
  <2>4. QED
    BY <2>1, <2>3
<1>8. \A x \in Orders : /\ gets(x) \in Int /\ gives(x) \in Int
                        /\ pays(x) \in Int /\ earns(x) \in Int /\ frees(x) \in Int
  OBVIOUS
<1>9. /\ gets(buyer) = k /\ gives(buyer) = 0 /\ pays(buyer) = held - total
      /\ earns(buyer) = 0 /\ frees(buyer) = -held
      /\ gets(seller) = 0 /\ gives(seller) = k /\ pays(seller) = 0
      /\ earns(seller) = total /\ frees(seller) = 0
      /\ \A x \in Orders \ {buyer, seller} :
            gets(x) = 0 /\ gives(x) = 0 /\ pays(x) = 0 /\ earns(x) = 0 /\ frees(x) = 0
  OBVIOUS
<1> HIDE DEF gets, gives, pays, earns, frees
<1>10. /\ positions' \in [Orders -> Tables!Positions \cup {NoRow}]
       /\ \A x \in Orders : positions'[x] # NoRow
  <2>1. \A x \in Orders : /\ positions[x].quantity + gets(x) \in Int
                           /\ positions[x].hold - gives(x) \in Int
    <3>1. \A x \in Orders : positions[x].quantity \in Int /\ positions[x].hold \in Int
      BY ColumnTypes
    <3>2. QED
      BY <1>8, <3>1
  <2>2. positions' \in [Orders -> [quantity : Int, hold : Int]]
    BY <1>6, <2>1
  <2>3. QED
    BY <1>6, <2>2, PositionColumns
<1>11. cash' \in [Orders -> Nat] /\ cashHold' \in [Orders -> Nat]
  <2>1. \A x \in Orders : /\ cash[x] + pays(x) + earns(x) \in Int
                           /\ cashHold[x] + frees(x) \in Int
    <3>1. \A x \in Orders : cash[x] \in Int /\ cashHold[x] \in Int
      BY ColumnTypes
    <3>2. QED
      BY <1>8, <3>1
  <2>2. cash' \in [Orders -> Int] /\ cashHold' \in [Orders -> Int]
    BY <1>7, <2>1
  <2>3. QED
    BY <1>7, <2>2, CashColumns
<1>12. trades' \in Seq(Tables!EventType)
  <2>1. trades' = Append(trades, d)
    BY DEF Tables!InsertTrade
  <2>2. QED
    BY <2>1, ColumnTypes
<1>13. TablesTypeOK'
  BY <1>10, <1>11, <1>12, ColumnTypes DEF TablesTypeOK, Tables!SettlementTypeOK
<1>14. \A x \in Orders : /\ cash'[x] = cash[x] + pays(x) + earns(x)
                         /\ cashHold'[x] = cashHold[x] + frees(x)
                         /\ positions'[x].quantity = positions[x].quantity + gets(x)
                         /\ positions'[x].hold = positions[x].hold - gives(x)
  BY <1>6, <1>7
<1>15. \A x \in Orders : /\ cash[x] \in Int /\ cashHold[x] \in Int
                         /\ positions[x].quantity \in Int /\ positions[x].hold \in Int
  BY ColumnTypes
<1>16. Moves(buyer, held - total, -held, k, 0)
  BY <1>9, <1>14, <1>15 DEF Moves
<1>17. Moves(seller, total, 0, 0, -k)
  BY <1>9, <1>14, <1>15 DEF Moves
<1>18. ASSUME NEW x \in Orders \ {buyer, seller} PROVE Stays(x)
  <2>1. cash'[x] = cash[x] /\ cashHold'[x] = cashHold[x]
    BY <1>9, <1>14, <1>15
  <2>2. positions'[x] = positions[x]
    <3>1. positions'[x] = [quantity |-> positions[x].quantity + gets(x),
                           hold |-> positions[x].hold - gives(x)]
      BY <1>6
    <3>2. /\ positions[x].quantity + gets(x) = positions[x].quantity
          /\ positions[x].hold - gives(x) = positions[x].hold
      BY <1>9, <1>15
    <3>3. positions[x] \in Tables!Positions
      BY ColumnTypes
    <3>4. positions[x] = [quantity |-> positions[x].quantity, hold |-> positions[x].hold]
      BY <3>3 DEF Tables!Positions
    <3>5. QED
      BY <3>1, <3>2, <3>4
  <2>3. QED
    BY <2>1, <2>2 DEF Stays
<1>19. QED
  BY <1>13, <1>16, <1>17, <1>18

\* The solvers do not know this of negative numbers.
LEMMA NegatedInt == \A a \in Int : 0 - a = -a
OBVIOUS

\* The statement of a trade moves its shares, its value and the refund.
LEMMA TradeStatement ==
    ASSUME TablesTypeOK, NEW buyer \in Orders, NEW seller \in Orders, buyer # seller,
           NEW type \in {"Limit", "Market"}, NEW k \in Int, NEW p \in Nat,
           NEW total \in Int, total = p * k, NEW d,
           d = [type |-> "TradeExecuted", buyer |-> buyer, seller |-> seller,
                buyerType |-> type, buyerTrader |-> buyer, sellerTrader |-> seller,
                quantity |-> k, price |-> p, total |-> total],
           Tables!InsertTradeExecuted(d), rows[buyer] # NoRow,
           NEW held, held = (IF type = "Limit" THEN k * rows[buyer].limit ELSE 0)
    PROVE  /\ TablesTypeOK'
           /\ UNCHANGED rows
           /\ \A x \in Orders \ {buyer, seller} : Stays(x)
           /\ Moves(buyer, held - total, -held, k, 0)
           /\ Moves(seller, total, 0, 0, -k)
<1>1. /\ d.buyer = buyer /\ d.seller = seller /\ d.buyerType = type
      /\ d.buyerTrader = buyer /\ d.sellerTrader = seller
      /\ d.quantity = k /\ d.price = p /\ d.total = total
  OBVIOUS
<1> DEFINE lim == rows[buyer].limit
<1>2. held \in Int
  <2>1. lim \in Int
    BY ColumnTypes
  <2> HIDE DEF lim
  <2>2. k * lim \in Int
    BY <2>1
  <2>3. QED
    BY <2>2 DEF lim
<1>3. /\ Tables!InsertTrade(d) /\ Tables!MoveShares(d)
      /\ Tables!MoveCash(d, held - total, -held)
      /\ UNCHANGED rows
  <2>1. CASE type = "Limit"
    <3>1. Tables!HandleLimitBuyTradeExecuted(d)
      BY <1>1, <2>1 DEF Tables!InsertTradeExecuted
    <3>2. held = k * rows[buyer].limit
      BY <2>1, Zenon
    <3>3. d.quantity * rows[d.buyer].limit = held
      BY <1>1, <3>2, Zenon
    <3>4. QED
      BY <1>1, <3>1, <3>3, Zenon DEF Tables!HandleLimitBuyTradeExecuted
  <2>2. CASE type = "Market"
    <3>1. Tables!HandleMarketBuyTradeExecuted(d)
      BY <1>1, <2>2 DEF Tables!InsertTradeExecuted
    <3>2. held = 0
      BY <2>2
    <3>3. held - total = -total /\ -held = 0
      <4>1. held - total = 0 - total /\ 0 - held = 0
        BY <3>2
      <4>2. 0 - total = -total /\ 0 - held = -held
        BY <1>2, NegatedInt, Zenon
      <4>3. QED
        BY <4>1, <4>2, Zenon
    <3>4. QED
      BY <1>1, <3>1, <3>3, Zenon DEF Tables!HandleMarketBuyTradeExecuted
  <2>3. QED
    BY <2>1, <2>2
<1>4. total \in Nat
  <2>1. k > 0
    BY <1>1, <1>3 DEF Tables!InsertTrade
  <2>2. \A a, b \in Nat : a * b \in Nat
    OBVIOUS
  <2>3. p * k \in Nat
    BY <2>1, <2>2
  <2>4. QED
    BY <2>3
<1>5. d \in Tables!EventType
  BY <1>4 DEF Tables!EventType
<1>6. QED
  BY <1>1, <1>2, <1>3, <1>4, <1>5, TradeMoves

-----------------------------------------------------------------------------
(***************************************************************************)
(* Every statement keeps the tables in step with the events.               *)
(***************************************************************************)
\* What the stream says of an order that it says anything of.
LEMMA SettledOrder ==
    ASSUME EngineInv, NEW o \in Orders, Placed(o) \cup Final(o) \cup Executions(o) # {}
    PROVE  /\ pc[o] \in {"select", "fill", "returned"}
           /\ request[o] \in Requests /\ Valid(request[o])
           /\ \E j \in DOMAIN events :
                 Placed(o) = {j} /\ \A i \in Final(o) \cup Executions(o) : j < i
<1>1. StreamOf(o) /\ pc[o] \in HandlerStates /\ MutualExclusion
  BY DEF EngineInv, StreamInv, IInv, TypeOK
<1>2. pc[o] \in {"select", "fill", "returned"}
  BY <1>1 DEF StreamOf, UnseenBeforePlaced, HandlerStates
<1>3. QED
  BY <1>1, <1>2 DEF StreamOf, PlacedOnceAndFirst, MutualExclusion

\* What a valid order asks for.
LEMMA RequestColumns ==
    ASSUME NEW r \in Requests, Valid(r)
    PROVE  /\ r.type \in {"Limit", "Market"} /\ r.side \in {"Buy", "Sell"}
           /\ r.quantity \in Int /\ r.limit \in Int
<1>1. r \in RequestType
  BY RequestsAssumption
<1>2. QED
  BY <1>1 DEF RequestType, Sides

\* The sums over trades are the same if the event is no trade of the order.
LEMMA SeenSumsSame ==
    ASSUME events \in Seq(Events), NEW n, NEW e, Settling(n, e), NEW o, ~TradeOf(e, o)
    PROVE  /\ Shares(Seen(Trades(o)))' = Shares(Seen(Trades(o)))
           /\ Shares(Seen(Bought(o)))' = Shares(Seen(Bought(o)))
           /\ Shares(Seen(Sold(o)))' = Shares(Seen(Sold(o)))
           /\ Value(Seen(Bought(o)))' = Value(Seen(Bought(o)))
           /\ Value(Seen(Sold(o)))' = Value(Seen(Sold(o)))
<1>1. events' = events
  BY DEF Settling, Due, vars
<1>2. /\ Seen(Trades(o))' = Seen(Trades(o))
      /\ Seen(Bought(o))' = Seen(Bought(o))
      /\ Seen(Sold(o))' = Seen(Sold(o))
  BY SeenTradesGrow DEF At
<1>3. QED
  BY <1>1, <1>2 DEF Shares, Value

\* What was settled of an order is the same if the event is not about it.
LEMMA SeenAboutSame ==
    ASSUME events \in Seq(Events), NEW n, NEW e, Settling(n, e), NEW t, NEW o,
           ~Concerns(e, t, o)
    PROVE  Seen(About(t, o))' = Seen(About(t, o))
<1>1. Seen(About(t, o))' = Seen(About(t, o)) \cup At(n, Concerns(e, t, o))
  BY SeenAboutGrows
<1>2. At(n, Concerns(e, t, o)) = {}
  BY DEF At
<1>3. QED
  BY <1>1, <1>2

\* So are its reports.
LEMMA SeenReportsSame ==
    ASSUME events \in Seq(Events), NEW n, NEW e, Settling(n, e), NEW o,
           ~Concerns(e, "OrderPartiallyFilled", o)
    PROVE  Reported(Seen(PartFills(o)))' = Reported(Seen(PartFills(o)))
<1>1. events' = events
  BY DEF Settling, Due, vars
<1>2. Seen(PartFills(o))' = Seen(PartFills(o))
  <2>1. Seen(About("OrderPartiallyFilled", o))' = Seen(About("OrderPartiallyFilled", o))
    BY SeenAboutSame
  <2>2. QED
    BY <2>1 DEF PartFills
<1>3. QED
  BY <1>1, <1>2 DEF Reported

\* The event is about another order and the statement writes nothing of x.
LEMMA OtherTables ==
    ASSUME PlatformInv, NEW n, NEW e, Settling(n, e), NEW x \in Orders, Stays(x),
           ~TradeOf(e, x), e.type = "OrderRejected" \/ e.order # x \/ e.type = "TradeExecuted"
    PROVE  TablesOf(x)'
<1>1. events \in Seq(Events) /\ TablesOf(x) /\ request' = request
  BY DEF PlatformInv, EngineInv, IInv, TypeOK, Settling, Due, vars
<1>2. /\ ~Concerns(e, "OrderPlaced", x) /\ ~Concerns(e, "OrderFilled", x)
      /\ ~Concerns(e, "OrderCancelled", x) /\ ~Concerns(e, "OrderPartiallyFilled", x)
  BY DEF Concerns
<1>3. Seen(Placed(x))' = Seen(Placed(x))
  BY <1>1, <1>2, SeenAboutSame DEF Placed
<1>4. Seen(About("OrderFilled", x))' = Seen(About("OrderFilled", x))
  BY <1>1, <1>2, SeenAboutSame
<1>5. Seen(About("OrderCancelled", x))' = Seen(About("OrderCancelled", x))
  BY <1>1, <1>2, SeenAboutSame
<1>6. Reported(Seen(PartFills(x)))' = Reported(Seen(PartFills(x)))
  BY <1>1, <1>2, SeenReportsSame
<1>7. /\ Shares(Seen(Trades(x)))' = Shares(Seen(Trades(x)))
      /\ Shares(Seen(Bought(x)))' = Shares(Seen(Bought(x)))
      /\ Shares(Seen(Sold(x)))' = Shares(Seen(Sold(x)))
      /\ Value(Seen(Bought(x)))' = Value(Seen(Bought(x)))
      /\ Value(Seen(Sold(x)))' = Value(Seen(Sold(x)))
  BY <1>1, SeenSumsSame
<1>8. RowOf(x)'
  BY <1>1, <1>3, <1>4, <1>5, <1>6 DEF TablesOf, RowOf, Side, Stays
<1>9. HoldsOf(x)' /\ OwnsOf(x)'
  BY <1>1, <1>7 DEF TablesOf, HoldsOf, OnHold, OwnsOf, Stays
<1>10. QED
  BY <1>8, <1>9 DEF TablesOf

\* What a trader owns stays when only the hold of it changes.
LEMMA OwnsTheSame ==
    ASSUME PlatformInv, NEW n, NEW e, Settling(n, e), NEW o \in Orders, ~TradeOf(e, o),
           NEW money \in Int, NEW held \in Int, NEW shares \in Int, NEW heldShares \in Int,
           Moves(o, money, held, shares, heldShares),
           money + held = 0, shares + heldShares = 0
    PROVE  OwnsOf(o)'
<1>1. events \in Seq(Events) /\ OwnsOf(o) /\ TablesTypeOK
  BY DEF PlatformInv, EngineInv, IInv, TypeOK, TablesOf, TablesTypeOK, PlatformTypeOK
<1>2. /\ Shares(Seen(Bought(o)))' = Shares(Seen(Bought(o)))
      /\ Shares(Seen(Sold(o)))' = Shares(Seen(Sold(o)))
      /\ Value(Seen(Bought(o)))' = Value(Seen(Bought(o)))
      /\ Value(Seen(Sold(o)))' = Value(Seen(Sold(o)))
  BY <1>1, SeenSumsSame
<1>3. /\ cash[o] \in Int /\ cashHold[o] \in Int
      /\ positions[o].quantity \in Int /\ positions[o].hold \in Int
  BY <1>1, ColumnTypes
<1>4. /\ cash'[o] + cashHold'[o] = cash[o] + cashHold[o]
      /\ positions'[o].quantity + positions'[o].hold =
            positions[o].quantity + positions[o].hold
  BY <1>3 DEF Moves
<1>5. QED
  BY <1>1, <1>2, <1>4 DEF OwnsOf

\* An order that is to be placed has no row and nothing on hold: no event about
\* it was settled.
LEMMA NewRow ==
    ASSUME PlatformInv, NEW n, NEW e \in Events, Due(n, e), e.type = "OrderPlaced"
    PROVE  LET o == e.order
           IN  /\ o \in Orders
               /\ request[o] \in Requests /\ Valid(request[o])
               /\ Seen(Placed(o)) = {} /\ Seen(About("OrderFilled", o)) = {}
               /\ Seen(About("OrderCancelled", o)) = {} /\ Seen(PartFills(o)) = {}
               /\ Seen(Trades(o)) = {}
               /\ rows[o] = NoRow /\ cashHold[o] = 0 /\ positions[o].hold = 0
<1> DEFINE o == e.order
<1>1. events \in Seq(Events) /\ EngineInv /\ o \in Orders /\ TablesOf(o)
  BY DEF PlatformInv, EngineInv, IInv, TypeOK, Events
<1>2. n \in DOMAIN events /\ events[n] = e /\ n \in Int /\ consumed = n - 1
  BY <1>1, LenProperties DEF Due
<1>3. n \in Placed(o)
  BY <1>2 DEF Placed, About, Published
<1>4. /\ request[o] \in Requests /\ Valid(request[o])
      /\ Placed(o) = {n} /\ \A i \in Final(o) \cup Executions(o) : n < i
  BY <1>1, <1>3, SettledOrder
<1>5. /\ Seen(Placed(o)) = {} /\ Seen(About("OrderFilled", o)) = {}
      /\ Seen(About("OrderCancelled", o)) = {} /\ Seen(PartFills(o)) = {}
      /\ Seen(Trades(o)) = {}
  <2>1. \A i \in DOMAIN events : n < i => ~(i <= consumed)
    BY <1>1, <1>2, LenProperties
  <2>2. /\ About("OrderFilled", o) \subseteq DOMAIN events
        /\ About("OrderCancelled", o) \subseteq DOMAIN events
        /\ PartFills(o) \subseteq DOMAIN events
        /\ Trades(o) \subseteq DOMAIN events
    BY DEF About, Published, PartFills, Trades
  <2>3. \A i \in About("OrderFilled", o) \cup About("OrderCancelled", o)
                    \cup PartFills(o) \cup Trades(o) : n < i
    BY <1>4 DEF Final, Executions, PartFills
  <2>4. ~(n <= consumed)
    BY <1>2
  <2>5. QED
    BY <1>4, <2>1, <2>2, <2>3, <2>4 DEF Seen
<1>6. rows[o] = NoRow /\ cashHold[o] = 0 /\ positions[o].hold = 0
  BY <1>1, <1>5 DEF TablesOf, RowOf, HoldsOf
<1>7. QED
  BY <1>1, <1>4, <1>5, <1>6

\* An order that an event is about has a row, which is open until the event
\* that is final.
LEMMA OpenRow ==
    ASSUME PlatformInv, NEW n, NEW e, Due(n, e), NEW o \in Orders,
           n \in Final(o) \cup Executions(o)
    PROVE  /\ pc[o] \in {"select", "fill", "returned"}
           /\ request[o] \in Requests /\ Valid(request[o])
           /\ rows[o] # NoRow /\ Tables!IsOpen(o)
           /\ Seen(Placed(o)) # {}
           /\ Seen(About("OrderFilled", o)) = {} /\ Seen(About("OrderCancelled", o)) = {}
           /\ rows[o].trader = o /\ rows[o].type = request[o].type /\ rows[o].side = Side(o)
           /\ rows[o].quantity = request[o].quantity
           /\ rows[o].type = "Limit" => rows[o].limit = request[o].limit
           /\ rows[o].filled = Reported(Seen(PartFills(o)))
           /\ rows[o].remaining = rows[o].quantity - rows[o].filled
<1>1. /\ events \in Seq(Events) /\ EngineInv /\ TablesTypeOK /\ TablesOf(o) /\ StreamOf(o)
  BY DEF PlatformInv, EngineInv, IInv, StreamInv, TypeOK, PlatformTypeOK, TablesTypeOK
<1>2. n \in Int /\ consumed = n - 1 /\ \A i \in DOMAIN events : i \in Int
  BY <1>1, LenProperties DEF Due
<1>3. PICK j \in DOMAIN events :
            Placed(o) = {j} /\ \A i \in Final(o) \cup Executions(o) : j < i
  BY <1>1, SettledOrder
<1>4. Seen(Placed(o)) # {}
  BY <1>2, <1>3 DEF Seen
<1>5. Seen(Final(o)) = {}
  <2>1. CASE n \in Final(o)
    <3>1. Final(o) = {n}
      BY <1>1, <2>1 DEF StreamOf, FinalOnceAndLast
    <3>2. QED
      BY <1>2, <3>1 DEF Seen
  <2>2. CASE n \in Executions(o) /\ Final(o) # {}
    <3>1. PICK k \in DOMAIN events : Final(o) = {k} /\ \A i \in Executions(o) : i < k
      BY <1>1, <2>2 DEF StreamOf, FinalOnceAndLast
    <3>2. n < k
      BY <2>2, <3>1
    <3>3. QED
      BY <1>2, <3>1, <3>2 DEF Seen
  <2>3. QED
    BY <2>1, <2>2 DEF Seen
<1>6. Seen(About("OrderFilled", o)) = {} /\ Seen(About("OrderCancelled", o)) = {}
  BY <1>5 DEF Seen, Final
<1>7. rows[o] # NoRow /\ rows[o].status # "FILLED" /\ rows[o].status # "CANCELLED"
  BY <1>1, <1>4, <1>6 DEF TablesOf, RowOf
<1>8. Tables!IsOpen(o)
  BY <1>1, <1>7, ColumnTypes DEF Tables!IsOpen
<1>9. pc[o] \in {"select", "fill", "returned"} /\ request[o] \in Requests /\ Valid(request[o])
  BY <1>1, SettledOrder
<1>10. QED
  BY <1>1, <1>4, <1>6, <1>7, <1>8, <1>9 DEF TablesOf, RowOf

\* When an order is cancelled it has on hold what its row says remains: all
\* its trades and reports were settled before.
LEMMA HoldCancelled ==
    ASSUME PlatformInv, NEW n, NEW e, Due(n, e), NEW o \in Orders,
           n \in About("OrderCancelled", o)
    PROVE  rows[o].remaining = OnHold(o)
<1>1. EngineInv /\ events \in Seq(Events)
  BY DEF PlatformInv, EngineInv, IInv, TypeOK
<1>2. /\ n \in DOMAIN events /\ events[n] = e /\ n \in Int /\ consumed = n - 1
      /\ \A i \in DOMAIN events : i \in Int
  BY <1>1, LenProperties DEF Due
<1>3. n \in Final(o) /\ n \notin About("OrderFilled", o)
  BY DEF Final, About, Published
<1>4. /\ pc[o] \in {"select", "fill", "returned"} /\ Tables!IsOpen(o) /\ rows[o] # NoRow
      /\ rows[o].filled = Reported(Seen(PartFills(o)))
      /\ rows[o].remaining = rows[o].quantity - rows[o].filled
  BY <1>3, OpenRow
<1>5. StreamOf(o) /\ ReportsOf(o)
  BY <1>1 DEF EngineInv, StreamInv, ReportInv
<1>6. Final(o) = {n} /\ \A i \in Executions(o) : i < n
  BY <1>3, <1>5 DEF StreamOf, FinalOnceAndLast
<1>7. About("OrderFilled", o) = {}
  BY <1>3, <1>6 DEF Final
<1>8. pc[o] = "returned"
  BY <1>3, <1>4, <1>5 DEF StreamOf, FinalWhenOutOfBook
<1>9. Reported(PartFills(o)) = Traded(o)
  BY <1>5, <1>7, <1>8 DEF ReportsOf
<1>10. Seen(PartFills(o)) = PartFills(o) /\ Seen(Trades(o)) = Trades(o)
  <2>1. PartFills(o) \subseteq Executions(o) /\ Trades(o) \subseteq Executions(o)
    BY DEF PartFills, Executions
  <2>2. \A i \in Executions(o) : i \in DOMAIN events
    BY DEF Executions, About, Trades, Published
  <2>3. \A i \in Executions(o) : i <= consumed
    BY <1>2, <1>6, <2>2
  <2>4. QED
    BY <2>1, <2>3 DEF Seen
<1>11. Traded(o) = Shares(Trades(o))
  BY DEF Traded, Shares
<1>12. rows[o].status # "CANCELLED"
  BY <1>4 DEF Tables!IsOpen
<1>13. QED
  BY <1>4, <1>9, <1>10, <1>11, <1>12 DEF OnHold

\* The two orders of a trade have open rows, the buyer's and the seller's.
LEMMA TradeRows ==
    ASSUME PlatformInv, NEW n, NEW e \in Events, Due(n, e), e.type = "TradeExecuted"
    PROVE  LET buyer == e.buyer
               seller == e.seller
           IN  /\ buyer \in Orders /\ seller \in Orders /\ buyer # seller
               /\ n \in Trades(buyer) /\ n \in Trades(seller)
               /\ request[buyer] \in Requests /\ Valid(request[buyer])
               /\ rows[buyer] # NoRow /\ Tables!IsOpen(buyer)
               /\ rows[buyer].type = request[buyer].type /\ rows[buyer].side = "Buy"
               /\ rows[buyer].quantity = request[buyer].quantity
               /\ rows[buyer].type = "Limit" => rows[buyer].limit = request[buyer].limit
               /\ rows[seller] # NoRow /\ Tables!IsOpen(seller) /\ rows[seller].side = "Sell"
               /\ rows[seller].quantity = request[seller].quantity
               /\ pc[buyer] \in {"select", "fill", "returned"}
               /\ pc[seller] \in {"select", "fill", "returned"}
<1> DEFINE buyer == e.buyer
           seller == e.seller
<1>1. EngineInv /\ buyer \in Orders /\ seller \in Orders
  BY DEF PlatformInv, Events
<1>2. n \in DOMAIN events /\ events[n] = e
  BY DEF Due
<1>3. n \in Trades(buyer) /\ n \in Trades(seller)
  BY <1>2 DEF Trades, Published
<1>4. /\ request[buyer] \in Requests /\ Valid(request[buyer])
      /\ rows[buyer] # NoRow /\ Tables!IsOpen(buyer)
      /\ rows[buyer].type = request[buyer].type /\ rows[buyer].side = Side(buyer)
      /\ rows[buyer].quantity = request[buyer].quantity
      /\ rows[buyer].type = "Limit" => rows[buyer].limit = request[buyer].limit
      /\ pc[buyer] \in {"select", "fill", "returned"}
  BY <1>1, <1>3, OpenRow DEF Executions
<1>5. /\ request[seller] \in Requests /\ Valid(request[seller])
      /\ rows[seller] # NoRow /\ Tables!IsOpen(seller) /\ rows[seller].side = Side(seller)
      /\ rows[seller].quantity = request[seller].quantity
      /\ pc[seller] \in {"select", "fill", "returned"}
  BY <1>1, <1>3, OpenRow DEF Executions
<1>6. buyer # seller /\ rows[buyer].side = "Buy" /\ rows[seller].side = "Sell"
  <2>1. TradesOnItsSide(buyer) /\ TradesOnItsSide(seller)
    BY <1>1 DEF EngineInv, ReportInv
  <2>2. /\ buyer # seller
        /\ buyer = buyer <=> Side(buyer) = "Buy"
        /\ buyer = seller <=> Side(seller) = "Buy"
    BY <1>2, <1>3, <2>1 DEF TradesOnItsSide
  <2>3. Side(seller) \in {"Buy", "Sell"}
    BY <1>5, RequestColumns DEF Side
  <2>4. QED
    BY <1>4, <1>5, <2>2, <2>3
<1>7. QED
  BY <1>1, <1>3, <1>4, <1>5, <1>6

\* The row of a new order, and what it takes hold of.
LEMMA PlacedTables ==
    ASSUME PlatformInv, NEW n, NEW e \in Events, Settling(n, e), e.type = "OrderPlaced",
           Tables!InsertPlaced(Decoded(e))
    PROVE  TablesTypeOK' /\ \A x \in Orders : TablesOf(x)'
<1> DEFINE o == e.order
           q == request[o].quantity
           l == request[o].limit
           type == request[o].type
           side == request[o].side
           h == IF side = "Buy" /\ type = "Limit" THEN q * l ELSE 0
           s == IF side = "Sell" THEN q ELSE 0
<1>1. /\ events \in Seq(Events) /\ EngineInv /\ TablesTypeOK /\ o \in Orders
      /\ \A x \in Orders : TablesOf(x)
      /\ request' = request
  BY DEF PlatformInv, EngineInv, IInv, TypeOK, PlatformTypeOK, TablesTypeOK,
         Settling, Due, vars, Events
<1>2. /\ request[o] \in Requests /\ Valid(request[o])
      /\ Seen(Placed(o)) = {} /\ Seen(About("OrderFilled", o)) = {}
      /\ Seen(About("OrderCancelled", o)) = {} /\ Seen(PartFills(o)) = {}
      /\ Seen(Trades(o)) = {}
      /\ rows[o] = NoRow /\ cashHold[o] = 0 /\ positions[o].hold = 0
  BY NewRow DEF Settling
<1>3. /\ q \in Int /\ l \in Int /\ type \in {"Limit", "Market"} /\ side \in {"Buy", "Sell"}
  BY <1>2, RequestColumns
<1>4. Decoded(e) = [type |-> "OrderPlaced", order |-> o, trader |-> o, orderType |-> type,
                    side |-> side, quantity |-> q, limit |-> l]
  BY <1>2, DecodedPlaced
<1>5. h \in Int /\ s \in Int
  <2>1. \A a, b \in Int : a * b \in Int
    OBVIOUS
  <2>2. QED
    BY <1>3, <2>1
<1> HIDE DEF o, q, l, type, side
<1>6. /\ TablesTypeOK'
      /\ \A x \in Orders \ {o} : Stays(x)
      /\ Moves(o, -h, h, -s, s)
      /\ \E limit \in Int :
            /\ type = "Limit" => limit = l
            /\ rows'[o] = [trader |-> o, type |-> type, side |-> side, quantity |-> q,
                           filled |-> 0, remaining |-> q, limit |-> limit,
                           status |-> "PENDING"]
  <2> DEFINE d == Decoded(e)
  <2>1. /\ d = [type |-> "OrderPlaced", order |-> o, trader |-> o, orderType |-> type,
                side |-> side, quantity |-> q, limit |-> l]
        /\ Tables!InsertPlaced(d)
    BY <1>4
  <2>2. /\ h = (IF side = "Buy" /\ type = "Limit" THEN q * l ELSE 0)
        /\ s = (IF side = "Sell" THEN q ELSE 0)
    BY Zenon
  <2> HIDE DEF d, h, s
  <2>3. WritesOrder(o, type, side, q, l, h, s)
    BY <1>1, <1>3, <2>1, <2>2, PlacedStatement
  <2>4. QED
    BY <2>3 DEF WritesOrder
<1> HIDE DEF h, s
<1>7. /\ rows'[o].trader = o /\ rows'[o].type = type /\ rows'[o].side = side
      /\ rows'[o].quantity = q /\ rows'[o].filled = 0 /\ rows'[o].remaining = q
      /\ rows'[o].status = "PENDING" /\ (type = "Limit" => rows'[o].limit = l)
      /\ rows'[o] # NoRow
  <2>1. PICK limit \in Int :
             /\ type = "Limit" => limit = l
             /\ rows'[o] = [trader |-> o, type |-> type, side |-> side, quantity |-> q,
                            filled |-> 0, remaining |-> q, limit |-> limit,
                            status |-> "PENDING"]
    BY <1>6
  <2>2. rows'[o] \in Tables!Rows
    BY <1>1, <1>3, <2>1 DEF Tables!Rows
  <2>3. QED
    BY <2>1, <2>2, PlatformAssumption
<1>8. /\ Concerns(e, "OrderPlaced", o) /\ ~Concerns(e, "OrderFilled", o)
      /\ ~Concerns(e, "OrderCancelled", o) /\ ~Concerns(e, "OrderPartiallyFilled", o)
      /\ \A x : ~TradeOf(e, x)
  BY DEF Concerns, TradeOf, o
<1>9. /\ Seen(Placed(o))' # {}
      /\ Seen(About("OrderFilled", o))' = {}
      /\ Seen(About("OrderCancelled", o))' = {}
  <2>1. Seen(About("OrderPlaced", o))' =
            Seen(About("OrderPlaced", o)) \cup At(n, Concerns(e, "OrderPlaced", o))
    BY <1>1, SeenAboutGrows
  <2>2. Seen(About("OrderFilled", o))' = Seen(About("OrderFilled", o))
    BY <1>1, <1>8, SeenAboutSame
  <2>3. Seen(About("OrderCancelled", o))' = Seen(About("OrderCancelled", o))
    BY <1>1, <1>8, SeenAboutSame
  <2>4. QED
    BY <1>2, <1>8, <2>1, <2>2, <2>3 DEF At, Placed
<1>10. Reported(Seen(PartFills(o)))' = 0 /\ Shares(Seen(Trades(o)))' = 0
  <2>1. Reported(Seen(PartFills(o)))' = Reported(Seen(PartFills(o)))
    BY <1>1, <1>8, SeenReportsSame
  <2>2. Shares(Seen(Trades(o)))' = Shares(Seen(Trades(o)))
    BY <1>1, <1>8, SeenSumsSame
  <2>3. Reported({}) = 0 /\ Shares({}) = 0
    BY SumOfNone DEF Reported, Shares, SumFunction
  <2>4. QED
    BY <1>2, <2>1, <2>2, <2>3
<1>11. RowOf(o)'
  <2>1. request'[o].type = type /\ request'[o].quantity = q /\ request'[o].limit = l /\ Side(o)' = side
    BY <1>1 DEF Side, q, l, type, side
  <2>2. q - 0 = q
    BY <1>3
  <2>3. QED
    BY <1>7, <1>9, <1>10, <2>1, <2>2 DEF RowOf
<1>12. HoldsOf(o)'
  <2>1. OnHold(o)' = q
    BY <1>3, <1>7, <1>10 DEF OnHold
  <2>2. cashHold'[o] = h /\ positions'[o].hold = s
    BY <1>2, <1>5, <1>6 DEF Moves, h, s
  <2>3. cashHold'[o] = IF side = "Buy" /\ type = "Limit" THEN q * rows'[o].limit ELSE 0
    BY <1>7, <2>2, Zenon DEF h
  <2>4. positions'[o].hold = IF side = "Sell" THEN q ELSE 0
    BY <2>2, Zenon DEF s
  <2>5. QED
    BY <1>7, <2>1, <2>3, <2>4 DEF HoldsOf
<1>13. OwnsOf(o)'
  <2>1. -h \in Int /\ -s \in Int /\ h \in Int /\ s \in Int /\ (-h) + h = 0 /\ (-s) + s = 0
    BY <1>5 DEF h, s
  <2>2. QED
    BY <1>1, <1>6, <1>8, <2>1, OwnsTheSame
<1>14. ASSUME NEW x \in Orders \ {o} PROVE TablesOf(x)'
  <2>1. Stays(x) /\ e.order # x
    BY <1>6 DEF o
  <2>2. QED
    BY <1>8, <2>1, OtherTables
<1>15. QED
  BY <1>6, <1>11, <1>12, <1>13, <1>14 DEF TablesOf

\* What the two statements on the quantities of an order leave.
LEMMA FilledTables ==
    ASSUME PlatformInv, NEW n, NEW e \in Events, Settling(n, e),
           \/ e.type = "OrderFilled" /\ Tables!HandleOrderFilled(Decoded(e))
           \/ e.type = "OrderPartiallyFilled" /\ Tables!HandleOrderPartiallyFilled(Decoded(e))
    PROVE  TablesTypeOK' /\ \A x \in Orders : TablesOf(x)'
<1> DEFINE o == e.order
           full == e.type = "OrderFilled"
           status == IF full THEN "FILLED" ELSE "PARTIAL"
           filled == IF full THEN rows[o].quantity ELSE rows[o].filled + e.filled
           left == IF full THEN 0 ELSE rows[o].remaining - e.filled
           d == Decoded(e)
<1>1. /\ events \in Seq(Events) /\ EngineInv /\ TablesTypeOK /\ o \in Orders
      /\ \A x \in Orders : TablesOf(x)
      /\ request' = request
  BY DEF PlatformInv, EngineInv, IInv, TypeOK, PlatformTypeOK, TablesTypeOK,
         Settling, Due, vars, Events
<1>2. n \in DOMAIN events /\ events[n] = e
  BY DEF Settling, Due
<1>3. n \in Final(o) \cup Executions(o)
  BY <1>2 DEF Final, Executions, About, Published
<1>4. /\ request[o] \in Requests /\ rows[o] # NoRow /\ Tables!IsOpen(o)
      /\ Seen(Placed(o)) # {}
      /\ Seen(About("OrderFilled", o)) = {} /\ Seen(About("OrderCancelled", o)) = {}
      /\ rows[o].trader = o /\ rows[o].type = request[o].type /\ rows[o].side = Side(o)
      /\ rows[o].quantity = request[o].quantity
      /\ rows[o].type = "Limit" => rows[o].limit = request[o].limit
      /\ rows[o].filled = Reported(Seen(PartFills(o)))
      /\ rows[o].remaining = rows[o].quantity - rows[o].filled
  BY <1>1, <1>3, OpenRow DEF Settling
<1>5. d.order = o /\ (~full => d.filled = e.filled /\ e.filled \in Int)
  BY DecodedFilled, DecodedPartiallyFilled DEF Events
<1>6. \/ /\ Tables!HandleOrderFilled(d)
         /\ status = "FILLED" /\ filled = rows[o].quantity /\ left = 0
      \/ /\ Tables!HandleOrderPartiallyFilled(d) /\ d.filled \in Int
         /\ status = "PARTIAL" /\ filled = rows[o].filled + d.filled
         /\ left = rows[o].remaining - d.filled
  BY <1>5
<1> HIDE DEF d, o, status, filled, left
<1>7. /\ TablesTypeOK'
      /\ \A x \in Orders \ {o} : Stays(x)
      /\ Moves(o, 0, 0, 0, 0)
      /\ RowIs(rows'[o], rows[o], status, filled, left)
  BY <1>1, <1>4, <1>5, <1>6, FilledStatement
<1>8. rows'[o] # NoRow
  BY <1>7, PlatformAssumption DEF RowIs
<1>9. /\ \A x : ~TradeOf(e, x)
      /\ ~Concerns(e, "OrderPlaced", o) /\ ~Concerns(e, "OrderCancelled", o)
      /\ Concerns(e, "OrderFilled", o) <=> full
      /\ Concerns(e, "OrderPartiallyFilled", o) <=> ~full
  BY DEF Concerns, TradeOf, o
<1>10. /\ rows[o].quantity \in Int /\ rows[o].filled \in Int
       /\ rows[o].status # "CANCELLED" /\ rows[o].status # "FILLED"
       /\ cash[o] \in Int /\ cashHold[o] \in Int
       /\ positions[o].quantity \in Int /\ positions[o].hold \in Int
  BY <1>1, <1>4, ColumnTypes DEF Tables!IsOpen
<1>11. /\ Seen(Placed(o))' # {}
       /\ Seen(About("OrderFilled", o))' # {} <=> full
       /\ Seen(About("OrderCancelled", o))' = {}
  <2>1. Seen(About("OrderPlaced", o))' = Seen(About("OrderPlaced", o))
    BY <1>1, <1>9, SeenAboutSame
  <2>2. Seen(About("OrderFilled", o))' =
            Seen(About("OrderFilled", o)) \cup At(n, Concerns(e, "OrderFilled", o))
    BY <1>1, SeenAboutGrows
  <2>3. Seen(About("OrderCancelled", o))' = Seen(About("OrderCancelled", o))
    BY <1>1, <1>9, SeenAboutSame
  <2>4. QED
    BY <1>4, <1>9, <2>1, <2>2, <2>3 DEF At, Placed
<1>12. ~full => Reported(Seen(PartFills(o)))' = Reported(Seen(PartFills(o))) + e.filled
  BY <1>1, <1>9, SeenSumsGrow
<1>13. RowOf(o)'
  <2>1. /\ request'[o] = request[o] /\ Side(o)' = Side(o)
    BY <1>1 DEF Side
  <2>2. /\ status = "FILLED" <=> full
        /\ status # "CANCELLED"
        /\ full => filled = rows[o].quantity
        /\ ~full => filled = rows[o].filled + e.filled
    BY DEF status, filled
  <2>3. left = rows[o].quantity - filled
    BY <1>4, <1>5, <1>10 DEF left, filled
  <2> HIDE DEF full
  <2>4. QED
    BY <1>4, <1>7, <1>8, <1>11, <1>12, <2>1, <2>2, <2>3 DEF RowOf, RowIs
<1>14. HoldsOf(o)'
  <2>1. Shares(Seen(Trades(o)))' = Shares(Seen(Trades(o)))
    BY <1>1, <1>9, SeenSumsSame
  <2>2. status # "CANCELLED"
    BY DEF status
  <2>3. OnHold(o)' = OnHold(o)
    BY <1>4, <1>7, <1>8, <1>10, <2>1, <2>2 DEF OnHold, RowIs
  <2>4. HoldsOf(o) /\ cashHold'[o] = cashHold[o] /\ positions'[o].hold = positions[o].hold
    BY <1>1, <1>7, <1>10 DEF Moves, TablesOf
  <2>5. QED
    BY <1>4, <1>7, <1>8, <2>3, <2>4 DEF HoldsOf, RowIs
<1>15. OwnsOf(o)'
  <2>1. 0 + 0 = 0 /\ 0 \in Int
    OBVIOUS
  <2>2. QED
    BY <1>1, <1>7, <1>9, <2>1, OwnsTheSame
<1>16. ASSUME NEW x \in Orders \ {o} PROVE TablesOf(x)'
  <2>1. Stays(x) /\ e.order # x
    BY <1>7 DEF o
  <2>2. QED
    BY <1>9, <2>1, OtherTables
<1>17. QED
  BY <1>7, <1>13, <1>14, <1>15, <1>16 DEF TablesOf

\* A cancelled order had reported all that it traded, so what its row says
\* remains is what it keeps on hold.
LEMMA CancelledTables ==
    ASSUME PlatformInv, NEW n, NEW e \in Events, Settling(n, e), e.type = "OrderCancelled",
           Tables!InsertCancelled(Decoded(e))
    PROVE  TablesTypeOK' /\ \A x \in Orders : TablesOf(x)'
<1> DEFINE o == e.order
           d == Decoded(e)
           type == request[o].type
           side == request[o].side
           left == rows[o].remaining
           h == IF side = "Buy" /\ type = "Limit" THEN rows[o].remaining * rows[o].limit ELSE 0
           s == IF side = "Sell" THEN rows[o].remaining ELSE 0
<1>1. /\ events \in Seq(Events) /\ EngineInv /\ TablesTypeOK /\ o \in Orders
      /\ \A x \in Orders : TablesOf(x)
      /\ request' = request
  BY DEF PlatformInv, EngineInv, IInv, TypeOK, PlatformTypeOK, TablesTypeOK,
         Settling, Due, vars, Events
<1>2. /\ n \in DOMAIN events /\ events[n] = e /\ n \in Int /\ consumed = n - 1
      /\ \A i \in DOMAIN events : i \in Int
  BY <1>1, LenProperties DEF Settling, Due
<1>3. n \in About("OrderCancelled", o) /\ n \notin About("OrderFilled", o)
  BY <1>2 DEF About, Published
<1>4. n \in Final(o)
  BY <1>3 DEF Final
<1>5. /\ request[o] \in Requests /\ Valid(request[o])
      /\ pc[o] \in {"select", "fill", "returned"}
      /\ rows[o] # NoRow /\ Tables!IsOpen(o)
      /\ Seen(Placed(o)) # {}
      /\ Seen(About("OrderFilled", o)) = {} /\ Seen(About("OrderCancelled", o)) = {}
      /\ rows[o].trader = o /\ rows[o].type = request[o].type /\ rows[o].side = Side(o)
      /\ rows[o].quantity = request[o].quantity
      /\ rows[o].type = "Limit" => rows[o].limit = request[o].limit
      /\ rows[o].filled = Reported(Seen(PartFills(o)))
      /\ rows[o].remaining = rows[o].quantity - rows[o].filled
  BY <1>1, <1>4, OpenRow DEF Settling
<1>6. type \in {"Limit", "Market"} /\ side \in {"Buy", "Sell"} /\ Side(o) = side
  BY <1>5, RequestColumns DEF Side
<1>7. left = OnHold(o)
  BY <1>1, <1>3, HoldCancelled DEF Settling
<1>8. left \in Int /\ rows[o].limit \in Int /\ rows[o].filled \in Int
  BY <1>1, <1>5, ColumnTypes
<1>9. h \in Int /\ s \in Int
  <2>1. \A a, b \in Int : a * b \in Int
    OBVIOUS
  <2>2. QED
    BY <1>8, <2>1
<1>10. d = [type |-> "OrderCancelled", order |-> o, orderType |-> type, side |-> side]
  BY <1>5, DecodedCancelled
<1>11. Tables!InsertCancelled(d)
  OBVIOUS
<1>12. /\ h = (IF side = "Buy" /\ type = "Limit" THEN rows[o].remaining * rows[o].limit ELSE 0)
       /\ s = (IF side = "Sell" THEN rows[o].remaining ELSE 0)
  BY Zenon
<1> HIDE DEF o, d, type, side, left, h, s
<1>13. /\ TablesTypeOK'
       /\ \A x \in Orders \ {o} : Stays(x)
       /\ Moves(o, h, -h, s, -s)
       /\ RowIs(rows'[o], rows[o], "CANCELLED", rows[o].filled, rows[o].remaining)
  BY <1>1, <1>5, <1>6, <1>10, <1>11, <1>12, CancelledStatement
<1>14. rows'[o] # NoRow
  BY <1>13, PlatformAssumption DEF RowIs
<1>15. /\ \A x : ~TradeOf(e, x)
       /\ ~Concerns(e, "OrderPlaced", o) /\ Concerns(e, "OrderCancelled", o)
       /\ ~Concerns(e, "OrderFilled", o) /\ ~Concerns(e, "OrderPartiallyFilled", o)
  BY DEF Concerns, TradeOf, o
<1>16. /\ Seen(Placed(o))' # {}
       /\ Seen(About("OrderFilled", o))' = {}
       /\ Seen(About("OrderCancelled", o))' # {}
  <2>1. Seen(About("OrderPlaced", o))' = Seen(About("OrderPlaced", o))
    BY <1>1, <1>15, SeenAboutSame
  <2>2. Seen(About("OrderFilled", o))' = Seen(About("OrderFilled", o))
    BY <1>1, <1>15, SeenAboutSame
  <2>3. Seen(About("OrderCancelled", o))' =
            Seen(About("OrderCancelled", o)) \cup At(n, Concerns(e, "OrderCancelled", o))
    BY <1>1, SeenAboutGrows
  <2>4. QED
    BY <1>5, <1>15, <2>1, <2>2, <2>3 DEF At, Placed
<1>17. RowOf(o)'
  <2>1. request'[o] = request[o] /\ Side(o)' = Side(o)
    BY <1>1 DEF Side
  <2>2. Reported(Seen(PartFills(o)))' = Reported(Seen(PartFills(o)))
    BY <1>1, <1>15, SeenReportsSame
  <2>3. QED
    BY <1>5, <1>13, <1>14, <1>16, <2>1, <2>2 DEF RowOf, RowIs
<1>18. HoldsOf(o)'
  <2>1. OnHold(o)' = 0
    BY <1>13, <1>14 DEF OnHold, RowIs
  <2>2. HoldsOf(o)
    BY <1>1 DEF TablesOf
  <2>3. cashHold[o] = h
    <3>1. cashHold[o] = IF rows[o].side = "Buy" /\ rows[o].type = "Limit"
                        THEN OnHold(o) * rows[o].limit ELSE 0
      BY <1>5, <2>2, Zenon DEF HoldsOf
    <3>2. OnHold(o) = rows[o].remaining /\ rows[o].side = side /\ rows[o].type = type
      BY <1>5, <1>6, <1>7 DEF left, type
    <3>3. QED
      BY <1>12, <3>1, <3>2, Zenon
  <2>4. positions[o].hold = s
    <3>1. positions[o].hold = IF rows[o].side = "Sell" THEN OnHold(o) ELSE 0
      BY <1>5, <2>2, Zenon DEF HoldsOf
    <3>2. OnHold(o) = rows[o].remaining /\ rows[o].side = side
      BY <1>5, <1>6, <1>7 DEF left
    <3>3. QED
      BY <1>12, <3>1, <3>2, Zenon
  <2>5. cashHold'[o] = 0 /\ positions'[o].hold = 0
    BY <1>9, <1>13, <2>3, <2>4 DEF Moves
  <2>6. rows'[o].limit \in Int
    BY <1>8, <1>13 DEF RowIs
  <2>7. 0 * rows'[o].limit = 0
    BY <2>6
  <2>8. QED
    BY <1>14, <2>1, <2>5, <2>7 DEF HoldsOf
<1>19. OwnsOf(o)'
  <2>1. -h \in Int /\ -s \in Int /\ h + (-h) = 0 /\ s + (-s) = 0
    BY <1>9
  <2>2. QED
    BY <1>1, <1>9, <1>13, <1>15, <2>1, OwnsTheSame
<1>20. ASSUME NEW x \in Orders \ {o} PROVE TablesOf(x)'
  <2>1. Stays(x) /\ e.order # x
    BY <1>13 DEF o
  <2>2. QED
    BY <1>15, <2>1, OtherTables
<1>21. QED
  BY <1>13, <1>17, <1>18, <1>19, <1>20 DEF TablesOf

\* A trade changes no row.
LEMMA TradeKeepsRow ==
    ASSUME PlatformInv, NEW n, NEW e, Settling(n, e), e.type = "TradeExecuted",
           NEW o \in Orders, rows' = rows
    PROVE  RowOf(o)'
<1>1. events \in Seq(Events) /\ RowOf(o) /\ request' = request
  BY DEF PlatformInv, EngineInv, IInv, TypeOK, Settling, Due, vars, TablesOf
<1>2. /\ ~Concerns(e, "OrderPlaced", o) /\ ~Concerns(e, "OrderFilled", o)
      /\ ~Concerns(e, "OrderCancelled", o) /\ ~Concerns(e, "OrderPartiallyFilled", o)
  BY DEF Concerns
<1>3. Seen(About("OrderPlaced", o))' = Seen(About("OrderPlaced", o))
  BY <1>1, <1>2, SeenAboutSame
<1>4. Seen(About("OrderFilled", o))' = Seen(About("OrderFilled", o))
  BY <1>1, <1>2, SeenAboutSame
<1>5. Seen(About("OrderCancelled", o))' = Seen(About("OrderCancelled", o))
  BY <1>1, <1>2, SeenAboutSame
<1>6. Reported(Seen(PartFills(o)))' = Reported(Seen(PartFills(o)))
  BY <1>1, <1>2, SeenReportsSame
<1>7. Seen(Placed(o))' = Seen(Placed(o))
  BY <1>3 DEF Placed
<1>8. QED
  BY <1>1, <1>4, <1>5, <1>6, <1>7 DEF RowOf, Side

\* What an order keeps on hold goes down by what it trades.
LEMMA TradeLowersHold ==
    ASSUME PlatformInv, NEW n, NEW e, Settling(n, e), NEW o \in Orders, TradeOf(e, o),
           rows' = rows, rows[o] # NoRow, Tables!IsOpen(o), e.quantity \in Int
    PROVE  OnHold(o) \in Int /\ OnHold(o)' = OnHold(o) - e.quantity
<1>1. events \in Seq(Events) /\ TablesTypeOK
  BY DEF PlatformInv, EngineInv, IInv, TypeOK, TablesTypeOK, PlatformTypeOK
<1>2. Shares(Seen(Trades(o)))' = Shares(Seen(Trades(o))) + e.quantity
  <2>1. Shares(Seen(Trades(o)))' = Shares(Seen(Trades(o)))
                  + (IF TradeOf(e, o) THEN e.quantity ELSE 0)
    BY <1>1, SeenSumsGrow
  <2>2. QED
    BY <2>1
<1>3. Shares(Seen(Trades(o))) \in Int /\ rows[o].quantity \in Int
  BY <1>1, SeenSumsAreInts, ColumnTypes
<1>4. rows[o].status # "CANCELLED"
  BY DEF Tables!IsOpen
<1>5. QED
  BY <1>2, <1>3, <1>4 DEF OnHold

\* A difference times a price.
LEMMA Distribute == \A a, b, c \in Int : (a - b) * c = a * c - b * c
OBVIOUS

\* The trade of two orders, on both their sides.
LEMMA TradeTables ==
    ASSUME PlatformInv, NEW n, NEW e \in Events, Settling(n, e), e.type = "TradeExecuted",
           Tables!InsertTradeExecuted(Decoded(e))
    PROVE  TablesTypeOK' /\ \A x \in Orders : TablesOf(x)'
<1> DEFINE buyer == e.buyer
           seller == e.seller
           k == e.quantity
           p == e.price
           d == Decoded(e)
           total == p * k
           type == request[buyer].type
           lim == rows[buyer].limit
           held == IF type = "Limit" THEN k * rows[buyer].limit ELSE 0
<1>1. /\ events \in Seq(Events) /\ EngineInv /\ TablesTypeOK
      /\ \A x \in Orders : TablesOf(x)
      /\ request' = request
  BY DEF PlatformInv, EngineInv, IInv, TypeOK, PlatformTypeOK, TablesTypeOK,
         Settling, Due, vars
<1>2. buyer \in Orders /\ seller \in Orders /\ k \in Int /\ p \in Nat
  BY PricesAssumption DEF Events
<1>3. /\ request[buyer] \in Requests /\ Valid(request[buyer])
      /\ rows[buyer] # NoRow /\ Tables!IsOpen(buyer)
      /\ rows[buyer].type = request[buyer].type /\ rows[buyer].side = "Buy"
      /\ rows[seller] # NoRow /\ Tables!IsOpen(seller) /\ rows[seller].side = "Sell"
      /\ buyer # seller
  BY TradeRows DEF Settling
<1>4. /\ d = [type |-> "TradeExecuted", buyer |-> buyer, seller |-> seller,
              buyerType |-> type, buyerTrader |-> buyer, sellerTrader |-> seller,
              quantity |-> k, price |-> p, total |-> p * k]
  BY <1>3, DecodedTrade
<1>5. Tables!InsertTradeExecuted(d)
  OBVIOUS
<1>6. type \in {"Limit", "Market"}
  BY <1>3, RequestColumns
<1>7. total \in Int /\ lim \in Int
  <2>1. \A a, b \in Int : a * b \in Int
    OBVIOUS
  <2>2. QED
    BY <1>1, <1>2, <1>3, <2>1, ColumnTypes
<1>8. /\ total = p * k
       /\ held = (IF type = "Limit" THEN k * rows[buyer].limit ELSE 0)
  BY Zenon
<1>9. k * lim \in Int /\ held \in Int
  <2>1. \A a, b \in Int : a * b \in Int
    OBVIOUS
  <2>2. k * lim \in Int
    BY <1>2, <1>7, <2>1
  <2>3. QED
    BY <1>6, <2>2
<1> HIDE DEF buyer, seller, k, p, d, type, held
<1>10. d = [type |-> "TradeExecuted", buyer |-> buyer, seller |-> seller,
            buyerType |-> type, buyerTrader |-> buyer, sellerTrader |-> seller,
            quantity |-> k, price |-> p, total |-> total]
  BY <1>4
<1> HIDE DEF total
<1>11. /\ TablesTypeOK'
       /\ UNCHANGED rows
       /\ \A x \in Orders \ {buyer, seller} : Stays(x)
       /\ Moves(buyer, held - total, -held, k, 0)
       /\ Moves(seller, total, 0, 0, -k)
  BY <1>1, <1>2, <1>3, <1>5, <1>6, <1>7, <1>8, <1>10, TradeStatement
<1>12. /\ TradeOf(e, buyer) /\ TradeOf(e, seller)
       /\ e.buyer = buyer /\ e.buyer # seller
       /\ e.quantity = k /\ e.price * e.quantity = total
       /\ \A x : x \notin {buyer, seller} => ~TradeOf(e, x)
  BY <1>3 DEF TradeOf, buyer, seller, k, total, p
<1>13. ASSUME NEW x \in {buyer, seller}
       PROVE  /\ OnHold(x) \in Int /\ OnHold(x)' = OnHold(x) - k
              /\ HoldsOf(x) /\ OwnsOf(x) /\ RowOf(x)'
              /\ cash[x] \in Int /\ cashHold[x] \in Int
              /\ positions[x].quantity \in Int /\ positions[x].hold \in Int
              /\ Shares(Seen(Bought(x))) \in Int /\ Value(Seen(Bought(x))) \in Int
              /\ Shares(Seen(Sold(x))) \in Int /\ Value(Seen(Sold(x))) \in Int
  <2>1. x \in Orders /\ rows[x] # NoRow /\ Tables!IsOpen(x) /\ TradeOf(e, x) /\ e.quantity \in Int
    BY <1>2, <1>3, <1>12
  <2>2. OnHold(x) \in Int /\ OnHold(x)' = OnHold(x) - k
    BY <1>11, <1>12, <2>1, TradeLowersHold
  <2>3. HoldsOf(x) /\ OwnsOf(x)
    BY <1>1, <2>1 DEF TablesOf
  <2>4. RowOf(x)'
    BY <1>11, <2>1, TradeKeepsRow
  <2>5. QED
    BY <1>1, <2>1, <2>2, <2>3, <2>4, ColumnTypes, SeenSumsAreInts
<1>14. TablesOf(buyer)'
  <2>1. HoldsOf(buyer)'
    <3>1. /\ cashHold[buyer] = IF type = "Limit" THEN OnHold(buyer) * lim ELSE 0
          /\ positions[buyer].hold = 0
      BY <1>3, <1>13 DEF HoldsOf, type
    <3>2. positions'[buyer].hold = 0
      BY <1>11, <3>1 DEF Moves
    <3>3. cashHold'[buyer] = IF type = "Limit" THEN OnHold(buyer)' * lim ELSE 0
      <4>1. cashHold'[buyer] = cashHold[buyer] - held
        BY <1>9, <1>11, <1>13 DEF Moves
      <4>2. CASE type = "Limit"
        <5>1. cashHold[buyer] = OnHold(buyer) * lim /\ held = k * lim
          BY <1>8, <3>1, <4>2, Zenon
        <5>2. (OnHold(buyer) - k) * lim = OnHold(buyer) * lim - k * lim
          BY <1>2, <1>7, <1>13, Distribute
        <5>3. cashHold'[buyer] = OnHold(buyer) * lim - k * lim
          BY <4>1, <5>1, Zenon
        <5>4. cashHold'[buyer] = OnHold(buyer)' * lim
          BY <1>13, <5>2, <5>3, Zenon
        <5>5. QED
          BY <4>2, <5>4, Zenon
      <4>3. CASE type = "Market"
        <5>1. cashHold[buyer] = 0 /\ held = 0
          BY <1>8, <3>1, <4>3
        <5>2. QED
          BY <4>1, <4>3, <5>1
      <4>4. QED
        BY <1>6, <4>2, <4>3
    <3>4. QED
      BY <1>3, <1>11, <3>2, <3>3 DEF HoldsOf, type
  <2>2. OwnsOf(buyer)'
    <3>1. /\ Value(Seen(Bought(buyer)))' = Value(Seen(Bought(buyer))) + total
          /\ Shares(Seen(Bought(buyer)))' = Shares(Seen(Bought(buyer))) + k
          /\ Value(Seen(Sold(buyer)))' = Value(Seen(Sold(buyer))) + 0
          /\ Shares(Seen(Sold(buyer)))' = Shares(Seen(Sold(buyer))) + 0
      <4>1. /\ Shares(Seen(Bought(buyer)))' = Shares(Seen(Bought(buyer)))
                  + (IF TradeOf(e, buyer) /\ e.buyer = buyer THEN e.quantity ELSE 0)
            /\ Shares(Seen(Sold(buyer)))' = Shares(Seen(Sold(buyer)))
                  + (IF TradeOf(e, buyer) /\ e.buyer # buyer THEN e.quantity ELSE 0)
            /\ Value(Seen(Bought(buyer)))' = Value(Seen(Bought(buyer)))
                  + (IF TradeOf(e, buyer) /\ e.buyer = buyer THEN e.price * e.quantity ELSE 0)
            /\ Value(Seen(Sold(buyer)))' = Value(Seen(Sold(buyer)))
                  + (IF TradeOf(e, buyer) /\ e.buyer # buyer THEN e.price * e.quantity ELSE 0)
        BY <1>1, SeenSumsGrow
      <4>2. QED
        BY <1>12, <4>1
    <3>2. /\ cash'[buyer] = cash[buyer] + (held - total)
          /\ cashHold'[buyer] = cashHold[buyer] + (-held)
          /\ positions'[buyer].quantity = positions[buyer].quantity + k
          /\ positions'[buyer].hold = positions[buyer].hold + 0
      BY <1>11 DEF Moves
    <3>3. /\ cash'[buyer] + cashHold'[buyer] = cash[buyer] + cashHold[buyer] - total
          /\ positions'[buyer].quantity + positions'[buyer].hold =
                positions[buyer].quantity + positions[buyer].hold + k
      <4>1. /\ cash[buyer] \in Int /\ cashHold[buyer] \in Int
            /\ positions[buyer].quantity \in Int /\ positions[buyer].hold \in Int
        BY <1>13
      <4>2. QED
        BY <1>2, <1>7, <1>9, <3>2, <4>1
    <3>4. /\ Shares(Seen(Bought(buyer))) \in Int /\ Value(Seen(Bought(buyer))) \in Int
          /\ Shares(Seen(Sold(buyer))) \in Int /\ Value(Seen(Sold(buyer))) \in Int
      BY <1>13
    <3>5. /\ cash[buyer] + cashHold[buyer] =
                InitialCash + Value(Seen(Sold(buyer))) - Value(Seen(Bought(buyer)))
          /\ positions[buyer].quantity + positions[buyer].hold =
                InitialShares + Shares(Seen(Bought(buyer))) - Shares(Seen(Sold(buyer)))
      BY <1>13 DEF OwnsOf
    <3>6. cash'[buyer] + cashHold'[buyer] =
             InitialCash + Value(Seen(Sold(buyer)))' - Value(Seen(Bought(buyer)))'
      <4>1. cash[buyer] \in Int /\ cashHold[buyer] \in Int
        BY <1>13
      <4>2. QED
        BY <1>7, <3>1, <3>3, <3>4, <3>5, <4>1, PlatformAssumption
    <3>7. positions'[buyer].quantity + positions'[buyer].hold =
             InitialShares + Shares(Seen(Bought(buyer)))' - Shares(Seen(Sold(buyer)))'
      BY <1>2, <3>1, <3>3, <3>4, <3>5, PlatformAssumption
    <3>8. QED
      BY <3>6, <3>7 DEF OwnsOf
  <2>3. QED
    BY <1>13, <2>1, <2>2 DEF TablesOf
<1>15. TablesOf(seller)'
  <2>1. HoldsOf(seller)'
    <3>1. cashHold[seller] = 0 /\ positions[seller].hold = OnHold(seller)
      BY <1>3, <1>13 DEF HoldsOf
    <3>2. cashHold'[seller] = 0 /\ positions'[seller].hold = OnHold(seller) - k
      BY <1>2, <1>11, <1>13, <3>1 DEF Moves
    <3>3. QED
      BY <1>3, <1>11, <1>13, <3>2 DEF HoldsOf
  <2>2. OwnsOf(seller)'
    <3>1. /\ Value(Seen(Bought(seller)))' = Value(Seen(Bought(seller))) + 0
          /\ Shares(Seen(Bought(seller)))' = Shares(Seen(Bought(seller))) + 0
          /\ Value(Seen(Sold(seller)))' = Value(Seen(Sold(seller))) + total
          /\ Shares(Seen(Sold(seller)))' = Shares(Seen(Sold(seller))) + k
      <4>1. /\ Shares(Seen(Bought(seller)))' = Shares(Seen(Bought(seller)))
                  + (IF TradeOf(e, seller) /\ e.buyer = seller THEN e.quantity ELSE 0)
            /\ Shares(Seen(Sold(seller)))' = Shares(Seen(Sold(seller)))
                  + (IF TradeOf(e, seller) /\ e.buyer # seller THEN e.quantity ELSE 0)
            /\ Value(Seen(Bought(seller)))' = Value(Seen(Bought(seller)))
                  + (IF TradeOf(e, seller) /\ e.buyer = seller THEN e.price * e.quantity ELSE 0)
            /\ Value(Seen(Sold(seller)))' = Value(Seen(Sold(seller)))
                  + (IF TradeOf(e, seller) /\ e.buyer # seller THEN e.price * e.quantity ELSE 0)
        BY <1>1, SeenSumsGrow
      <4>2. QED
        BY <1>12, <4>1
    <3>2. /\ cash'[seller] = cash[seller] + total
          /\ cashHold'[seller] = cashHold[seller] + 0
          /\ positions'[seller].quantity = positions[seller].quantity + 0
          /\ positions'[seller].hold = positions[seller].hold + (-k)
      BY <1>11 DEF Moves
    <3>3. QED
      BY <1>2, <1>7, <1>13, <3>1, <3>2, PlatformAssumption DEF OwnsOf
  <2>3. QED
    BY <1>13, <2>1, <2>2 DEF TablesOf
<1>16. ASSUME NEW x \in Orders \ {buyer, seller} PROVE TablesOf(x)'
  BY <1>11, <1>12, OtherTables
<1>17. QED
  BY <1>11, <1>14, <1>15, <1>16

\* What a Rejected event would say is lost, and nothing else depends on it.
LEMMA RejectedTables ==
    ASSUME PlatformInv, NEW n, NEW e \in Events, Settling(n, e), e.type = "OrderRejected",
           UNCHANGED tables
    PROVE  TablesTypeOK' /\ \A x \in Orders : TablesOf(x)'
<1>1. /\ rows' = rows /\ cash' = cash /\ cashHold' = cashHold
      /\ positions' = positions /\ trades' = trades
  BY DEF tables
<1>2. TablesTypeOK'
  <2>1. TablesTypeOK
    BY DEF PlatformInv, PlatformTypeOK, TablesTypeOK
  <2>2. QED
    BY <1>1, <2>1 DEF TablesTypeOK, Tables!SettlementTypeOK
<1>3. ASSUME NEW x \in Orders PROVE TablesOf(x)'
  <2>1. Stays(x)
    BY <1>1 DEF Stays
  <2>2. ~TradeOf(e, x)
    BY DEF TradeOf
  <2>3. QED
    BY <2>1, <2>2, OtherTables
<1>4. QED
  BY <1>2, <1>3

\* The listener takes every event for what the engine published it as.
LEMMA DecodedAsPublished ==
    ASSUME EngineInv, NEW n \in DOMAIN events, NEW e \in Events, e = events[n]
    PROVE  Decoded(e).type = e.type
<1>1. e.type \in {"OrderPlaced", "OrderCancelled", "OrderFilled",
                  "OrderPartiallyFilled", "OrderRejected", "TradeExecuted"}
  BY DecodedType
<1>2. CASE e.type = "OrderPlaced"
  <2>1. e.order \in Orders /\ n \in Placed(e.order)
    BY <1>2 DEF Events, Placed, About, Published
  <2>2. request[e.order] \in Requests
    BY <2>1, SettledOrder
  <2>3. QED
    BY <1>2, <2>2, DecodedPlaced
<1>3. CASE e.type = "OrderCancelled"
  <2>1. e.order \in Orders /\ n \in Final(e.order)
    BY <1>3 DEF Events, Final, About, Published
  <2>2. request[e.order] \in Requests
    BY <2>1, SettledOrder
  <2>3. QED
    BY <1>3, <2>2, DecodedCancelled
<1>4. CASE e.type = "TradeExecuted"
  <2>1. e.buyer \in Orders /\ n \in Executions(e.buyer)
    BY <1>4 DEF Events, Executions, Trades, Published
  <2>2. request[e.buyer] \in Requests
    BY <2>1, SettledOrder
  <2>3. QED
    BY <1>4, <2>2, DecodedTrade
<1>5. QED
  BY <1>1, <1>2, <1>3, <1>4, DecodedFilled, DecodedPartiallyFilled, DecodedRejected

\* Whichever event is the next, its statement keeps the tables in step.
LEMMA ConsumeTables ==
    ASSUME PlatformInv, Consume
    PROVE  /\ TablesTypeOK' /\ \A x \in Orders : TablesOf(x)'
           /\ consumed' \in 0..Len(events')
<1> DEFINE n == consumed + 1
           e == events[n]
           d == Decoded(e)
<1>1. /\ events \in Seq(Events) /\ EngineInv /\ consumed \in 0..Len(events)
      /\ consumed < Len(events) /\ consumed' = consumed + 1 /\ UNCHANGED vars
      /\ d = NextEvent
      /\ IF d.type = "OrderRejected" THEN Tables!HandleOrderRejected(d)
                                     ELSE Tables!InsertEvent(d)
  BY DEF PlatformInv, PlatformTypeOK, EngineInv, IInv, TypeOK, Consume, Decoded, NextEvent
<1>2. /\ n \in DOMAIN events /\ n \in Nat /\ consumed = n - 1 /\ consumed' = n
      /\ consumed' \in 0..Len(events)
  BY <1>1, LenProperties
<1>3. e \in Events
  BY <1>1, <1>2, ElementOfSeq, LenProperties
<1>4. events' = events
  BY <1>1 DEF vars
<1>5. Settling(n, e)
  BY <1>1, <1>2 DEF Settling, Due
<1>6. d.type = e.type
  BY <1>1, <1>2, <1>3, DecodedAsPublished
<1>7. e.type \in {"OrderPlaced", "OrderCancelled", "OrderFilled",
                  "OrderPartiallyFilled", "OrderRejected", "TradeExecuted"}
  BY <1>3, DecodedType
<1> HIDE DEF n, e
<1>8. \/ e.type = "OrderPlaced" /\ Tables!InsertPlaced(d)
      \/ e.type = "OrderCancelled" /\ Tables!InsertCancelled(d)
      \/ e.type = "OrderFilled" /\ Tables!HandleOrderFilled(d)
      \/ e.type = "OrderPartiallyFilled" /\ Tables!HandleOrderPartiallyFilled(d)
      \/ e.type = "TradeExecuted" /\ Tables!InsertTradeExecuted(d)
      \/ e.type = "OrderRejected" /\ UNCHANGED tables
  BY <1>1, <1>6, <1>7
     DEF Tables!InsertEvent, Tables!HandleOrderRejected, Tables!InsertFails,
         Tables!tables, tables
<1>9. TablesTypeOK' /\ \A x \in Orders : TablesOf(x)'
  BY <1>3, <1>5, <1>8, PlacedTables, CancelledTables, FilledTables, TradeTables,
     RejectedTables
<1>10. QED
  BY <1>2, <1>4, <1>9

-----------------------------------------------------------------------------
(***************************************************************************)
(* The invariant of the platform.                                          *)
(***************************************************************************)
LEMMA InitPlatform == PlatformInit => PlatformInv
<1> SUFFICES ASSUME PlatformInit PROVE PlatformInv
  OBVIOUS
<1>1. EngineInv
  BY InitIInv, InitStream, InitShares, InitReports DEF PlatformInit, EngineInv
<1>2. /\ events = <<>> /\ consumed = 0
      /\ cash = [o \in Orders |-> InitialCash] /\ cashHold = [o \in Orders |-> 0]
      /\ positions = [o \in Orders |-> [quantity |-> InitialShares, hold |-> 0]]
      /\ rows = [o \in Orders |-> NoRow] /\ trades = <<>>
  BY DEF PlatformInit, Init, Tables!Init
<1>3. [quantity |-> InitialShares, hold |-> 0] \in Tables!Positions
  BY PlatformAssumption DEF Tables!Positions
<1>4. PlatformTypeOK
  <2>1. consumed \in 0..Len(events)
    BY <1>2
  <2>2. trades \in Seq(Tables!EventType)
    BY <1>2
  <2>3. Tables!SettlementTypeOK
    BY <1>2, <1>3, <2>2, PlatformAssumption DEF Tables!SettlementTypeOK
  <2>4. QED
    BY <2>1, <2>3 DEF PlatformTypeOK
<1>5. \A o \in Orders : positions[o] # NoRow
  <2>1. [quantity |-> InitialShares, hold |-> 0] \in [quantity : Int, hold : Int]
    BY PlatformAssumption
  <2>2. QED
    BY <1>2, <2>1, PlatformAssumption
<1>6. ASSUME NEW o \in Orders PROVE TablesOf(o)
  <2>1. DOMAIN events = {}
    BY <1>2
  <2>2. Placed(o) = {} /\ Trades(o) = {} /\ Bought(o) = {} /\ Sold(o) = {}
    BY <2>1 DEF Placed, About, Trades, Bought, Sold, Published
  <2>3. /\ Seen(Placed(o)) = {} /\ Seen(Trades(o)) = {}
        /\ Seen(Bought(o)) = {} /\ Seen(Sold(o)) = {}
    BY <2>2 DEF Seen
  <2>4. Shares({}) = 0 /\ Value({}) = 0
    BY SumOfNone DEF Shares, Value, SumFunction
  <2>5. /\ rows[o] = NoRow /\ cash[o] = InitialCash /\ cashHold[o] = 0
        /\ positions[o].quantity = InitialShares /\ positions[o].hold = 0
    BY <1>2
  <2>6. RowOf(o) /\ HoldsOf(o)
    BY <2>3, <2>5 DEF RowOf, HoldsOf
  <2>7. OwnsOf(o)
    BY <2>3, <2>4, <2>5, PlatformAssumption DEF OwnsOf
  <2>8. QED
    BY <2>6, <2>7 DEF TablesOf
<1>7. QED
  BY <1>1, <1>4, <1>5, <1>6 DEF PlatformInv

\* The engine's invariants, taken together.
LEMMA NextEngine == EngineInv /\ [Next]_vars => EngineInv'
BY NextIInv, NextStream, NextShares, NextReports DEF EngineInv

\* Engine and listener keep the invariant.
LEMMA NextPlatform == PlatformInv /\ [PlatformNext]_platformVars => PlatformInv'
<1> SUFFICES ASSUME PlatformInv, [PlatformNext]_platformVars PROVE PlatformInv'
  OBVIOUS
<1>1. [Next]_vars
  BY DEF PlatformNext, Trade, Consume, platformVars
<1>2. EngineInv'
  BY <1>1, NextEngine DEF PlatformInv
<1>3. ASSUME UNCHANGED <<consumed, tables>> PROVE PlatformInv'
  <2>1. /\ consumed \in 0..Len(events) /\ consumed' = consumed
        /\ events \in Seq(Events) /\ events' \in Seq(Events)
    BY <1>2, <1>3 DEF PlatformInv, PlatformTypeOK, EngineInv, IInv, TypeOK
  <2>2. consumed' \in 0..Len(events')
    <3>1. StreamExtends
      BY <1>1, NextExtends DEF PlatformInv, EngineInv
    <3>2. DOMAIN events \subseteq DOMAIN events'
      BY <3>1 DEF StreamExtends
    <3>3. /\ DOMAIN events = 1..Len(events) /\ Len(events) \in Nat
          /\ DOMAIN events' = 1..Len(events') /\ Len(events') \in Nat
      BY <2>1, LenProperties
    <3>4. consumed = 0 \/ consumed \in 1..Len(events)
      BY <2>1, <3>3
    <3>5. QED
      BY <2>1, <3>2, <3>3, <3>4
  <2>3. /\ rows' = rows /\ cash' = cash /\ cashHold' = cashHold
        /\ positions' = positions /\ trades' = trades
    BY <1>3 DEF tables
  <2>4. Tables!SettlementTypeOK' /\ \A o \in Orders : positions'[o] # NoRow
    BY <2>3 DEF PlatformInv, PlatformTypeOK, Tables!SettlementTypeOK
  <2>5. IInv'
    BY <1>2 DEF EngineInv
  <2>6. \A o \in Orders : TablesOf(o)'
    BY <1>1, <1>3, <2>5, TradeKeepsTables
  <2>7. QED
    BY <1>2, <2>2, <2>4, <2>6 DEF PlatformInv, PlatformTypeOK
<1>4. ASSUME Consume PROVE PlatformInv'
  <2>1. /\ TablesTypeOK' /\ \A x \in Orders : TablesOf(x)'
        /\ consumed' \in 0..Len(events')
    BY <1>4, ConsumeTables
  <2>2. QED
    BY <1>2, <2>1 DEF PlatformInv, PlatformTypeOK, TablesTypeOK
<1>5. QED
  BY <1>3, <1>4 DEF PlatformNext, Trade, platformVars

\* Whatever the engine and the listener do, and however far the one is behind
\* the other, the tables are what the events settled so far make of them.
THEOREM PlatformInvariance == PlatformSpec => []PlatformInv
BY InitPlatform, NextPlatform, PTL DEF PlatformSpec

\* The listener's position is one of the stream, and the tables keep their
\* types and CHECKs, whatever the engine and the listener do.
THEOREM PlatformTypes == PlatformSpec => []PlatformTypeOK
BY PlatformInvariance, PTL DEF PlatformInv

-----------------------------------------------------------------------------
(***************************************************************************)
(* What the tables tell when the listener has caught up.                   *)
(***************************************************************************)
\* All of the stream was settled.
LEMMA AllSeen ==
    ASSUME PlatformInv, CaughtUp, NEW o
    PROVE  /\ \A t : Seen(About(t, o)) = About(t, o)
           /\ Seen(Placed(o)) = Placed(o)
           /\ Seen(PartFills(o)) = PartFills(o)
           /\ Seen(Trades(o)) = Trades(o)
           /\ Seen(Bought(o)) = Bought(o)
           /\ Seen(Sold(o)) = Sold(o)
<1>1. events \in Seq(Events)
  BY DEF PlatformInv, EngineInv, IInv, TypeOK
<1>2. \A i \in DOMAIN events : i <= consumed
  BY <1>1, LenProperties DEF CaughtUp
<1>3. \A t : About(t, o) \subseteq DOMAIN events
  BY DEF About, Published
<1>4. /\ Trades(o) \subseteq DOMAIN events /\ Bought(o) \subseteq DOMAIN events
      /\ Sold(o) \subseteq DOMAIN events
  BY DEF Trades, Bought, Sold, Published
<1>5. \A t : Seen(About(t, o)) = About(t, o)
  BY <1>2, <1>3 DEF Seen
<1>6. QED
  BY <1>2, <1>4, <1>5 DEF Seen, Placed, PartFills

\* The balances then follow from the trades on the stream.
LEMMA BalancesAreTheTape ==
    ASSUME PlatformInv
    PROVE  BalancesFollowTheTape
<1> SUFFICES ASSUME CaughtUp, NEW o \in Orders
             PROVE  /\ cash[o] + cashHold[o] = InitialCash + Value(Sold(o)) - Value(Bought(o))
                    /\ positions[o].quantity + positions[o].hold =
                          InitialShares + Shares(Bought(o)) - Shares(Sold(o))
  BY DEF BalancesFollowTheTape, Sold
<1>1. OwnsOf(o)
  BY DEF PlatformInv, TablesOf
<1>2. Seen(Bought(o)) = Bought(o) /\ Seen(Sold(o)) = Sold(o)
  BY AllSeen
<1>3. QED
  BY <1>1, <1>2 DEF OwnsOf

\* Whenever the listener has caught up, everybody owns what he began with and
\* what the trades on the stream gave and took.
THEOREM Balances == PlatformSpec => []BalancesFollowTheTape
BY PlatformInvariance, BalancesAreTheTape, PTL

\* An order that nobody accepted does not rest.
LEMMA NotAccepted ==
    ASSUME PlatformInv, CaughtUp, lock = NoOrder, NEW o \in Orders, rows[o] = NoRow
    PROVE  ~Accepted(o) /\ ~InBook(o) /\ cashHold[o] = 0 /\ positions[o].hold = 0
<1>1. TablesOf(o) /\ StreamOf(o) /\ IInv
  BY DEF PlatformInv, EngineInv, StreamInv
<1>2. Placed(o) = {}
  BY <1>1, AllSeen DEF TablesOf, RowOf
<1>3. pc[o] # "returned"
  BY <1>1, <1>2 DEF StreamOf, PlacedOnceAndFirst
<1>4. ~InBook(o)
  BY <1>1, <1>3 DEF InBook, IInv, OnlyOpenLimitOrdersRest
<1>5. QED
  BY <1>1, <1>2, <1>4 DEF Accepted, Placed, TablesOf, HoldsOf

\* An accepted order has a row, which says of it what the engine knows.
LEMMA AcceptedRow ==
    ASSUME PlatformInv, CaughtUp, lock = NoOrder, NEW o \in Orders, rows[o] # NoRow
    PROVE  /\ Accepted(o)
           /\ Tables!IsOpen(o) <=> InBook(o)
           /\ rows[o].side = Side(o) /\ rows[o].type = request[o].type
           /\ rows[o].type = "Limit" => rows[o].limit = request[o].limit
           /\ rows[o].filled = Traded(o)
           /\ InBook(o) => rows[o].remaining = qty[o]
           /\ OnHold(o) = IF InBook(o) THEN qty[o] ELSE 0
<1>1. /\ TablesOf(o) /\ StreamOf(o) /\ SharesOf(o) /\ ReportsOf(o)
      /\ IInv /\ TablesTypeOK /\ events \in Seq(Events) /\ pc[o] \in HandlerStates
  BY DEF PlatformInv, EngineInv, StreamInv, SharesInv, ReportInv, IInv, TypeOK,
         PlatformTypeOK, TablesTypeOK
<1>2. Placed(o) # {} /\ Accepted(o)
  BY <1>1, AllSeen DEF TablesOf, RowOf, Accepted, Placed
<1>3. pc[o] = "returned"
  <2>1. pc[o] \notin {"select", "fill"}
    BY <1>1, RequestsAssumption DEF IInv, MutualExclusion
  <2>2. QED
    BY <1>1, <1>2, <2>1 DEF StreamOf, UnseenBeforePlaced, HandlerStates
<1>4. Final(o) = {} <=> InBook(o)
  BY <1>1, <1>3 DEF StreamOf, FinalWhenOutOfBook
<1>5. /\ rows[o].side = Side(o) /\ rows[o].type = request[o].type
      /\ rows[o].type = "Limit" => rows[o].limit = request[o].limit
      /\ rows[o].quantity = request[o].quantity
      /\ rows[o].remaining = rows[o].quantity - rows[o].filled
  BY <1>1 DEF TablesOf, RowOf
<1>6. /\ rows[o].status = "FILLED" <=> About("OrderFilled", o) # {}
      /\ rows[o].status = "CANCELLED" <=> About("OrderCancelled", o) # {}
      /\ rows[o].filled = IF rows[o].status = "FILLED" THEN rows[o].quantity
                          ELSE Reported(PartFills(o))
  BY <1>1, AllSeen DEF TablesOf, RowOf
<1>7. rows[o].status \in {"PENDING", "PARTIAL", "FILLED", "CANCELLED"}
      /\ rows[o].quantity \in Int
  BY <1>1, ColumnTypes
<1>8. Tables!IsOpen(o) <=> InBook(o)
  BY <1>4, <1>6, <1>7 DEF Tables!IsOpen, Final
<1>9. rows[o].filled = Traded(o)
  <2>1. CASE rows[o].status = "FILLED"
    BY <1>1, <1>5, <1>6, <2>1 DEF SharesOf, FilledTradedAll
  <2>2. CASE rows[o].status # "FILLED"
    BY <1>1, <1>3, <1>6, <2>2 DEF ReportsOf
  <2>3. QED
    BY <2>1, <2>2
<1>10. /\ Traded(o) \in Int /\ Cancelled(o) \in Int
       /\ About("OrderCancelled", o) = {} => Cancelled(o) = 0
  BY <1>1, SumsAreInts
<1>11. qty[o] \in Int
  BY <1>1 DEF IInv, TypeOK
<1>12. InBook(o) => rows[o].quantity - Traded(o) = qty[o]
  <2>1. SUFFICES ASSUME InBook(o) PROVE rows[o].quantity - Traded(o) = qty[o]
    OBVIOUS
  <2>2. Cancelled(o) = 0
    BY <1>4, <1>10, <2>1 DEF Final
  <2>3. request[o].quantity = Traded(o) + Cancelled(o) + qty[o]
    BY <1>1, <1>3, <2>1 DEF SharesOf, SharesAccounted
  <2>4. QED
    BY <1>5, <1>10, <1>11, <2>2, <2>3
<1>13. Shares(Seen(Trades(o))) = Traded(o)
  BY AllSeen DEF Shares, Traded
<1>14. OnHold(o) = IF InBook(o) THEN qty[o] ELSE 0
  <2>1. CASE InBook(o)
    <3>1. rows[o].status # "CANCELLED"
      BY <1>8, <2>1 DEF Tables!IsOpen
    <3>2. QED
      BY <1>12, <1>13, <2>1, <3>1 DEF OnHold
  <2>2. CASE rows[o].status = "CANCELLED"
    <3>1. ~InBook(o)
      BY <1>8, <2>2 DEF Tables!IsOpen
    <3>2. QED
      BY <2>2, <3>1 DEF OnHold
  <2>3. CASE ~InBook(o) /\ rows[o].status # "CANCELLED"
    <3>1. rows[o].status = "FILLED"
      BY <1>7, <1>8, <2>3 DEF Tables!IsOpen
    <3>2. rows[o].quantity - Traded(o) = 0
      BY <1>6, <1>7, <1>9, <3>1
    <3>3. QED
      BY <1>13, <2>3, <3>2 DEF OnHold
  <2>4. QED
    BY <2>1, <2>2, <2>3
<1>15. InBook(o) => rows[o].remaining = qty[o]
  BY <1>5, <1>9, <1>12
<1>16. QED
  BY <1>2, <1>5, <1>8, <1>9, <1>14, <1>15

\* When the listener has caught up and no match is going on, the orders table
\* is the book.
LEMMA TableIsTheBook ==
    ASSUME PlatformInv
    PROVE  OrdersTableTellsTheBook
<1> SUFFICES ASSUME CaughtUp, lock = NoOrder, NEW o \in Orders
             PROVE  /\ rows[o] # NoRow <=> Accepted(o)
                    /\ Tables!IsOpen(o) <=> IsResting(o)
                    /\ IsResting(o) => rows[o].remaining = qty[o]
                    /\ Accepted(o) => rows[o].filled = Traded(o)
  BY DEF OrdersTableTellsTheBook
<1>1. IsResting(o) <=> InBook(o)
  BY DEF IsResting, InBook
<1>2. CASE rows[o] = NoRow
  BY <1>1, <1>2, NotAccepted DEF Tables!IsOpen
<1>3. CASE rows[o] # NoRow
  BY <1>1, <1>3, AcceptedRow
<1>4. QED
  BY <1>2, <1>3

\* The orders table then has the open orders of the book, with what is left of
\* them, and every order with what it traded.
THEOREM OrdersTable == PlatformSpec => []OrdersTableTellsTheBook
BY PlatformInvariance, TableIsTheBook, PTL

\* The holds at such a moment are those of the resting orders.
LEMMA HoldsAreOpenOrders ==
    ASSUME PlatformInv
    PROVE  HoldsMatchOpenOrders
<1> SUFFICES ASSUME CaughtUp, lock = NoOrder, NEW o \in Orders
             PROVE  /\ cashHold[o] = IF Resting(book["Buy"], o)
                                     THEN qty[o] * request[o].limit ELSE 0
                    /\ positions[o].hold = IF Resting(book["Sell"], o) THEN qty[o] ELSE 0
  BY DEF HoldsMatchOpenOrders
<1>1. /\ "Buy" \in Sides /\ "Sell" \in Sides /\ Sides = {"Buy", "Sell"}
  BY DEF Sides
<1>2. CASE rows[o] = NoRow
  BY <1>1, <1>2, NotAccepted DEF InBook
<1>3. CASE rows[o] # NoRow
  <2>1. /\ InBook(o) <=> Resting(book["Buy"], o) \/ Resting(book["Sell"], o)
        /\ Resting(book["Buy"], o) => Side(o) = "Buy" /\ ~IsMarket(o)
        /\ Resting(book["Sell"], o) => Side(o) = "Sell"
    BY <1>1 DEF InBook, PlatformInv, EngineInv, IInv, OnlyOpenLimitOrdersRest
  <2>2. /\ rows[o].side = Side(o) /\ rows[o].type = request[o].type
        /\ rows[o].type = "Limit" => rows[o].limit = request[o].limit
        /\ OnHold(o) = IF InBook(o) THEN qty[o] ELSE 0
    BY <1>3, AcceptedRow
  <2>3. /\ cashHold[o] = IF rows[o].side = "Buy" /\ rows[o].type = "Limit"
                         THEN OnHold(o) * rows[o].limit ELSE 0
        /\ positions[o].hold = IF rows[o].side = "Sell" THEN OnHold(o) ELSE 0
    BY <1>3 DEF PlatformInv, TablesOf, HoldsOf
  <2>4. rows[o].type \in {"Limit", "Market"} /\ rows[o].limit \in Int
    <3>1. TablesTypeOK
      BY DEF PlatformInv, PlatformTypeOK, TablesTypeOK
    <3>2. rows[o] \in Tables!Rows /\ rows[o].limit \in Int
      BY <1>3, <3>1, ColumnTypes
    <3>3. QED
      BY <3>2 DEF Tables!Rows
  <2>5. 0 * rows[o].limit = 0
    BY <2>4
  <2>6. positions[o].hold = IF Resting(book["Sell"], o) THEN qty[o] ELSE 0
    BY <2>1, <2>2, <2>3
  <2>7. CASE Resting(book["Buy"], o)
    <3>1. rows[o].type = "Limit" /\ rows[o].side = "Buy" /\ OnHold(o) = qty[o]
      BY <2>1, <2>2, <2>4, <2>7 DEF IsMarket
    <3>2. QED
      BY <2>2, <2>3, <2>6, <2>7, <3>1, Zenon
  <2>8. CASE ~Resting(book["Buy"], o)
    <3>1. rows[o].side = "Buy" => OnHold(o) = 0
      BY <2>1, <2>2, <2>8
    <3>2. cashHold[o] = 0
      BY <2>3, <2>5, <3>1, Zenon
    <3>3. QED
      BY <2>6, <2>8, <3>2
  <2>9. QED
    BY <2>7, <2>8
<1>4. QED
  BY <1>2, <1>3

\* Nothing stays on hold but what the resting orders need.
THEOREM Holds == PlatformSpec => []HoldsMatchOpenOrders
BY PlatformInvariance, HoldsAreOpenOrders, PTL

-----------------------------------------------------------------------------
(***************************************************************************)
(* What the next event needs is there.                                     *)
(***************************************************************************)
\* A sum of naturals is not less than the sum over some of the indices.
LEMMA SumOfSubset ==
    ASSUME NEW S, IsFiniteSet(S), NEW f, \A y \in S : f[y] \in Int,
           \A y \in S : f[y] >= 0, NEW R \in SUBSET S
    PROVE  SumFunctionOnSet(f, R) <= SumFunctionOnSet(f, S)
<1> DEFINE P(n) == \A Q \in SUBSET S :
                      Cardinality(S \ Q) = n => SumFunctionOnSet(f, Q) <= SumFunctionOnSet(f, S)
           T == {n \in Nat : P(n)}
<1>1. ASSUME NEW Q \in SUBSET S
      PROVE  /\ IsFiniteSet(Q) /\ IsFiniteSet(S \ Q) /\ Cardinality(S \ Q) \in Nat
             /\ SumFunctionOnSet(f, Q) \in Int
  <2>1. IsFiniteSet(Q) /\ IsFiniteSet(S \ Q)
    BY FS_Subset
  <2>2. SumFunctionOnSet(f, Q) \in Int
    BY <2>1, SumIsInt
  <2>3. QED
    BY <2>1, <2>2, FS_CardinalityType
<1>2. 0 \in T
  <2>1. ASSUME NEW Q \in SUBSET S, Cardinality(S \ Q) = 0
        PROVE  SumFunctionOnSet(f, Q) <= SumFunctionOnSet(f, S)
    <3>1. S \ Q = {}
      BY <1>1, <2>1, FS_EmptySet
    <3>2. Q = S
      BY <3>1
    <3>3. SumFunctionOnSet(f, S) \in Int
      BY <1>1
    <3>4. QED
      BY <3>2, <3>3
  <2>2. QED
    BY <2>1
<1>3. ASSUME NEW n \in T PROVE n + 1 \in T
  <2>1. ASSUME NEW Q \in SUBSET S, Cardinality(S \ Q) = n + 1
        PROVE  SumFunctionOnSet(f, Q) <= SumFunctionOnSet(f, S)
    <3>1. n \in Nat /\ P(n)
      BY <1>3
    <3>2. S \ Q # {}
      BY <2>1, <3>1, FS_EmptySet
    <3>3. PICK x \in S \ Q : TRUE
      BY <3>2
    <3> DEFINE U == Q \cup {x}
    <3>4. U \in SUBSET S /\ S \ U = (S \ Q) \ {x} /\ x \notin Q
      BY <3>3
    <3>5. Cardinality(S \ U) = n
      <4>1. Cardinality((S \ Q) \ {x}) = Cardinality(S \ Q) - 1
        BY <1>1, <3>3, FS_RemoveElement
      <4>2. QED
        BY <2>1, <3>1, <3>4, <4>1
    <3>6. U = Q \cup {x}
      OBVIOUS
    <3> HIDE DEF U
    <3>7. SumFunctionOnSet(f, U) <= SumFunctionOnSet(f, S)
      BY <3>1, <3>4, <3>5
    <3>8. f[x] \in Int /\ f[x] >= 0 /\ \A y \in Q : f[y] \in Int
      BY <3>3
    <3>9. SumFunctionOnSet(f, U) = SumFunctionOnSet(f, Q) + f[x]
      <4>1. IsFiniteSet(Q)
        BY <1>1
      <4>2. QED
        BY <3>4, <3>6, <3>8, <4>1, SumOfOneMore
    <3>10. SumFunctionOnSet(f, Q) \in Int /\ SumFunctionOnSet(f, S) \in Int
      BY <1>1
    <3>11. QED
      BY <3>7, <3>8, <3>9, <3>10
  <2>2. n + 1 \in Nat
    BY <1>3
  <2>3. QED
    BY <2>1, <2>2
<1>4. T = Nat
  <2>1. T \in SUBSET Nat
    OBVIOUS
  <2> HIDE DEF T
  <2>2. QED
    BY <1>2, <1>3, <2>1, SetInduction
<1>5. Cardinality(S \ R) \in T
  BY <1>1, <1>4
<1>6. QED
  BY <1>5

\* What the engine says of an order: it trades something each time, a limit buy
\* at its limit or below, no report of a fill or of a cancel is empty, and the
\* partial fills it reports did trade.
AgreedOf(o) ==
    /\ \A i \in Trades(o) : events[i].quantity > 0
    /\ ~IsMarket(o) => \A i \in Bought(o) : events[i].price <= request[o].limit
    /\ \A i \in PartFills(o) : events[i].filled > 0
    /\ \A i \in About("OrderCancelled", o) : events[i].left > 0
    /\ Reported(PartFills(o)) <= Traded(o)

AgreedInv == \A o \in Orders : AgreedOf(o)

\* It stays so while nothing more is said of the order.
LEMMA UntouchedAgreed ==
    ASSUME IInv, StreamInv, NEW x \in Orders, AgreedOf(x), StreamExtends,
           pc[x] # "new" => request'[x] = request[x],
           Trades(x)' = Trades(x), PartFills(x)' = PartFills(x),
           About("OrderCancelled", x)' = About("OrderCancelled", x)
    PROVE  AgreedOf(x)'
<1>1. events \in Seq(Events)
  BY DEF IInv, TypeOK
<1>2. Traded(x)' = Traded(x) /\ Reported(PartFills(x))' = Reported(PartFills(x))
  BY <1>1, TradedFrame, ReportedFrame
<1>3. /\ \A i \in Trades(x) : events'[i] = events[i]
      /\ \A i \in PartFills(x) : events'[i] = events[i]
      /\ \A i \in About("OrderCancelled", x) : events'[i] = events[i]
  BY <1>1, SumTerms, PartFillTerms DEF StreamExtends
<1>4. Bought(x)' = Bought(x)
  BY <1>3 DEF Bought
<1>5. pc[x] = "new" => Bought(x) = {}
  BY UnseenReports DEF Bought
<1>6. ~IsMarket(x)' => \A i \in Bought(x)' : events'[i].price <= request'[x].limit
  <2>1. CASE pc[x] = "new"
    BY <1>4, <1>5, <2>1
  <2>2. CASE pc[x] # "new"
    <3>1. \A i \in Bought(x) : events'[i] = events[i]
      BY <1>3 DEF Bought
    <3>2. QED
      BY <1>4, <2>2, <3>1 DEF AgreedOf, IsMarket
  <2>3. QED
    BY <2>1, <2>2
<1>7. QED
  BY <1>2, <1>3, <1>6 DEF AgreedOf

\* Steps that say nothing of trades, partial fills and cancels.
LEMMA QuietAgreed ==
    ASSUME IInv, StreamInv, AgreedInv, [Next]_vars,
           \/ events' = events
           \/ \E e \in Events : /\ e.type \in {"OrderPlaced", "OrderRejected"}
                                /\ events' = Append(events, e)
    PROVE  AgreedInv'
<1>1. SUFFICES ASSUME NEW x \in Orders PROVE AgreedOf(x)'
  BY DEF AgreedInv
<1>2. StreamExtends /\ (pc[x] # "new" => request'[x] = request[x])
  BY NextExtends
<1>3. /\ Trades(x)' = Trades(x) /\ PartFills(x)' = PartFills(x)
      /\ About("OrderCancelled", x)' = About("OrderCancelled", x)
  <2>1. CASE events' = events
    BY <2>1 DEF Trades, PartFills, About, Published
  <2>2. ASSUME NEW e \in Events, e.type \in {"OrderPlaced", "OrderRejected"},
               events' = Append(events, e)
        PROVE  /\ Trades(x)' = Trades(x) /\ PartFills(x)' = PartFills(x)
               /\ About("OrderCancelled", x)' = About("OrderCancelled", x)
    <3>1. events \in Seq(Events)
      BY DEF IInv, TypeOK
    <3>2. /\ \A t : About(t, x)' = About(t, x) \cup At(Len(events) + 1, Concerns(e, t, x))
          /\ Trades(x)' = Trades(x) \cup At(Len(events) + 1, TradeOf(e, x))
      BY <2>2, <3>1, OneEventMore, Zenon
    <3>3. QED
      BY <2>2, <3>2 DEF Concerns, TradeOf, At, PartFills
  <2>3. QED
    BY <2>1, <2>2
<1>4. AgreedOf(x)
  BY DEF AgreedInv
<1>5. QED
  BY <1>2, <1>3, <1>4, UntouchedAgreed

\* What rests at a price has that limit.
LEMMA MakerLimit ==
    ASSUME IInv, NEW o \in Orders, FillFront(o),
           NEW maker \in Orders, NEW quantity \in Nat \ {0}, Fills(o, maker, quantity)
    PROVE  request[maker].limit = bestPrice
<1> DEFINE side == Opposite(Side(o))
<1>1. side \in Sides /\ bestPrice \in Prices
  BY FillFrontTrades
<1>2. maker = book[side].queue[bestPrice][1] /\ Resting(book[side], maker)
  BY DEF Fills
<1>3. book[side] \in BookSides /\ WellFormed(book[side])
  BY <1>1, BookFacts
<1>4. 1 \in 1..Len(book[side].queue[bestPrice])
  <2>1. book[side].queue[bestPrice] # <<>>
    BY DEF FillFront, MayFill
  <2>2. book[side].queue[bestPrice] \in Seq(Orders)
    BY <1>1, <1>3 DEF BookSides
  <2>3. QED
    BY <2>1, <2>2, LenProperties, EmptySeq
<1>5. book[side].orderToPrice[maker] = bestPrice
  BY <1>1, <1>2, <1>3, <1>4 DEF WellFormed, LookupExact
<1>6. QED
  BY <1>1, <1>2, <1>5 DEF IInv, OnlyOpenLimitOrdersRest

\* A trade is at the buyer's limit or below: the maker's limit is the price of
\* the level, the taker's is not worse.
LEMMA FillFrontAgreed ==
    ASSUME IInv, StreamInv, ReportInv, AgreedInv, NEW o \in Orders, FillFront(o)
    PROVE  AgreedInv'
<1>1. /\ Side(o) \in Sides /\ Opposite(Side(o)) \in Sides
      /\ pc[o] = "fill" /\ bestPrice \in Prices
      /\ \E maker \in Orders, quantity \in Nat \ {0} : Fills(o, maker, quantity)
  BY FillFrontTrades
<1>2. PICK maker \in Orders, quantity \in Nat \ {0} : Fills(o, maker, quantity)
  BY <1>1
<1> DEFINE gone == qty[maker] = quantity
           n == Len(events) + 1
           m == Len(events) + 2
<1>3. /\ request' = request
      /\ request[maker].limit = bestPrice
      /\ Resting(book[Opposite(Side(o))], maker)
  BY <1>2, MakerLimit DEF Fills
<1>4. Side(maker) = Opposite(Side(o)) /\ o # maker
  BY <1>1, <1>2, <1>3 DEF IInv, OnlyOpenLimitOrdersRest, Fills
<1>5. events \in Seq(Events) /\ quantity \in Int /\ quantity > 0
  BY DEF IInv, TypeOK
<1>6. SUFFICES ASSUME NEW x \in Orders PROVE AgreedOf(x)'
  BY DEF AgreedInv
<1>7. /\ StreamExtends
      /\ n \notin DOMAIN events
      /\ events'[n].price = bestPrice /\ events'[n].quantity = quantity
      /\ Trades(x)' = Trades(x) \cup At(n, x \in {o, maker})
      /\ PartFills(x)' = PartFills(x) \cup At(m, x = maker /\ ~gone)
      /\ About("OrderCancelled", x)' = About("OrderCancelled", x)
  BY <1>2, FillsEvents DEF PartFills
<1>8. /\ events'[n].buyer = IF Side(o) = "Buy" THEN o ELSE maker
      /\ m \notin DOMAIN events
      /\ ~gone => events'[m].filled = quantity
  BY <1>2, FillsSay
<1>9. bestPrice \in Int
  BY <1>1, PricesAssumption
<1>10. AgreedOf(x)
  BY DEF AgreedInv
<1>11. /\ \A i \in Trades(x) : events'[i] = events[i]
       /\ \A i \in PartFills(x) : events'[i] = events[i]
       /\ \A i \in About("OrderCancelled", x) : events'[i] = events[i]
  BY <1>5, <1>7, SumTerms, PartFillTerms DEF StreamExtends
<1>12. /\ Traded(x) \in Int /\ Reported(PartFills(x)) \in Int
  BY <1>5, SumsAreInts, ReportedIsInt
<1> HIDE DEF n, m, gone
<1>13. \A i \in Trades(x)' : events'[i].quantity > 0
  BY <1>5, <1>7, <1>10, <1>11 DEF AgreedOf, At
<1>14. \A i \in PartFills(x)' : events'[i].filled > 0
  BY <1>5, <1>7, <1>8, <1>10, <1>11 DEF AgreedOf, At
<1>15. \A i \in About("OrderCancelled", x)' : events'[i].left > 0
  BY <1>7, <1>10, <1>11 DEF AgreedOf
<1>16. ~IsMarket(x)' => \A i \in Bought(x)' : events'[i].price <= request'[x].limit
  <2>1. SUFFICES ASSUME ~IsMarket(x), NEW i \in Bought(x)'
                 PROVE  events'[i].price <= request[x].limit
    BY <1>3 DEF IsMarket
  <2>2. i \in Trades(x)' /\ events'[i].buyer = x
    BY DEF Bought
  <2>3. CASE i \in Trades(x)
    <3>1. i \in Bought(x) /\ events'[i] = events[i]
      BY <1>11, <2>2, <2>3 DEF Bought
    <3>2. QED
      BY <1>10, <2>1, <3>1 DEF AgreedOf
  <2>4. CASE i \notin Trades(x)
    <3>1. i = n /\ x \in {o, maker}
      BY <1>7, <2>2, <2>4 DEF At
    <3>2. x = IF Side(o) = "Buy" THEN o ELSE maker
      BY <1>8, <2>2, <3>1
    <3>3. CASE x = maker
      BY <1>3, <1>7, <1>9, <3>1, <3>3
    <3>4. CASE x = o
      <4>1. Side(o) = "Buy" /\ Opposite(Side(o)) = "Sell"
        BY <1>4, <3>2, <3>4 DEF Opposite
      <4>2. ~Better("Sell", request[o].limit, bestPrice)
        BY <1>1, <2>1, <3>4, <4>1 DEF IInv, FillsAtBestPrice
      <4>3. request[o].limit \in Int
        <5>1. request[o].limit \in Prices
          BY <1>1, <2>1, <3>4, RequestFields
        <5>2. \A p \in Prices : p \in Int
          BY PricesAssumption
        <5>3. QED
          BY <5>1, <5>2
      <4>4. bestPrice <= request[o].limit
        BY <1>9, <4>2, <4>3 DEF Better
      <4>5. QED
        BY <1>7, <3>1, <3>4, <4>4
    <3>5. QED
      BY <3>1, <3>3, <3>4
  <2>5. QED
    BY <2>3, <2>4
<1>17. Reported(PartFills(x))' <= Traded(x)'
  <2>1. CASE x \notin {o, maker}
    <3>1. Trades(x)' = Trades(x) /\ PartFills(x)' = PartFills(x)
      BY <1>7, <2>1 DEF At
    <3>2. Traded(x)' = Traded(x) /\ Reported(PartFills(x))' = Reported(PartFills(x))
      BY <1>5, <1>7, <3>1, TradedFrame, ReportedFrame
    <3>3. QED
      BY <1>10, <3>2 DEF AgreedOf
  <2>2. CASE x \in {o, maker}
    <3>1. Traded(x)' = Traded(x) + quantity
      <4>1. Trades(x)' = Trades(x) \cup {n}
        BY <1>7, <2>2 DEF At
      <4>2. events'[n].quantity \in Int /\ events'[n].price \in Int
        BY <1>5, <1>7, <1>9
      <4>3. Traded(x)' = Traded(x) + events'[n].quantity
        BY <1>5, <1>7, <4>1, <4>2, TradedMore
      <4>4. QED
        BY <1>7, <4>3
    <3>2. CASE x = maker /\ ~gone
      <4>1. PartFills(x)' = PartFills(x) \cup {m}
        BY <1>7, <3>2 DEF At
      <4>2. events'[m].filled \in Int /\ events'[m].filled = quantity
        BY <1>5, <1>8, <3>2
      <4>3. Reported(PartFills(x))' = Reported(PartFills(x)) + events'[m].filled
        BY <1>5, <1>7, <1>8, <4>1, <4>2, ReportedMore
      <4>4. QED
        BY <1>5, <1>10, <1>12, <3>1, <4>2, <4>3 DEF AgreedOf
    <3>3. CASE ~(x = maker /\ ~gone)
      <4>1. PartFills(x)' = PartFills(x)
        BY <1>7, <3>3 DEF At
      <4>2. Reported(PartFills(x))' = Reported(PartFills(x))
        BY <1>5, <1>7, <4>1, ReportedFrame
      <4>3. QED
        BY <1>5, <1>10, <1>12, <3>1, <4>2 DEF AgreedOf
    <3>4. QED
      BY <3>2, <3>3
  <2>3. QED
    BY <2>1, <2>2
<1>18. QED
  BY <1>13, <1>14, <1>15, <1>16, <1>17 DEF AgreedOf

\* The end of a match reports what traded, and cancels what is left.
LEMMA FinishAgreed ==
    ASSUME IInv, StreamInv, SharesInv, ReportInv, AgreedInv, NEW o \in Orders, Finish(o)
    PROVE  AgreedInv'
<1>1. /\ pc[o] = "select" /\ request' = request
  BY DEF Finish
<1>2. /\ remaining \in Nat /\ qty \in [Orders -> Int] /\ events \in Seq(Events)
  BY DEF IInv, TypeOK
<1>3. SUFFICES ASSUME NEW x \in Orders PROVE AgreedOf(x)'
  BY DEF AgreedInv
<1> DEFINE some == remaining > 0 /\ remaining < qty[o]
           cancels == remaining > 0 /\ IsMarket(o)
<1>4. PICK k : /\ k \notin DOMAIN events
               /\ PartFills(x)' = PartFills(x) \cup At(k, x = o /\ some)
               /\ some => events'[k].filled = qty[o] - remaining
  BY FinishPartFills
<1>5. StreamExtends /\ Trades(x)' = Trades(x)
  BY FinishEvents
<1>6. PICK j : /\ About("OrderCancelled", x)' =
                    About("OrderCancelled", x) \cup At(j, x = o /\ cancels)
               /\ cancels => events'[j].left = remaining
  BY FinishEvents
<1>7. ReportsOf(x) /\ SharesOf(x) /\ AgreedOf(x)
  BY DEF ReportInv, SharesInv, AgreedInv
<1>8. CASE x # o
  <2>1. /\ PartFills(x)' = PartFills(x)
        /\ About("OrderCancelled", x)' = About("OrderCancelled", x)
    BY <1>4, <1>6, <1>8 DEF At
  <2>2. QED
    BY <1>1, <1>5, <1>7, <2>1, UntouchedAgreed
<1>9. CASE x = o
  <2>1. PartFills(x) = {} /\ remaining <= qty[x]
    BY <1>1, <1>7, <1>9 DEF ReportsOf
  <2>2. Traded(x)' = Traded(x) /\ Traded(x) \in Int /\ Reported(PartFills(x)) = 0
    BY <1>2, <1>5, <2>1, TradedFrame, SumsAreInts, ReportedIsInt
  <2>3. qty[o] = Traded(x) + remaining
    BY <1>1, <1>7, <1>9 DEF SharesOf, SharesAccounted, QuantityAsSubmitted
  <2>4. /\ \A i \in Trades(x) : events'[i] = events[i]
        /\ \A i \in About("OrderCancelled", x) : events'[i] = events[i]
    BY <1>2, <1>5, SumTerms DEF StreamExtends
  <2>5. \A i \in Trades(x)' : events'[i].quantity > 0
    BY <1>5, <1>7, <2>4 DEF AgreedOf
  <2>6. ~IsMarket(x)' => \A i \in Bought(x)' : events'[i].price <= request'[x].limit
    <3>1. Bought(x)' = Bought(x)
      BY <1>5, <2>4 DEF Bought
    <3>2. \A i \in Bought(x) : events'[i] = events[i]
      BY <2>4 DEF Bought
    <3>3. QED
      BY <1>1, <1>7, <3>1, <3>2 DEF AgreedOf, IsMarket
  <2>7. \A i \in PartFills(x)' : events'[i].filled > 0
    BY <1>2, <1>4, <2>1 DEF At
  <2>8. \A i \in About("OrderCancelled", x)' : events'[i].left > 0
    BY <1>2, <1>6, <1>7, <2>4 DEF AgreedOf, At
  <2>9. Reported(PartFills(x))' <= Traded(x)'
    <3>1. CASE some
      <4>1. PartFills(x)' = PartFills(x) \cup {k}
        BY <1>4, <1>9, <3>1 DEF At
      <4>2. events'[k].filled = Traded(x)
        BY <1>2, <1>4, <2>2, <2>3, <3>1
      <4>3. Reported(PartFills(x))' = Reported(PartFills(x)) + events'[k].filled
        BY <1>2, <1>4, <1>5, <2>2, <4>1, <4>2, ReportedMore
      <4>4. QED
        BY <2>2, <4>2, <4>3
    <3>2. CASE ~some
      <4>1. PartFills(x)' = PartFills(x)
        BY <1>4, <3>2 DEF At
      <4>2. Reported(PartFills(x))' = 0
        BY <1>2, <1>5, <2>2, <4>1, ReportedFrame
      <4>3. QED
        BY <1>2, <1>9, <2>1, <2>2, <2>3, <4>2
    <3>3. QED
      BY <3>1, <3>2
  <2>10. QED
    BY <2>5, <2>6, <2>7, <2>8, <2>9 DEF AgreedOf
<1>10. QED
  BY <1>8, <1>9

\* What is cancelled is what the order still had.
LEMMA CancelAgreed ==
    ASSUME IInv, StreamInv, AgreedInv, NEW o \in Orders, NEW side \in Sides, Cancel(o, side)
    PROVE  AgreedInv'
<1> DEFINE n == Len(events) + 1
<1>1. request' = request /\ Resting(book[side], o)
  BY DEF Cancel
<1>2. qty[o] > 0
  BY <1>1 DEF IInv, OnlyOpenLimitOrdersRest
<1>3. SUFFICES ASSUME NEW x \in Orders PROVE AgreedOf(x)'
  BY DEF AgreedInv
<1>4. /\ StreamExtends /\ events'[n].left = qty[o]
      /\ Trades(x)' = Trades(x) /\ PartFills(x)' = PartFills(x)
      /\ About("OrderCancelled", x)' = About("OrderCancelled", x) \cup At(n, x = o)
  BY CancelEvents DEF PartFills
<1> HIDE DEF n
<1>5. AgreedOf(x) /\ events \in Seq(Events)
  BY DEF AgreedInv, IInv, TypeOK
<1>6. Traded(x)' = Traded(x) /\ Reported(PartFills(x))' = Reported(PartFills(x))
  BY <1>4, <1>5, TradedFrame, ReportedFrame
<1>7. /\ \A i \in Trades(x) : events'[i] = events[i]
      /\ \A i \in PartFills(x) : events'[i] = events[i]
      /\ \A i \in About("OrderCancelled", x) : events'[i] = events[i]
  BY <1>4, <1>5, SumTerms, PartFillTerms DEF StreamExtends
<1>8. Bought(x)' = Bought(x) /\ \A i \in Bought(x) : events'[i] = events[i]
  BY <1>4, <1>7 DEF Bought
<1>9. \A i \in About("OrderCancelled", x)' : events'[i].left > 0
  BY <1>2, <1>4, <1>5, <1>7 DEF AgreedOf, At
<1>10. QED
  BY <1>1, <1>4, <1>5, <1>6, <1>7, <1>8, <1>9 DEF AgreedOf, IsMarket

\* Nothing is said at the beginning.
LEMMA InitAgreed == Init => AgreedInv
<1> SUFFICES ASSUME Init, NEW o \in Orders PROVE AgreedOf(o)
  BY DEF AgreedInv
<1>1. events = <<>>
  BY DEF Init
<1>2. Trades(o) = {} /\ PartFills(o) = {} /\ About("OrderCancelled", o) = {} /\ Bought(o) = {}
  BY <1>1 DEF Trades, PartFills, About, Published, Bought
<1>3. events \in Seq(Events)
  BY <1>1
<1>4. Traded(o) = 0 /\ Reported(PartFills(o)) = 0
  BY <1>2, <1>3, SumsAreInts, ReportedIsInt
<1>5. QED
  BY <1>2, <1>4 DEF AgreedOf

\* Every step of the engine keeps what it says agreed.
LEMMA NextAgreed ==
    ASSUME EngineInv, AgreedInv, [Next]_vars
    PROVE  AgreedInv'
<1>1. IInv /\ StreamInv /\ SharesInv /\ ReportInv
  BY DEF EngineInv
<1>2. ASSUME NEW o \in Orders, NEW r \in Requests, Submit(o, r) \/ Reject(o, r)
      PROVE  AgreedInv'
  <2>1. events' \in {events, Append(events, RejectedEvent(o, r))}
    BY <1>2 DEF Submit, Reject
  <2>2. RejectedEvent(o, r) \in Events /\ RejectedEvent(o, r).type = "OrderRejected"
    BY DEF RejectedEvent, Events
  <2>3. QED
    BY <1>1, <2>1, <2>2, QuietAgreed
<1>3. ASSUME NEW o \in Orders, Accept(o) PROVE AgreedInv'
  <2>1. events' = Append(events, PlacedEvent(o))
    BY <1>3 DEF Accept
  <2>2. PlacedEvent(o) \in Events /\ PlacedEvent(o).type = "OrderPlaced"
    BY DEF PlacedEvent, Events
  <2>3. QED
    BY <1>1, <2>1, <2>2, QuietAgreed
<1>4. ASSUME \/ \E o \in Orders : SelectLevel(o) \/ LeaveLevel(o)
             \/ UNCHANGED vars
      PROVE  AgreedInv'
  <2>1. events' = events
    BY <1>4 DEF SelectLevel, LeaveLevel, vars
  <2>2. QED
    BY <1>1, <2>1, QuietAgreed
<1>5. QED
  BY <1>1, <1>2, <1>3, <1>4, FillFrontAgreed, FinishAgreed, CancelAgreed DEF Next

\* A sum of naturals is not less than what some of its terms, and one more, add
\* up to.
LEMMA NextIsWithin ==
    ASSUME NEW S, IsFiniteSet(S), NEW f, \A y \in S : f[y] \in Int,
           \A y \in S : f[y] >= 0, NEW R \in SUBSET S, NEW n \in S, n \notin R,
           NEW g, \A y \in R : g[y] = f[y]
    PROVE  SumFunctionOnSet(g, R) + f[n] <= SumFunctionOnSet(f, S)
<1> DEFINE U == R \cup {n}
<1>1. U = R \cup {n} /\ U \in SUBSET S
  OBVIOUS
<1> HIDE DEF U
<1>2. IsFiniteSet(R)
  BY FS_Subset
<1>3. f[n] \in Int /\ (\A y \in R : g[y] \in Int) /\ (\A y \in R : f[y] = g[y])
  OBVIOUS
<1>4. SumFunctionOnSet(f, U) = SumFunctionOnSet(g, R) + f[n]
  BY <1>1, <1>2, <1>3, SumOfOneMore
<1>5. SumFunctionOnSet(f, U) <= SumFunctionOnSet(f, S)
  BY <1>1, SumOfSubset
<1>6. QED
  BY <1>4, <1>5

\* An event that is due is not among those that were settled.
LEMMA DueIsUnseen ==
    ASSUME events \in Seq(Events), NEW n, NEW e, Due(n, e), NEW S
    PROVE  Seen(S) \in SUBSET S /\ n \notin Seen(S)
<1>1. n \in Int /\ consumed = n - 1
  BY LenProperties DEF Due
<1>2. QED
  BY <1>1 DEF Seen

\* What an order traded and spent has room for the trade that is due.
LEMMA TradesWithin ==
    ASSUME events \in Seq(Events), NEW n, NEW e, Due(n, e), NEW o, n \in Trades(o),
           AgreedOf(o)
    PROVE  /\ e.quantity \in Int /\ e.quantity > 0 /\ e.price \in Nat
           /\ Shares(Seen(Trades(o))) + e.quantity <= Traded(o)
           /\ Value(Seen(Trades(o))) + e.price * e.quantity <= Spent(o)
<1> DEFINE S == Trades(o)
           R == Seen(Trades(o))
           v(i) == events[i].price * events[i].quantity
           f == [i \in S |-> events[i].quantity]
           g == [i \in R |-> events[i].quantity]
           c == [i \in S |-> v(i)]
           d == [i \in R |-> v(i)]
<1>1. /\ Traded(o) = SumFunctionOnSet(f, S) /\ Shares(R) = SumFunctionOnSet(g, R)
      /\ Spent(o) = SumFunctionOnSet(c, S) /\ Value(R) = SumFunctionOnSet(d, R)
  BY DEF Traded, Shares, Spent, Value, SumFunction
<1>2. /\ IsFiniteSet(S) /\ R \in SUBSET S /\ n \in S /\ n \notin R /\ e = events[n]
  BY SumTerms, DueIsUnseen DEF Due
<1>3. /\ \A i \in S : events[i].quantity \in Int /\ events[i].price \in Nat
      /\ \A i \in S : events[i].quantity > 0
  BY SumTerms DEF AgreedOf
<1>4. \A i \in S : v(i) \in Int /\ v(i) >= 0
  <2>1. \A a \in Nat, b \in Int : b > 0 => a * b \in Int /\ a * b >= 0
    OBVIOUS
  <2>2. QED
    BY <1>3, <2>1
<1>5. v(n) = e.price * e.quantity
  BY <1>2
<1> HIDE DEF S, R, v
<1>6. /\ (\A i \in S : f[i] \in Int) /\ (\A i \in S : f[i] >= 0)
      /\ (\A i \in R : g[i] = f[i]) /\ f[n] = e.quantity
  BY <1>2, <1>3
<1>7. /\ (\A i \in S : c[i] \in Int) /\ (\A i \in S : c[i] >= 0)
      /\ (\A i \in R : d[i] = c[i]) /\ c[n] = e.price * e.quantity
  BY <1>2, <1>4, <1>5
<1> HIDE DEF f, g, c, d
<1>8. SumFunctionOnSet(g, R) + f[n] <= SumFunctionOnSet(f, S)
  BY <1>2, <1>6, NextIsWithin
<1>9. SumFunctionOnSet(d, R) + c[n] <= SumFunctionOnSet(c, S)
  BY <1>2, <1>7, NextIsWithin
<1>10. /\ Shares(R) + e.quantity <= Traded(o)
       /\ Value(R) + e.price * e.quantity <= Spent(o)
  BY <1>1, <1>6, <1>7, <1>8, <1>9
<1>11. QED
  BY <1>2, <1>3, <1>10 DEF R

\* What is reported of an order has room for the partial fill that is due.
LEMMA ReportsWithin ==
    ASSUME events \in Seq(Events), NEW n, NEW e, Due(n, e), NEW o, n \in PartFills(o),
           AgreedOf(o)
    PROVE  /\ e.filled \in Int
           /\ Reported(Seen(PartFills(o))) + e.filled <= Reported(PartFills(o))
<1> DEFINE S == PartFills(o)
           R == Seen(PartFills(o))
           f == [i \in S |-> events[i].filled]
           g == [i \in R |-> events[i].filled]
<1>1. Reported(S) = SumFunctionOnSet(f, S) /\ Reported(R) = SumFunctionOnSet(g, R)
  BY DEF Reported, SumFunction
<1>2. /\ IsFiniteSet(S) /\ R \in SUBSET S /\ n \in S /\ n \notin R /\ e = events[n]
  BY PartFillTerms, DueIsUnseen DEF Due
<1>3. (\A i \in S : events[i].filled \in Int) /\ (\A i \in S : events[i].filled > 0)
  BY PartFillTerms DEF AgreedOf
<1> HIDE DEF S, R
<1>4. /\ (\A i \in S : f[i] \in Int) /\ (\A i \in S : f[i] >= 0)
      /\ (\A i \in R : g[i] = f[i]) /\ f[n] = e.filled
  BY <1>2, <1>3
<1> HIDE DEF f, g
<1>5. SumFunctionOnSet(g, R) + f[n] <= SumFunctionOnSet(f, S)
  BY <1>2, <1>4, NextIsWithin
<1>6. QED
  BY <1>1, <1>2, <1>3, <1>4, <1>5 DEF S, R

\* No order trades more than it asks for.
LEMMA TradedWithin ==
    ASSUME EngineInv, NEW o \in Orders, AgreedOf(o), pc[o] \in {"select", "fill", "returned"}
    PROVE  Traded(o) <= request[o].quantity
<1>1. /\ events \in Seq(Events) /\ SharesAccounted(o)
      /\ remaining \in Nat /\ qty[o] \in Int
  BY DEF EngineInv, SharesInv, SharesOf, IInv, TypeOK
<1>2. Traded(o) \in Int /\ Cancelled(o) \in Int
  BY <1>1, SumsAreInts
<1>3. Cancelled(o) >= 0
  <2> DEFINE S == About("OrderCancelled", o)
             f == [i \in S |-> events[i].left]
  <2>1. Cancelled(o) = SumFunctionOnSet(f, S)
    BY DEF Cancelled, SumFunction
  <2>2. /\ IsFiniteSet(S) /\ (\A i \in S : f[i] \in Int) /\ (\A i \in S : f[i] >= 0)
    BY <1>1, SumTerms DEF AgreedOf
  <2> HIDE DEF f, S
  <2>3. {} \in SUBSET S
    OBVIOUS
  <2>4. SumFunctionOnSet(f, {}) <= SumFunctionOnSet(f, S)
    BY <2>2, <2>3, SumOfSubset
  <2>5. QED
    BY <2>1, <2>4, SumOfNone
<1>4. InBook(o) => qty[o] > 0
  BY DEF EngineInv, IInv, OnlyOpenLimitOrdersRest, InBook
<1>5. CASE pc[o] \in {"select", "fill"}
  BY <1>1, <1>2, <1>5 DEF SharesAccounted
<1>6. CASE pc[o] = "returned"
  <2>1. CASE InBook(o)
    BY <1>1, <1>2, <1>3, <1>4, <1>6, <2>1 DEF SharesAccounted
  <2>2. CASE ~InBook(o)
    BY <1>1, <1>2, <1>3, <1>6, <2>2 DEF SharesAccounted
  <2>3. QED
    BY <2>1, <2>2
<1>7. QED
  BY <1>5, <1>6

\* An order that is placed finds its trader with what he began with.
LEMMA PlacedCovered ==
    ASSUME PlatformInv, NEW n, NEW e \in Events, Due(n, e), e.type = "OrderPlaced"
    PROVE  IsCovered(Decoded(e))
<1> DEFINE o == e.order
           r == request[o]
<1>1. /\ o \in Orders /\ r \in Requests /\ Valid(r)
      /\ Seen(Trades(o)) = {} /\ rows[o] = NoRow
      /\ cashHold[o] = 0 /\ positions[o].hold = 0
  BY NewRow
<1>2. Decoded(e) = [type |-> "OrderPlaced", order |-> o, trader |-> o,
                    orderType |-> r.type, side |-> r.side,
                    quantity |-> r.quantity, limit |-> r.limit]
  BY <1>1, DecodedPlaced
<1>3. OwnsOf(o) /\ TablesTypeOK
  BY <1>1 DEF PlatformInv, TablesOf, PlatformTypeOK, TablesTypeOK
<1>4. cash[o] \in Int /\ positions[o].quantity \in Int
  BY <1>1, <1>3, ColumnTypes
<1>5. Seen(Bought(o)) = {} /\ Seen(Sold(o)) = {}
  BY <1>1 DEF Seen, Bought, Sold
<1>6. Shares({}) = 0 /\ Value({}) = 0
  BY SumOfNone DEF Shares, Value, SumFunction
<1>7. cash[o] = InitialCash /\ positions[o].quantity = InitialShares
  BY <1>1, <1>3, <1>4, <1>5, <1>6, PlatformAssumption DEF OwnsOf
<1>8. r.quantity \in Int /\ r.limit \in Int /\ r.side \in {"Buy", "Sell"}
  BY <1>1, RequestColumns
<1>9. IF r.side = "Sell" THEN r.quantity <= InitialShares
      ELSE r.type = "Limit" => r.quantity * r.limit <= InitialCash
  BY <1>1, CoverAssumption
<1>10. IF r.side = "Sell" THEN positions[o].quantity >= r.quantity
       ELSE r.type = "Limit" => cash[o] >= r.quantity * r.limit
  <2>1. \A a, b \in Int : a * b \in Int
    OBVIOUS
  <2> DEFINE p == r.quantity * r.limit
  <2>2. p \in Int
    BY <1>8, <2>1
  <2>3. IF r.side = "Sell" THEN r.quantity <= InitialShares ELSE r.type = "Limit" => p <= InitialCash
    BY <1>9
  <2> HIDE DEF p
  <2>4. IF r.side = "Sell" THEN positions[o].quantity >= r.quantity
        ELSE r.type = "Limit" => cash[o] >= p
    BY <1>7, <1>8, <2>2, <2>3, PlatformAssumption
  <2>5. QED
    BY <2>4 DEF p
<1> HIDE DEF o, r
<1>11. QED
  BY <1>1, <1>2, <1>10 DEF IsCovered

\* A partial fill is not more than what remains.
LEMMA PartFillCovered ==
    ASSUME PlatformInv, AgreedInv, NEW n, NEW e \in Events, Due(n, e),
           e.type = "OrderPartiallyFilled"
    PROVE  IsCovered(Decoded(e))
<1> DEFINE o == e.order
<1>1. o \in Orders /\ EngineInv /\ AgreedOf(o) /\ events \in Seq(Events)
  BY DEF Events, PlatformInv, AgreedInv, EngineInv, IInv, TypeOK
<1>2. n \in PartFills(o) /\ n \in Executions(o)
  BY DEF Due, PartFills, Executions, About, Published
<1>3. /\ pc[o] \in {"select", "fill", "returned"} /\ Tables!IsOpen(o)
      /\ rows[o].quantity = request[o].quantity /\ rows[o] # NoRow
      /\ rows[o].filled = Reported(Seen(PartFills(o)))
      /\ rows[o].remaining = rows[o].quantity - rows[o].filled
  BY <1>1, <1>2, OpenRow
<1>4. e.filled \in Int /\ Reported(Seen(PartFills(o))) + e.filled <= Reported(PartFills(o))
  BY <1>1, <1>2, ReportsWithin
<1>5. Reported(PartFills(o)) <= Traded(o) /\ Traded(o) <= request[o].quantity
  BY <1>1, <1>3, TradedWithin DEF AgreedOf
<1>6. /\ Traded(o) \in Int /\ Reported(PartFills(o)) \in Int
      /\ rows[o].quantity \in Int /\ rows[o].filled \in Int
  <2>1. TablesTypeOK
    BY DEF PlatformInv, PlatformTypeOK, TablesTypeOK
  <2>2. QED
    BY <1>1, <1>3, <2>1, SumsAreInts, ReportedIsInt, ColumnTypes
<1>7. rows[o].remaining >= e.filled
  BY <1>3, <1>4, <1>5, <1>6
<1>8. Decoded(e) = [type |-> "OrderPartiallyFilled", order |-> o, filled |-> e.filled]
  BY DecodedPartiallyFilled
<1> HIDE DEF o
<1>9. QED
  BY <1>3, <1>7, <1>8 DEF IsCovered

\* An order that is filled is open until then.
LEMMA FilledCovered ==
    ASSUME PlatformInv, NEW n, NEW e \in Events, Due(n, e), e.type = "OrderFilled"
    PROVE  IsCovered(Decoded(e))
<1>1. e.order \in Orders /\ n \in Final(e.order)
  BY DEF Events, Due, Final, About, Published
<1>2. Tables!IsOpen(e.order)
  BY <1>1, OpenRow
<1>3. Decoded(e) = [type |-> "OrderFilled", order |-> e.order]
  BY DecodedFilled
<1>4. QED
  BY <1>2, <1>3 DEF IsCovered

\* The hold of an order that is cancelled is what its row says remains.
LEMMA CancelledCovered ==
    ASSUME PlatformInv, NEW n, NEW e \in Events, Due(n, e), e.type = "OrderCancelled"
    PROVE  IsCovered(Decoded(e))
<1> DEFINE o == e.order
<1>1. o \in Orders /\ n \in About("OrderCancelled", o) /\ n \in Final(o)
  BY DEF Events, Due, Final, About, Published
<1>2. /\ request[o] \in Requests /\ Valid(request[o])
      /\ rows[o] # NoRow /\ Tables!IsOpen(o) /\ rows[o].trader = o
      /\ rows[o].type = request[o].type /\ rows[o].side = Side(o)
  BY <1>1, OpenRow
<1>3. rows[o].remaining = OnHold(o)
  BY <1>1, HoldCancelled
<1>4. request[o].side \in {"Buy", "Sell"}
  BY <1>2, RequestColumns
<1>5. HoldsOf(o)
  BY <1>1 DEF PlatformInv, TablesOf
<1>6. IF request[o].side = "Sell" THEN positions[o].hold = rows[o].remaining
      ELSE request[o].type = "Limit" => cashHold[o] = rows[o].remaining * rows[o].limit
  <2>1. CASE request[o].side = "Sell"
    BY <1>2, <1>3, <1>5, <2>1, Zenon DEF HoldsOf, Side
  <2>2. CASE request[o].side = "Buy"
    <3>1. ASSUME request[o].type = "Limit"
          PROVE  cashHold[o] = rows[o].remaining * rows[o].limit
      BY <1>2, <1>3, <1>5, <2>2, <3>1, Zenon DEF HoldsOf, Side
    <3>2. QED
      BY <2>2, <3>1
  <2>3. QED
    BY <1>4, <2>1, <2>2
<1>7. Decoded(e) = [type |-> "OrderCancelled", order |-> o,
                    orderType |-> request[o].type, side |-> request[o].side]
  BY <1>2, DecodedCancelled
<1> HIDE DEF o
<1>8. QED
  BY <1>2, <1>6, <1>7 DEF IsCovered

\* An order of a trade that is due has on hold, or left, the shares of the trade.
LEMMA HoldLeft ==
    ASSUME PlatformInv, AgreedInv, NEW n, NEW e \in Events, Due(n, e), NEW o \in Orders,
           n \in Trades(o)
    PROVE  /\ e.quantity \in Int /\ e.quantity > 0 /\ e.price \in Nat
           /\ OnHold(o) \in Int /\ OnHold(o) >= e.quantity
<1>1. EngineInv /\ AgreedOf(o) /\ events \in Seq(Events) /\ TablesTypeOK
  BY DEF PlatformInv, AgreedInv, EngineInv, IInv, TypeOK, PlatformTypeOK, TablesTypeOK
<1>2. n \in Executions(o)
  BY DEF Executions
<1>3. /\ pc[o] \in {"select", "fill", "returned"} /\ Tables!IsOpen(o)
      /\ rows[o].quantity = request[o].quantity /\ rows[o] # NoRow
  BY <1>2, OpenRow
<1>4. /\ e.quantity \in Int /\ e.quantity > 0 /\ e.price \in Nat
      /\ Shares(Seen(Trades(o))) + e.quantity <= Traded(o)
  BY <1>1, TradesWithin
<1>5. Traded(o) <= request[o].quantity
  BY <1>1, <1>3, TradedWithin
<1>6. OnHold(o) = rows[o].quantity - Shares(Seen(Trades(o)))
  BY <1>3 DEF OnHold, Tables!IsOpen
<1>7. Traded(o) \in Int /\ Shares(Seen(Trades(o))) \in Int /\ rows[o].quantity \in Int
  BY <1>1, <1>3, SumsAreInts, SeenSumsAreInts, ColumnTypes
<1>8. QED
  BY <1>3, <1>4, <1>5, <1>6, <1>7

\* A product with a larger factor.
LEMMA LargerProducts ==
    \A a, b, c \in Int : a >= 0 /\ b <= c => a * b \in Int /\ a * b <= a * c
<1>1. TAKE a, b, c \in Int
<1>2. HAVE a >= 0 /\ b <= c
<1>3. a * (c - b) >= 0 /\ a * (c - b) = a * c - a * b
  BY <1>2
<1>4. a * b \in Int /\ a * c \in Int
  OBVIOUS
<1> DEFINE p == a * b
           q == a * c
           d == a * (c - b)
<1>5. p \in Int /\ q \in Int /\ d >= 0 /\ d = q - p
  BY <1>3, <1>4
<1> HIDE DEF p, q, d
<1>6. p <= q
  BY <1>5
<1>7. QED
  BY <1>4, <1>6 DEF p, q

\* A limit buyer's hold is enough at its limit, and its limit for the price.
LEMMA LimitBuyCovered ==
    ASSUME PlatformInv, AgreedInv, NEW n, NEW e \in Events, Due(n, e),
           e.type = "TradeExecuted", request[e.buyer].type = "Limit"
    PROVE  /\ cashHold[e.buyer] >= e.quantity * rows[e.buyer].limit
           /\ e.quantity * rows[e.buyer].limit >= e.price * e.quantity
<1> DEFINE o == e.buyer
           k == e.quantity
           l == request[o].limit
           h == OnHold(o)
<1>1. /\ o \in Orders /\ n \in Trades(o)
      /\ request[o] \in Requests /\ Valid(request[o])
      /\ rows[o] # NoRow
      /\ rows[o].type = request[o].type /\ rows[o].side = "Buy"
      /\ rows[o].type = "Limit" => rows[o].limit = request[o].limit
  BY TradeRows
<1>2. /\ k \in Int /\ k > 0 /\ e.price \in Nat
      /\ h \in Int /\ h >= k
  BY <1>1, HoldLeft
<1>3. l \in Int /\ l > 0
  BY <1>1, RequestColumns DEF Valid
<1>4. n \in Bought(o) /\ e = events[n]
  BY <1>1 DEF Bought, Due
<1>5. e.price <= l
  BY <1>1, <1>4 DEF AgreedInv, AgreedOf, IsMarket
<1>6. rows[o].limit = l
  BY <1>1
<1>7. HoldsOf(o)
  BY <1>1 DEF PlatformInv, TablesOf
<1>8. cashHold[o] = h * l
  BY <1>1, <1>6, <1>7, Zenon DEF HoldsOf
<1> HIDE DEF h, k, l
<1>9. h * l >= k * l
  <2>1. l * k <= l * h
    BY <1>2, <1>3, LargerProducts
  <2>2. QED
    BY <1>2, <1>3, <2>1
<1>10. k * l >= e.price * k
  <2>1. e.price \in Int /\ k >= 0
    BY <1>2
  <2>2. k * e.price <= k * l
    BY <1>2, <1>3, <1>5, <2>1, LargerProducts
  <2>3. QED
    BY <1>2, <1>3, <2>1, <2>2
<1>11. QED
  BY <1>6, <1>8, <1>9, <1>10 DEF k

\* A market buyer has, of the balance it came with, what the engine has it
\* spend.
LEMMA MarketBuyCovered ==
    ASSUME PlatformInv, AgreedInv, NEW n, NEW e \in Events, Due(n, e),
           e.type = "TradeExecuted", request[e.buyer].type = "Market"
    PROVE  cash[e.buyer] >= e.price * e.quantity
<1> DEFINE o == e.buyer
           r == request[o]
           total == e.price * e.quantity
           S == Seen(Trades(o))
<1>1. /\ o \in Orders /\ n \in Trades(o)
      /\ r \in Requests /\ Valid(r)
      /\ rows[o] # NoRow
      /\ rows[o].type = r.type /\ rows[o].side = "Buy"
      /\ pc[o] \in {"select", "fill", "returned"}
  BY TradeRows
<1>2. /\ EngineInv /\ AgreedOf(o) /\ events \in Seq(Events) /\ TablesTypeOK
      /\ HoldsOf(o) /\ OwnsOf(o) /\ RowOf(o)
  BY <1>1 DEF PlatformInv, AgreedInv, EngineInv, IInv, TypeOK, PlatformTypeOK,
              TablesTypeOK, TablesOf
<1>3. IsMarketBuy(o) /\ Side(o) = "Buy" /\ r.side = "Buy"
  BY <1>1, <1>2 DEF IsMarketBuy, IsMarket, Side, RowOf
<1>4. /\ e.quantity \in Int /\ e.quantity > 0 /\ e.price \in Nat
      /\ Value(S) + total <= Spent(o)
  BY <1>1, <1>2, TradesWithin
<1>5. total \in Int /\ Spent(o) \in Int /\ r.balance \in Int
  <2>1. \A a, b \in Int : a * b \in Int
    OBVIOUS
  <2>2. e.price \in Int
    BY <1>4
  <2>3. r \in RequestType
    BY <1>1, RequestsAssumption
  <2>4. QED
    BY <1>2, <1>4, <2>1, <2>2, <2>3, SumsAreInts DEF RequestType
<1>6. Spent(o) <= r.balance
  <2>1. CashAccounted(o) /\ Trades(o) # {} /\ balance \in Int
    BY <1>1, <1>2 DEF EngineInv, SharesInv, SharesOf, IInv, TypeOK
  <2>2. CASE pc[o] \in {"select", "fill"}
    BY <1>3, <1>5, <2>1, <2>2 DEF CashAccounted
  <2>3. CASE pc[o] = "returned"
    BY <1>3, <2>1, <2>3 DEF CashAccounted
  <2>4. QED
    BY <1>1, <2>2, <2>3
<1>7. r.balance <= InitialCash
  <2>1. r.side # "Sell" /\ r.type # "Limit"
    BY <1>3
  <2>2. QED
    BY <1>1, <2>1, CoverAssumption
<1>8. Seen(Bought(o)) = S /\ Seen(Sold(o)) = {}
  <2>1. TradesOnItsSide(o)
    BY <1>1, <1>2 DEF EngineInv, ReportInv
  <2>2. Bought(o) = Trades(o) /\ Sold(o) = {}
    BY <1>3, <2>1 DEF TradesOnItsSide, Bought, Sold
  <2>3. QED
    BY <2>2 DEF Seen
<1>9. cashHold[o] = 0
  <2>1. rows[o].type # "Limit"
    BY <1>1
  <2>2. QED
    BY <1>1, <1>2, <2>1 DEF HoldsOf
<1>10. cash[o] \in Int /\ Value(S) \in Int
  BY <1>1, <1>2, <1>8, ColumnTypes, SeenSumsAreInts
<1>11. cash[o] + cashHold[o] = InitialCash + Value({}) - Value(S)
  BY <1>2, <1>8 DEF OwnsOf
<1>12. Value({}) = 0
  BY SumOfNone DEF Value, SumFunction
<1> HIDE DEF total, S
<1>13. cash[o] = InitialCash - Value(S)
  BY <1>9, <1>10, <1>11, <1>12, PlatformAssumption
<1>14. cash[o] >= total
  BY <1>4, <1>5, <1>6, <1>7, <1>10, <1>13, PlatformAssumption
<1>15. QED
  BY <1>14 DEF total

\* Both sides of a trade have what they give.
LEMMA TradeCovered ==
    ASSUME PlatformInv, AgreedInv, NEW n, NEW e \in Events, Due(n, e),
           e.type = "TradeExecuted"
    PROVE  IsCovered(Decoded(e))
<1> DEFINE buyer == e.buyer
           seller == e.seller
           total == e.price * e.quantity
<1>1. /\ buyer \in Orders /\ seller \in Orders /\ n \in Trades(seller)
      /\ request[buyer] \in Requests /\ Valid(request[buyer])
      /\ Tables!IsOpen(buyer) /\ Tables!IsOpen(seller)
      /\ rows[seller] # NoRow /\ rows[seller].side = "Sell"
  BY TradeRows
<1>2. Decoded(e) = [type |-> "TradeExecuted", buyer |-> buyer, seller |-> seller,
                    buyerType |-> request[buyer].type,
                    buyerTrader |-> buyer, sellerTrader |-> seller,
                    quantity |-> e.quantity, price |-> e.price, total |-> total]
  BY <1>1, DecodedTrade
<1>3. positions[seller].hold >= e.quantity
  <2>1. OnHold(seller) >= e.quantity
    BY <1>1, HoldLeft
  <2>2. HoldsOf(seller)
    BY <1>1 DEF PlatformInv, TablesOf
  <2>3. QED
    BY <1>1, <2>1, <2>2 DEF HoldsOf
<1>4. request[buyer].type \in {"Limit", "Market"}
  BY <1>1, RequestColumns
<1>5. request[buyer].type = "Market" => cash[buyer] >= total
  BY MarketBuyCovered
<1>6. request[buyer].type = "Limit" =>
         /\ cashHold[buyer] >= e.quantity * rows[buyer].limit
         /\ e.quantity * rows[buyer].limit >= total
  BY LimitBuyCovered
<1> HIDE DEF buyer, seller, total
<1>7. QED
  BY <1>1, <1>2, <1>3, <1>4, <1>5, <1>6 DEF IsCovered

\* Whichever event is the next, what its statement takes is there.
LEMMA NextCovered ==
    ASSUME PlatformInv, AgreedInv
    PROVE  NextEventIsCovered
<1> SUFFICES ASSUME consumed < Len(events) PROVE IsCovered(NextEvent)
  BY DEF NextEventIsCovered
<1> DEFINE n == consumed + 1
           e == events[n]
<1>1. /\ events \in Seq(Events) /\ EngineInv /\ consumed \in 0..Len(events)
      /\ NextEvent = Decoded(e)
  BY DEF PlatformInv, PlatformTypeOK, EngineInv, IInv, TypeOK, Decoded, NextEvent
<1>2. n \in DOMAIN events /\ n \in 1..Len(events) /\ consumed = n - 1
  BY <1>1, LenProperties
<1>3. e \in Events /\ Due(n, e)
  BY <1>1, <1>2, ElementOfSeq DEF Due
<1>4. /\ Decoded(e).type = e.type
      /\ e.type \in {"OrderPlaced", "OrderCancelled", "OrderFilled",
                     "OrderPartiallyFilled", "OrderRejected", "TradeExecuted"}
  BY <1>1, <1>2, <1>3, DecodedAsPublished, DecodedType
<1> HIDE DEF n, e
<1>5. CASE e.type = "OrderRejected"
  BY <1>1, <1>4, <1>5 DEF IsCovered
<1>6. CASE e.type # "OrderRejected"
  BY <1>1, <1>3, <1>4, <1>6, PlacedCovered, TradeCovered, PartFillCovered,
     FilledCovered, CancelledCovered
<1>7. QED
  BY <1>5, <1>6

\* What the engine says agrees, whatever the listener does.
LEMMA PlatformAgreed ==
    PlatformInv /\ AgreedInv /\ [PlatformNext]_platformVars => AgreedInv'
<1>1. [PlatformNext]_platformVars => [Next]_vars
  BY DEF PlatformNext, Trade, Consume, platformVars
<1>2. QED
  BY <1>1, NextAgreed DEF PlatformInv

\* It holds all the time: it starts so, and every step of either side keeps it.
LEMMA AgreedInvariance == PlatformSpec => []AgreedInv
<1>1. PlatformInit => AgreedInv
  BY InitAgreed DEF PlatformInit
<1>2. QED
  BY <1>1, PlatformAgreed, PlatformInvariance, PTL DEF PlatformSpec

\* However far the listener is behind the engine, the rows, holds and balances
\* that the next statement takes from are there: no CHECK refuses it.
THEOREM EventsAreCovered == PlatformSpec => []NextEventIsCovered
BY PlatformInvariance, AgreedInvariance, NextCovered, PTL
-----------------------------------------------------------------------------
(***************************************************************************)
(* The statement of the next event commits.  ENABLED is out of the         *)
(* prover's reach, so the tables that the statement leaves are written     *)
(* down, column by column, as functions of the tables it finds; a step     *)
(* that leaves them so is a step of the listener.                          *)
(***************************************************************************)
BuysAtLimit(e) == e.side = "Buy" /\ e.orderType = "Limit"

RowsAfter(e) ==
    CASE e.type = "OrderPlaced" ->
           [rows EXCEPT ![e.order] =
              [trader |-> e.trader, type |-> e.orderType, side |-> e.side,
               quantity |-> e.quantity, filled |-> 0, remaining |-> e.quantity,
               limit |-> IF e.orderType = "Limit" THEN e.limit ELSE Tables!NoLimit,
               status |-> "PENDING"]]
      [] e.type = "OrderCancelled" -> [rows EXCEPT ![e.order].status = "CANCELLED"]
      [] e.type = "OrderFilled" ->
           [rows EXCEPT ![e.order] =
              Tables!WithFill(@, "FILLED", rows[e.order].quantity, 0)]
      [] e.type = "OrderPartiallyFilled" ->
           [rows EXCEPT ![e.order] =
              Tables!WithFill(@, "PARTIAL", rows[e.order].filled + e.filled,
                              rows[e.order].remaining - e.filled)]
      [] OTHER -> rows

\* What a cancel gives back, and what a trade of a limit buy releases.
Back(e) == rows[e.order].remaining * rows[e.order].limit

Released(e) ==
    IF e.buyerType = "Limit" THEN e.quantity * rows[e.buyer].limit ELSE 0

CashAfter(e) ==
    CASE e.type = "OrderPlaced" /\ BuysAtLimit(e) ->
           [cash EXCEPT ![e.trader] = @ - e.quantity * e.limit]
      [] e.type = "OrderCancelled" /\ BuysAtLimit(e) ->
           [cash EXCEPT ![rows[e.order].trader] = @ + Back(e)]
      [] e.type = "TradeExecuted" ->
           [t \in Orders |-> cash[t]
              + (IF t = e.buyerTrader THEN Released(e) - e.total ELSE 0)
              + (IF t = e.sellerTrader THEN e.total ELSE 0)]
      [] OTHER -> cash

CashHoldAfter(e) ==
    CASE e.type = "OrderPlaced" /\ BuysAtLimit(e) ->
           [cashHold EXCEPT ![e.trader] = @ + e.quantity * e.limit]
      [] e.type = "OrderCancelled" /\ BuysAtLimit(e) ->
           [cashHold EXCEPT ![rows[e.order].trader] = @ - Back(e)]
      [] e.type = "TradeExecuted" ->
           [t \in Orders |-> cashHold[t]
              + (IF t = e.buyerTrader THEN -Released(e) ELSE 0)]
      [] OTHER -> cashHold

PositionsAfter(e) ==
    CASE e.type = "OrderPlaced" /\ e.side = "Sell" ->
           [positions EXCEPT ![e.trader] =
              [quantity |-> @.quantity - e.quantity, hold |-> @.hold + e.quantity]]
      [] e.type = "OrderCancelled" /\ e.side = "Sell" ->
           [positions EXCEPT ![rows[e.order].trader] =
              [quantity |-> @.quantity + rows[e.order].remaining,
               hold |-> @.hold - rows[e.order].remaining]]
      [] e.type = "TradeExecuted" ->
           [t \in Orders |->
              [quantity |-> positions[t].quantity
                              + (IF t = e.buyerTrader THEN e.quantity ELSE 0),
               hold |-> positions[t].hold
                              - (IF t = e.sellerTrader THEN e.quantity ELSE 0)]]
      [] OTHER -> positions

TradesAfter(e) == IF e.type = "TradeExecuted" THEN Append(trades, e) ELSE trades

\* The statement of e, its writes without its checks.
Written(e) ==
    /\ rows' = RowsAfter(e)
    /\ cash' = CashAfter(e)
    /\ cashHold' = CashHoldAfter(e)
    /\ positions' = PositionsAfter(e)
    /\ trades' = TradesAfter(e)

\* CHECK, for the row of one trader.
LEMMA CashChecked ==
    ASSUME TablesTypeOK, NEW o \in Orders, NEW a \in Int, NEW b \in Int,
           a >= 0, b >= 0,
           cash' = [cash EXCEPT ![o] = a], cashHold' = [cashHold EXCEPT ![o] = b]
    PROVE  Tables!CashChecks'
<1>1. cash \in [Orders -> Nat] /\ cashHold \in [Orders -> Nat]
  BY ColumnTypes
<1>2. \A t \in Orders : cash'[t] >= 0 /\ cashHold'[t] >= 0
  BY <1>1
<1>3. QED
  BY <1>2 DEF Tables!CashChecks

\* ... and for one position.
LEMMA PositionChecked ==
    ASSUME TablesTypeOK, NEW o \in Orders, NEW a \in Int, NEW b \in Int,
           a >= 0, b >= 0,
           positions' = [positions EXCEPT ![o] = [quantity |-> a, hold |-> b]]
    PROVE  Tables!PositionChecks'
<1>1. /\ positions \in [Orders -> Tables!Positions \cup {NoRow}]
      /\ \A x \in Orders : positions[x] # NoRow
  BY ColumnTypes
<1>2. \A t \in Orders : positions[t] \in Tables!Positions
  BY <1>1
<1>3. \A t \in Orders : positions[t].quantity >= 0 /\ positions[t].hold >= 0
  BY <1>2 DEF Tables!Positions
<1>4. \A t \in Orders : positions'[t].quantity >= 0 /\ positions'[t].hold >= 0
  BY <1>1, <1>3
<1>5. QED
  BY <1>4 DEF Tables!PositionChecks

\* The row of a new order can be inserted, and its hold taken.
LEMMA PlacedCommits ==
    ASSUME TablesTypeOK, NEW o \in Orders,
           NEW type \in {"Limit", "Market"}, NEW side \in {"Buy", "Sell"},
           NEW q \in Int, NEW l \in Int, q > 0, type = "Limit" => l > 0, NEW d,
           d = [type |-> "OrderPlaced", order |-> o, trader |-> o, orderType |-> type,
                side |-> side, quantity |-> q, limit |-> l],
           IsCovered(d), Written(d)
    PROVE  Tables!InsertPlaced(d)
<1>1. /\ d.type = "OrderPlaced" /\ d.order = o /\ d.trader = o /\ d.orderType = type
      /\ d.side = side /\ d.quantity = q /\ d.limit = l
  OBVIOUS
<1>2. /\ cash[o] \in Nat /\ cashHold[o] \in Nat
      /\ positions[o].quantity \in Int /\ positions[o].hold \in Int
      /\ positions[o] # NoRow /\ positions[o] \in Tables!Positions
  BY ColumnTypes
<1>3. positions[o].hold >= 0
  BY <1>2 DEF Tables!Positions
<1> DEFINE limit == IF type = "Limit" THEN l ELSE Tables!NoLimit
<1>4. /\ rows[o] = NoRow
      /\ side = "Sell" => positions[o].quantity >= q
      /\ side = "Buy" /\ type = "Limit" => cash[o] >= q * l
  BY <1>1 DEF IsCovered
<1>5. trades' = trades
  BY <1>1 DEF Written, TradesAfter
<1>6. Tables!InsertOrder(d, limit)
  <2>1. rows' = [rows EXCEPT ![o] =
              [trader |-> o, type |-> type, side |-> side,
               quantity |-> q, filled |-> 0, remaining |-> q,
               limit |-> limit, status |-> "PENDING"]]
    BY <1>1 DEF Written, RowsAfter
  <2> HIDE DEF limit
  <2>2. QED
    BY <1>1, <1>4, <2>1 DEF Tables!InsertOrder
<1>7. CASE type = "Limit" /\ side = "Buy"
  <2> DEFINE amount == q * l
  <2>1. amount \in Int /\ amount >= 0 /\ cash[o] >= amount
    <3>1. \A a, b \in Int : a > 0 /\ b > 0 => a * b \in Int /\ a * b >= 0
      OBVIOUS
    <3>2. QED
      BY <1>4, <1>7, <3>1
  <2>2. /\ cash' = [cash EXCEPT ![o] = @ - amount]
        /\ cashHold' = [cashHold EXCEPT ![o] = @ + amount]
        /\ positions' = positions
    BY <1>1, <1>7 DEF Written, CashAfter, CashHoldAfter, PositionsAfter, BuysAtLimit
  <2> HIDE DEF amount
  <2>3. Tables!CashChecks'
    <3>1. cash[o] - amount \in Int /\ cash[o] - amount >= 0
      BY <1>2, <2>1
    <3>2. cashHold[o] + amount \in Int /\ cashHold[o] + amount >= 0
      BY <1>2, <2>1
    <3>3. QED
      BY <2>2, <3>1, <3>2, CashChecked
  <2>4. Tables!InsertOrder(d, d.limit)
    BY <1>1, <1>6, <1>7
  <2>5. Tables!HandleLimitBuyOrderPlaced(d)
    BY <1>1, <1>5, <2>2, <2>3, <2>4 DEF Tables!HandleLimitBuyOrderPlaced, amount
  <2>6. QED
    BY <1>1, <1>7, <2>5 DEF Tables!InsertPlaced
<1>8. CASE type = "Market" /\ side = "Buy"
  <2>1. cash' = cash /\ cashHold' = cashHold /\ positions' = positions
    BY <1>1, <1>8 DEF Written, CashAfter, CashHoldAfter, PositionsAfter, BuysAtLimit
  <2>2. Tables!HandleMarketBuyOrderPlaced(d)
    BY <1>5, <1>6, <1>8, <2>1 DEF Tables!HandleMarketBuyOrderPlaced
  <2>3. QED
    BY <1>1, <1>8, <2>2 DEF Tables!InsertPlaced
<1>9. CASE side = "Sell"
  <2>1. /\ cash' = cash /\ cashHold' = cashHold
        /\ positions' = [positions EXCEPT ![o] =
              [quantity |-> positions[o].quantity - q, hold |-> positions[o].hold + q]]
    BY <1>1, <1>9 DEF Written, CashAfter, CashHoldAfter, PositionsAfter, BuysAtLimit
  <2>2. Tables!PositionChecks'
    <3>1. positions[o].quantity - q \in Int /\ positions[o].quantity - q >= 0
      BY <1>2, <1>4, <1>9
    <3>2. positions[o].hold + q \in Int /\ positions[o].hold + q >= 0
      BY <1>2, <1>3
    <3>3. QED
      BY <2>1, <3>1, <3>2, PositionChecked
  <2>3. positions' = [positions EXCEPT ![o] =
              IF @ = NoRow THEN NoRow
              ELSE [quantity |-> @.quantity - q, hold |-> @.hold + q]]
    BY <1>2, <2>1
  <2> HIDE DEF limit
  <2>4. Tables!InsertOrder(d, IF d.orderType = "Limit" THEN d.limit ELSE Tables!NoLimit)
    BY <1>1, <1>6, Zenon DEF limit
  <2>5. Tables!HandleSellOrderPlaced(d)
    BY <1>1, <1>5, <2>1, <2>2, <2>3, <2>4 DEF Tables!HandleSellOrderPlaced
  <2>6. QED
    BY <1>1, <1>9, <2>5 DEF Tables!InsertPlaced
<1>10. QED
  BY <1>7, <1>8, <1>9

\* The hold of a cancelled order can be given back.
LEMMA CancelCommits ==
    ASSUME TablesTypeOK, NEW o \in Orders,
           NEW type \in {"Limit", "Market"}, NEW side \in {"Buy", "Sell"}, NEW d,
           d = [type |-> "OrderCancelled", order |-> o, orderType |-> type, side |-> side],
           rows[o].trader = o, rows[o].remaining >= 0,
           type = "Limit" => rows[o].limit >= 0,
           IsCovered(d), Written(d)
    PROVE  Tables!InsertCancelled(d)
<1>1. d.type = "OrderCancelled" /\ d.order = o /\ d.orderType = type /\ d.side = side
  OBVIOUS
<1> DEFINE left == rows[o].remaining
           back == left * rows[o].limit
<1>2. /\ Tables!IsOpen(o)
      /\ side = "Sell" => positions[o].hold = left
      /\ side = "Buy" /\ type = "Limit" => cashHold[o] = back
  BY <1>1 DEF IsCovered
<1>3. /\ cash[o] \in Nat /\ cashHold[o] \in Nat
      /\ positions[o].quantity \in Int /\ positions[o].hold \in Int
      /\ positions[o] # NoRow /\ positions[o] \in Tables!Positions
      /\ left \in Int /\ rows[o].limit \in Int
  BY <1>2, ColumnTypes DEF Tables!IsOpen
<1>4. positions[o].quantity >= 0 /\ positions[o].hold >= 0
  BY <1>3 DEF Tables!Positions
<1>5. Tables!CancelRow(o) /\ trades' = trades
  BY <1>1, <1>2 DEF Written, RowsAfter, TradesAfter, Tables!CancelRow
<1>6. CASE type = "Limit" /\ side = "Buy"
  <2>1. back \in Int /\ Back(d) = back
    <3>1. \A a, b \in Int : a * b \in Int
      OBVIOUS
    <3>2. QED
      BY <1>1, <1>3, <3>1 DEF Back
  <2>2. /\ cash' = [cash EXCEPT ![o] = @ + back]
        /\ cashHold' = [cashHold EXCEPT ![o] = @ - back]
        /\ positions' = positions
    BY <1>1, <1>6, <2>1, Zenon
       DEF Written, CashAfter, CashHoldAfter, PositionsAfter, BuysAtLimit
  <2>3. cashHold[o] = back
    BY <1>2, <1>6
  <2> HIDE DEF back
  <2>4. Tables!CashChecks'
    <3>1. cash[o] + back \in Int /\ cash[o] + back >= 0
      BY <1>3, <2>1, <2>3
    <3>2. cashHold[o] - back \in Int /\ cashHold[o] - back >= 0
      BY <1>3, <2>1, <2>3
    <3>3. QED
      BY <2>2, <3>1, <3>2, CashChecked
  <2>5. Tables!HandleLimitBuyOrderCancelled(d)
    BY <1>1, <1>2, <1>5, <2>2, <2>4, Zenon DEF Tables!HandleLimitBuyOrderCancelled, back
  <2>6. QED
    BY <1>1, <1>6, <2>5 DEF Tables!InsertCancelled
<1>7. CASE type = "Market" /\ side = "Buy"
  <2>1. cash' = cash /\ cashHold' = cashHold /\ positions' = positions
    BY <1>1, <1>7 DEF Written, CashAfter, CashHoldAfter, PositionsAfter, BuysAtLimit
  <2>2. Tables!HandleMarketBuyOrderCancelled(d)
    BY <1>1, <1>5, <2>1 DEF Tables!HandleMarketBuyOrderCancelled
  <2>3. QED
    BY <1>1, <1>7, <2>2 DEF Tables!InsertCancelled
<1>8. CASE side = "Sell"
  <2>1. /\ cash' = cash /\ cashHold' = cashHold
        /\ positions' = [positions EXCEPT ![o] =
              [quantity |-> positions[o].quantity + left, hold |-> positions[o].hold - left]]
    BY <1>1, <1>8 DEF Written, CashAfter, CashHoldAfter, PositionsAfter, BuysAtLimit
  <2>2. positions[o].hold = left
    BY <1>2, <1>8
  <2> HIDE DEF left
  <2>3. Tables!PositionChecks'
    <3>1. positions[o].quantity + left \in Int /\ positions[o].quantity + left >= 0
      BY <1>3, <1>4, <2>2
    <3>2. positions[o].hold - left \in Int /\ positions[o].hold - left >= 0
      BY <1>3, <2>2
    <3>3. QED
      BY <2>1, <3>1, <3>2, PositionChecked
  <2>4. positions' = [positions EXCEPT ![o] =
              IF @ = NoRow THEN NoRow
              ELSE [quantity |-> @.quantity + left, hold |-> @.hold - left]]
    BY <1>3, <2>1
  <2>5. Tables!HandleSellOrderCancelled(d)
    BY <1>1, <1>2, <1>5, <2>1, <2>3, <2>4, Zenon DEF Tables!HandleSellOrderCancelled, left
  <2>6. QED
    BY <1>1, <1>8, <2>5 DEF Tables!InsertCancelled
<1>9. QED
  BY <1>6, <1>7, <1>8

\* An open order can be filled, ...
LEMMA FilledCommits ==
    ASSUME NEW o \in Orders, NEW d, d = [type |-> "OrderFilled", order |-> o],
           IsCovered(d), Written(d)
    PROVE  Tables!HandleOrderFilled(d)
<1>1. d.type = "OrderFilled" /\ d.order = o
  OBVIOUS
<1>2. rows[o] # NoRow
  BY <1>1 DEF IsCovered, Tables!IsOpen
<1>3. /\ cash' = cash /\ cashHold' = cashHold /\ positions' = positions /\ trades' = trades
      /\ rows' = [rows EXCEPT ![o] = Tables!WithFill(@, "FILLED", rows[o].quantity, 0)]
  BY <1>1 DEF Written, RowsAfter, CashAfter, CashHoldAfter, PositionsAfter, TradesAfter
<1>4. QED
  BY <1>1, <1>2, <1>3 DEF Tables!HandleOrderFilled

\* ... and partially filled by no more than what remains.
LEMMA PartFillCommits ==
    ASSUME TablesTypeOK, NEW o \in Orders, NEW k \in Int, k >= 0, NEW d,
           d = [type |-> "OrderPartiallyFilled", order |-> o, filled |-> k],
           \A x \in Orders : rows[x] # NoRow => rows[x].filled >= 0 /\ rows[x].remaining >= 0,
           IsCovered(d), Written(d)
    PROVE  Tables!HandleOrderPartiallyFilled(d)
<1>1. d.type = "OrderPartiallyFilled" /\ d.order = o /\ d.filled = k
  OBVIOUS
<1>2. rows[o] # NoRow /\ rows[o].remaining >= k
  BY <1>1 DEF IsCovered, Tables!IsOpen
<1>3. /\ rows \in [Orders -> Tables!Rows \cup {NoRow}] /\ rows[o] \in Tables!Rows
      /\ rows[o].filled \in Int /\ rows[o].remaining \in Int
  BY <1>2, ColumnTypes
<1> DEFINE row == Tables!WithFill(rows[o], "PARTIAL", rows[o].filled + k,
                                  rows[o].remaining - k)
<1>4. /\ cash' = cash /\ cashHold' = cashHold /\ positions' = positions /\ trades' = trades
      /\ rows' = [rows EXCEPT ![o] = row]
  BY <1>1 DEF Written, RowsAfter, CashAfter, CashHoldAfter, PositionsAfter, TradesAfter
<1>5. row.filled = rows[o].filled + k /\ row.remaining = rows[o].remaining - k
  BY <1>3 DEF Tables!WithFill, Tables!Rows
<1>6. Tables!RowChecks'
  <2> HIDE DEF row
  <2>1. row.filled >= 0 /\ row.remaining >= 0
    BY <1>2, <1>3, <1>5
  <2>2. \A x \in Orders : rows'[x] # NoRow => rows'[x].filled >= 0 /\ rows'[x].remaining >= 0
    BY <1>3, <1>4, <2>1
  <2>3. QED
    BY <2>2 DEF Tables!RowChecks
<1>7. QED
  BY <1>1, <1>2, <1>4, <1>6 DEF Tables!HandleOrderPartiallyFilled

\* Every trader's row after a trade of k shares for total.
Exchanged(buyer, seller, k, total, change, release) ==
    /\ positions' = [t \in Orders |->
          [quantity |-> positions[t].quantity + (IF t = buyer THEN k ELSE 0),
           hold |-> positions[t].hold - (IF t = seller THEN k ELSE 0)]]
    /\ cash' = [t \in Orders |-> cash[t] + (IF t = buyer THEN change ELSE 0)
                                         + (IF t = seller THEN total ELSE 0)]
    /\ cashHold' = [t \in Orders |-> cashHold[t] + (IF t = buyer THEN release ELSE 0)]

\* Buyer and seller are two, so that their rows are updated both.
LEMMA TradeUpdates ==
    ASSUME TablesTypeOK, NEW buyer \in Orders, NEW seller \in Orders, buyer # seller,
           NEW k \in Int, NEW total \in Int, NEW d,
           d.buyerTrader = buyer, d.sellerTrader = seller,
           d.quantity = k, d.total = total, k > 0, total >= 0,
           positions[seller].hold >= k,
           NEW change \in Int, NEW release \in Int,
           cash[buyer] + change >= 0, cashHold[buyer] + release >= 0,
           Exchanged(buyer, seller, k, total, change, release)
    PROVE  Tables!MoveShares(d) /\ Tables!MoveCash(d, change, release)
<1>1. /\ cash \in [Orders -> Nat] /\ cashHold \in [Orders -> Nat]
      /\ \A t \in Orders : positions[t] # NoRow /\ positions[t] \in Tables!Positions
  BY ColumnTypes
<1>2. \A t \in Orders : positions[t].quantity \in Nat /\ positions[t].hold \in Nat
  BY <1>1 DEF Tables!Positions
<1>3. ~Tables!SelfTrade(d)
  BY DEF Tables!SelfTrade
<1>4. /\ Tables!BothSides \in Tables!PositionUpdates(d)
      /\ Tables!BothSides \in Tables!CashUpdates(d)
      /\ "buyer" \in Tables!BothSides /\ "seller" \in Tables!BothSides
  BY <1>3 DEF Tables!PositionUpdates, Tables!CashUpdates, Tables!BothSides
<1>5. \A t \in Orders, amount \in Int :
        /\ Tables!Gets(t, buyer, "buyer", Tables!BothSides, amount) =
              (IF t = buyer THEN amount ELSE 0)
        /\ Tables!Gets(t, seller, "seller", Tables!BothSides, amount) =
              (IF t = seller THEN amount ELSE 0)
  BY <1>4 DEF Tables!Gets
<1>6. Tables!MoveShares(d)
  <2>1. positions' = [t \in Orders |->
              IF positions[t] # NoRow
              THEN [quantity |-> positions[t].quantity
                        + Tables!Gets(t, d.buyerTrader, "buyer", Tables!BothSides, d.quantity),
                    hold |-> positions[t].hold
                        - Tables!Gets(t, d.sellerTrader, "seller", Tables!BothSides, d.quantity)]
              ELSE IF Tables!Gets(t, d.buyerTrader, "buyer", Tables!BothSides, d.quantity) > 0
              THEN [quantity |-> Tables!Gets(t, d.buyerTrader, "buyer",
                                             Tables!BothSides, d.quantity), hold |-> 0]
              ELSE NoRow]
    BY <1>1, <1>5 DEF Exchanged
  <2>2. \A t \in Orders : positions'[t].quantity >= 0 /\ positions'[t].hold >= 0
    BY <1>2 DEF Exchanged
  <2>3. Tables!PositionChecks'
    BY <2>2 DEF Tables!PositionChecks
  <2>4. QED
    BY <1>4, <2>1, <2>3 DEF Tables!MoveShares
<1>7. Tables!MoveCash(d, change, release)
  <2>1. cash' = [t \in Orders |-> cash[t]
              + Tables!Gets(t, d.buyerTrader, "buyer", Tables!BothSides, change)
              + Tables!Gets(t, d.sellerTrader, "seller", Tables!BothSides, d.total)]
    BY <1>5 DEF Exchanged
  <2>2. cashHold' = [t \in Orders |-> cashHold[t]
              + Tables!Gets(t, d.buyerTrader, "buyer", Tables!BothSides, release)]
    BY <1>5 DEF Exchanged
  <2>3. \A t \in Orders : cash'[t] >= 0 /\ cashHold'[t] >= 0
    BY <1>1 DEF Exchanged
  <2>4. Tables!CashChecks'
    BY <2>3 DEF Tables!CashChecks
  <2>5. QED
    BY <1>4, <2>1, <2>2, <2>4 DEF Tables!MoveCash
<1>8. QED
  BY <1>6, <1>7

\* A trade between two open orders moves what they have on hold.
LEMMA TradeCommits ==
    ASSUME TablesTypeOK, NEW buyer \in Orders, NEW seller \in Orders, buyer # seller,
           NEW type \in {"Limit", "Market"}, NEW k \in Int, NEW p \in Nat,
           k > 0, p > 0, NEW total \in Int, total = p * k, NEW d,
           d = [type |-> "TradeExecuted", buyer |-> buyer, seller |-> seller,
                buyerType |-> type, buyerTrader |-> buyer, sellerTrader |-> seller,
                quantity |-> k, price |-> p, total |-> total],
           Len(trades) < MaxTrades, IsCovered(d), Written(d)
    PROVE  Tables!InsertTradeExecuted(d)
<1>1. /\ d.type = "TradeExecuted" /\ d.buyer = buyer /\ d.seller = seller
      /\ d.buyerType = type /\ d.buyerTrader = buyer /\ d.sellerTrader = seller
      /\ d.quantity = k /\ d.price = p /\ d.total = total
  OBVIOUS
<1> DEFINE held == k * rows[buyer].limit
           released == IF type = "Limit" THEN held ELSE 0
<1>2. /\ Tables!IsOpen(buyer) /\ Tables!IsOpen(seller)
      /\ positions[seller].hold >= k
      /\ type = "Market" => cash[buyer] >= total
      /\ type = "Limit" => cashHold[buyer] >= held /\ held >= total
  BY <1>1 DEF IsCovered
<1>3. total >= 0
  <2>1. \A a, b \in Int : a >= 0 /\ b > 0 => a * b >= 0
    OBVIOUS
  <2>2. p \in Int /\ p >= 0
    OBVIOUS
  <2>3. p * k >= 0
    BY <2>1, <2>2
  <2>4. QED
    BY <2>3
<1>4. cash[buyer] \in Nat /\ cashHold[buyer] \in Nat /\ held \in Int
  <2>1. \A a, b \in Int : a * b \in Int
    OBVIOUS
  <2>2. QED
    BY <1>2, <2>1, ColumnTypes DEF Tables!IsOpen
<1>5. Released(d) = released
  BY <1>1, Zenon DEF Released
<1> HIDE DEF held
<1>6. /\ released \in Int /\ released - total \in Int /\ -released \in Int
      /\ cash[buyer] + (released - total) >= 0 /\ cashHold[buyer] + (-released) >= 0
  BY <1>2, <1>4
<1>7. /\ positions' = [t \in Orders |->
              [quantity |-> positions[t].quantity + (IF t = buyer THEN k ELSE 0),
               hold |-> positions[t].hold - (IF t = seller THEN k ELSE 0)]]
      /\ cash' = [t \in Orders |-> cash[t]
                     + (IF t = buyer THEN released - total ELSE 0)
                     + (IF t = seller THEN total ELSE 0)]
      /\ cashHold' = [t \in Orders |-> cashHold[t] + (IF t = buyer THEN -released ELSE 0)]
      /\ rows' = rows /\ trades' = Append(trades, d)
  <2> HIDE DEF released
  <2>1. QED
    BY <1>1, <1>5 DEF Written, RowsAfter, CashAfter, CashHoldAfter, PositionsAfter, TradesAfter
<1>8. Tables!MoveShares(d) /\ Tables!MoveCash(d, released - total, -released)
  <2> DEFINE change == released - total
             release == -released
  <2>1. /\ change \in Int /\ release \in Int
        /\ cash[buyer] + change >= 0 /\ cashHold[buyer] + release >= 0
    BY <1>6
  <2>2. Exchanged(buyer, seller, k, total, change, release)
    BY <1>7 DEF Exchanged
  <2> HIDE DEF change, release, released
  <2>0. total >= 0 /\ positions[seller].hold >= k
    BY <1>2, <1>3
  <2>3. d.buyerTrader = buyer /\ d.sellerTrader = seller /\ d.quantity = k /\ d.total = total
    BY <1>1
  <2>4. Tables!MoveShares(d) /\ Tables!MoveCash(d, change, release)
    BY <2>0, <2>1, <2>2, <2>3, TradeUpdates, Zenon
  <2>5. QED
    BY <2>4 DEF change, release
<1>9. Tables!InsertTrade(d)
  BY <1>1, <1>2, <1>7 DEF Tables!InsertTrade, Tables!IsOpen
<1>10. CASE type = "Limit"
  <2>1. released = d.quantity * rows[d.buyer].limit
    BY <1>1, <1>10, Zenon DEF held
  <2>2. Tables!HandleLimitBuyTradeExecuted(d)
    <3> HIDE DEF released
    <3>1. QED
      BY <1>1, <1>7, <1>8, <1>9, <2>1, Zenon DEF Tables!HandleLimitBuyTradeExecuted
  <2>3. QED
    BY <1>1, <1>10, <2>2 DEF Tables!InsertTradeExecuted
<1>11. CASE type = "Market"
  <2>1. released - total = -total /\ -released = 0
    <3>1. released = 0
      BY <1>11
    <3> HIDE DEF released
    <3>2. released - total = 0 - total /\ 0 - released = 0
      BY <3>1
    <3>3. 0 - total = -total /\ 0 - released = -released
      BY <1>6, NegatedInt, Zenon
    <3>4. QED
      BY <3>2, <3>3, Zenon
  <2>2. Tables!HandleMarketBuyTradeExecuted(d)
    <3> HIDE DEF released
    <3>1. QED
      BY <1>1, <1>7, <1>8, <1>9, <2>1, Zenon DEF Tables!HandleMarketBuyTradeExecuted
  <2>3. QED
    BY <1>1, <1>11, <2>2 DEF Tables!InsertTradeExecuted
<1>12. QED
  BY <1>10, <1>11

\* No row has more filled than was ordered: what was reported of an order did
\* trade, and no order trades more than it asks for.
LEMMA RowsAreSane ==
    ASSUME PlatformInv, AgreedInv
    PROVE  Tables!RowsAddUp
<1> SUFFICES ASSUME NEW o \in Orders, rows[o] # NoRow
             PROVE  /\ rows[o].filled + rows[o].remaining = rows[o].quantity
                    /\ rows[o].filled >= 0 /\ rows[o].remaining >= 0
                    /\ rows[o].status = "FILLED" => rows[o].remaining = 0
  BY DEF Tables!RowsAddUp
<1>1. /\ EngineInv /\ TablesTypeOK /\ TablesOf(o) /\ AgreedOf(o)
      /\ events \in Seq(Events)
  BY DEF PlatformInv, AgreedInv, EngineInv, IInv, TypeOK, PlatformTypeOK, TablesTypeOK
<1>2. /\ rows[o].quantity = request[o].quantity
      /\ rows[o].filled = IF rows[o].status = "FILLED" THEN rows[o].quantity
                          ELSE Reported(Seen(PartFills(o)))
      /\ rows[o].remaining = rows[o].quantity - rows[o].filled
      /\ Seen(Placed(o)) # {}
  BY <1>1 DEF TablesOf, RowOf
<1>3. Placed(o) # {}
  BY <1>2 DEF Seen
<1>4. pc[o] \in {"select", "fill", "returned"} /\ request[o] \in Requests /\ Valid(request[o])
  BY <1>1, <1>3, SettledOrder
<1>5. rows[o].quantity \in Int /\ rows[o].quantity > 0
  BY <1>2, <1>4, RequestColumns DEF Valid
<1>6. Traded(o) <= request[o].quantity /\ Reported(PartFills(o)) <= Traded(o)
  BY <1>1, <1>4, TradedWithin DEF AgreedOf
<1> DEFINE S == PartFills(o)
           R == Seen(PartFills(o))
           f == [i \in S |-> events[i].filled]
           g == [i \in R |-> events[i].filled]
<1>7. Reported(S) = SumFunctionOnSet(f, S) /\ Reported(R) = SumFunctionOnSet(g, R)
  BY DEF Reported, SumFunction
<1>8. IsFiniteSet(S) /\ IsFiniteSet(R) /\ R \in SUBSET S
  BY <1>1, PartFillTerms, SeenTerms
<1>9. (\A i \in S : events[i].filled \in Int) /\ (\A i \in S : events[i].filled > 0)
  BY <1>1, PartFillTerms DEF AgreedOf
<1> HIDE DEF S, R
<1>10. /\ (\A i \in S : f[i] \in Int) /\ (\A i \in S : f[i] >= 0)
       /\ (\A i \in R : g[i] \in Int) /\ (\A i \in R : g[i] >= 0)
       /\ (\A i \in R : g[i] = f[i])
  BY <1>8, <1>9
<1> HIDE DEF f, g
<1>11. SumFunctionOnSet(g, R) <= SumFunctionOnSet(f, S)
  <2>1. SumFunctionOnSet(g, R) = SumFunctionOnSet(f, R)
    BY <1>8, <1>10, SumOfSame
  <2>2. SumFunctionOnSet(f, R) <= SumFunctionOnSet(f, S)
    BY <1>8, <1>10, SumOfSubset
  <2>3. QED
    BY <2>1, <2>2
<1>12. SumFunctionOnSet(g, R) >= 0
  <2>1. {} \in SUBSET R
    OBVIOUS
  <2>2. SumFunctionOnSet(g, {}) <= SumFunctionOnSet(g, R)
    BY <1>8, <1>10, <2>1, SumOfSubset
  <2>3. SumFunctionOnSet(g, R) \in Int
    BY <1>8, <1>10, SumIsInt
  <2>4. QED
    BY <2>2, <2>3, SumOfNone
<1>13. Reported(R) \in Int /\ Reported(S) \in Int /\ Traded(o) \in Int
  BY <1>1, SeenSumsAreInts, ReportedIsInt, SumsAreInts DEF R, S
<1>14. Reported(R) >= 0 /\ Reported(R) <= rows[o].quantity
  <2>1. Reported(S) <= Traded(o)
    BY <1>6 DEF S
  <2>2. QED
    BY <1>2, <1>5, <1>6, <1>7, <1>11, <1>12, <1>13, <2>1
<1>15. QED
  <2>1. rows[o].filled = IF rows[o].status = "FILLED" THEN rows[o].quantity ELSE Reported(R)
    BY <1>2 DEF R
  <2>2. QED
    BY <1>2, <1>5, <1>13, <1>14, <2>1

\* In the order in which the engine publishes, no row is ever filled beyond what
\* was ordered (HandleOrderFilled, HandleOrderPartiallyFilled).
THEOREM PlatformRowsAddUp == PlatformSpec => []Tables!RowsAddUp
BY PlatformInvariance, AgreedInvariance, RowsAreSane, PTL

\* Whatever the engine published next, its statement commits: there are tables,
\* those of Written, to which the listener can go on.  This is what is behind
\* EveryEventCommits; the bound on the trades table is the model's.
THEOREM NextStatementCommits ==
    ASSUME PlatformInv, AgreedInv, consumed < Len(events), Len(trades) < MaxTrades,
           Written(NextEvent), consumed' = consumed + 1, UNCHANGED vars
    PROVE  Consume
<1> DEFINE n == consumed + 1
           e == events[n]
           d == Decoded(e)
<1>1. /\ events \in Seq(Events) /\ EngineInv /\ TablesTypeOK
      /\ consumed \in 0..Len(events) /\ NextEvent = d
  BY DEF PlatformInv, PlatformTypeOK, TablesTypeOK, EngineInv, IInv, TypeOK, Decoded, NextEvent
<1>2. n \in DOMAIN events /\ n \in 1..Len(events) /\ consumed = n - 1
  BY <1>1, LenProperties
<1>3. e \in Events /\ Due(n, e)
  BY <1>1, <1>2, ElementOfSeq DEF Due
<1>4. /\ d.type = e.type
      /\ e.type \in {"OrderPlaced", "OrderCancelled", "OrderFilled",
                     "OrderPartiallyFilled", "OrderRejected", "TradeExecuted"}
  BY <1>1, <1>2, <1>3, DecodedAsPublished, DecodedType
<1>5. IsCovered(d) /\ Written(d)
  BY <1>1, NextCovered DEF NextEventIsCovered
<1>6. Tables!RowsAddUp
  BY RowsAreSane
<1> HIDE DEF n, e, d
<1>7. SUFFICES IF d.type = "OrderRejected"
               THEN Tables!HandleOrderRejected(d) ELSE Tables!InsertEvent(d)
  BY <1>1 DEF Consume
<1>8. CASE e.type = "OrderRejected"
  <2>1. /\ rows' = rows /\ cash' = cash /\ cashHold' = cashHold
        /\ positions' = positions /\ trades' = trades
    BY <1>4, <1>5, <1>8
       DEF Written, RowsAfter, CashAfter, CashHoldAfter, PositionsAfter, TradesAfter
  <2>2. Tables!HandleOrderRejected(d)
    BY <1>4, <1>8, <2>1 DEF Tables!HandleOrderRejected, Tables!InsertFails, Tables!tables
  <2>3. QED
    BY <1>4, <1>8, <2>2
<1>9. CASE e.type = "OrderPlaced"
  <2> DEFINE o == e.order
             r == request[o]
  <2>1. o \in Orders /\ r \in Requests /\ Valid(r)
    BY <1>3, <1>9, NewRow
  <2>2. /\ r.type \in {"Limit", "Market"} /\ r.side \in {"Buy", "Sell"}
        /\ r.quantity \in Int /\ r.limit \in Int
        /\ r.quantity > 0 /\ (r.type = "Limit" => r.limit > 0)
    BY <2>1, RequestColumns DEF Valid
  <2>3. d = [type |-> "OrderPlaced", order |-> o, trader |-> o, orderType |-> r.type,
             side |-> r.side, quantity |-> r.quantity, limit |-> r.limit]
    BY <1>3, <1>9, <2>1, DecodedPlaced DEF d
  <2> HIDE DEF o, r
  <2>4. Tables!InsertPlaced(d)
    BY <1>1, <1>5, <2>1, <2>2, <2>3, PlacedCommits
  <2>5. QED
    BY <1>4, <1>9, <2>4 DEF Tables!InsertEvent
<1>10. CASE e.type = "OrderCancelled"
  <2> DEFINE o == e.order
             r == request[o]
  <2>1. o \in Orders /\ n \in Final(o)
    BY <1>3, <1>10 DEF Events, Due, Final, About, Published
  <2>2. /\ r \in Requests /\ Valid(r) /\ rows[o] # NoRow /\ rows[o].trader = o
        /\ rows[o].type = r.type /\ (rows[o].type = "Limit" => rows[o].limit = r.limit)
    BY <1>3, <2>1, OpenRow
  <2>3. /\ r.type \in {"Limit", "Market"} /\ r.side \in {"Buy", "Sell"} /\ r.limit \in Int
        /\ (r.type = "Limit" => rows[o].limit >= 0)
    BY <2>2, RequestColumns DEF Valid
  <2>4. rows[o].remaining >= 0
    BY <1>6, <2>1, <2>2 DEF Tables!RowsAddUp
  <2>5. d = [type |-> "OrderCancelled", order |-> o, orderType |-> r.type, side |-> r.side]
    BY <1>3, <1>10, <2>2, DecodedCancelled DEF d
  <2> HIDE DEF o, r
  <2>6. Tables!InsertCancelled(d)
    BY <1>1, <1>5, <2>1, <2>2, <2>3, <2>4, <2>5, CancelCommits
  <2>7. QED
    BY <1>4, <1>10, <2>6 DEF Tables!InsertEvent
<1>11. CASE e.type = "OrderFilled"
  <2>1. e.order \in Orders /\ d = [type |-> "OrderFilled", order |-> e.order]
    BY <1>3, <1>11, DecodedFilled DEF Events, d
  <2>2. Tables!HandleOrderFilled(d)
    BY <1>5, <2>1, FilledCommits
  <2>3. QED
    BY <1>4, <1>11, <2>2 DEF Tables!InsertEvent
<1>12. CASE e.type = "OrderPartiallyFilled"
  <2>1. e.order \in Orders /\ n \in PartFills(e.order)
    BY <1>3, <1>12 DEF Events, Due, PartFills, About, Published
  <2>2. e.filled \in Int /\ e.filled >= 0
    <3>1. AgreedOf(e.order) /\ e = events[n]
      BY <1>3, <2>1 DEF AgreedInv, Due
    <3>2. e.filled \in Int /\ e.filled > 0
      BY <1>1, <2>1, <3>1, PartFillTerms DEF AgreedOf
    <3>3. QED
      BY <3>2
  <2>3. d = [type |-> "OrderPartiallyFilled", order |-> e.order, filled |-> e.filled]
    BY <1>3, <1>12, DecodedPartiallyFilled DEF d
  <2>4. \A x \in Orders : rows[x] # NoRow => rows[x].filled >= 0 /\ rows[x].remaining >= 0
    BY <1>6 DEF Tables!RowsAddUp
  <2>5. Tables!HandleOrderPartiallyFilled(d)
    BY <1>1, <1>5, <2>1, <2>2, <2>3, <2>4, PartFillCommits
  <2>6. QED
    BY <1>4, <1>12, <2>5 DEF Tables!InsertEvent
<1>13. CASE e.type = "TradeExecuted"
  <2> DEFINE buyer == e.buyer
             seller == e.seller
             total == e.price * e.quantity
             type == request[buyer].type
  <2>1. /\ buyer \in Orders /\ seller \in Orders /\ buyer # seller
        /\ n \in Trades(buyer) /\ request[buyer] \in Requests /\ Valid(request[buyer])
    BY <1>3, <1>13, TradeRows
  <2>2. type \in {"Limit", "Market"}
    BY <2>1, RequestColumns
  <2>3. e.quantity \in Int /\ e.quantity > 0 /\ e.price \in Nat
    BY <1>3, <2>1, HoldLeft
  <2>4. e.price > 0
    <3>1. e.price \in Prices
      BY <1>3, <1>13 DEF Events
    <3>2. \A p \in Prices : p # 0
      BY PricesAssumption
    <3>3. QED
      BY <2>3, <3>1, <3>2
  <2>5. total \in Int
    <3>1. \A a, b \in Int : a * b \in Int
      OBVIOUS
    <3>2. e.price \in Int
      BY <2>3
    <3>3. QED
      BY <2>3, <3>1, <3>2
  <2>6. d = [type |-> "TradeExecuted", buyer |-> buyer, seller |-> seller,
             buyerType |-> type, buyerTrader |-> buyer, sellerTrader |-> seller,
             quantity |-> e.quantity, price |-> e.price, total |-> total]
    BY <1>3, <1>13, <2>1, DecodedTrade DEF d
  <2>7. total = e.price * e.quantity
    BY Zenon
  <2> HIDE DEF buyer, seller, total, type
  <2>8. Tables!InsertTradeExecuted(d)
    BY <1>1, <1>5, <2>1, <2>2, <2>3, <2>4, <2>5, <2>6, <2>7, TradeCommits
  <2>9. QED
    BY <1>4, <1>13, <2>8 DEF Tables!InsertEvent
<1>14. QED
  BY <1>4, <1>8, <1>9, <1>10, <1>11, <1>12, <1>13
-----------------------------------------------------------------------------
(***************************************************************************)
(* The platform as a ledger of money and of shares: what everybody has, on *)
(* hold or not, moves by the trades alone, and nothing gets lost.          *)
(***************************************************************************)
\* What a trader has, on hold or not: cents and shares.
MoneyOf == [t \in Orders |-> cash[t] + cashHold[t]]

HoldingOf == [t \in Orders |-> IF positions[t] = NoRow THEN 0
                               ELSE positions[t].quantity + positions[t].hold]

\* Nobody owes anything, in the database's terms.
Accounts ==
    /\ MoneyOf \in [Orders -> Nat] /\ HoldingOf \in [Orders -> Nat]
    /\ \A o \in Orders : /\ MoneyOf[o] = cash[o] + cashHold[o]
                         /\ HoldingOf[o] = positions[o].quantity + positions[o].hold

\* The tables never hold a negative amount, and everybody has a row.
LEMMA NoDebts == PlatformInv => Accounts
<1> SUFFICES ASSUME PlatformInv PROVE Accounts
  OBVIOUS
<1>1. /\ cash \in [Orders -> Nat] /\ cashHold \in [Orders -> Nat]
      /\ \A o \in Orders : positions[o] # NoRow /\ positions[o] \in Tables!Positions
  BY DEF PlatformInv, PlatformTypeOK, Tables!SettlementTypeOK
<1>2. \A o \in Orders : positions[o].quantity \in Nat /\ positions[o].hold \in Nat
  BY <1>1 DEF Tables!Positions
<1>3. \A o \in Orders : cash[o] + cashHold[o] \in Nat
  BY <1>1
<1>4. \A o \in Orders : positions[o].quantity + positions[o].hold \in Nat
  BY <1>2
<1>5. QED
  BY <1>1, <1>3, <1>4 DEF Accounts, MoneyOf, HoldingOf


\* Every event moves what its trade is worth, and nothing else does.
LEMMA SettlingMoves ==
    ASSUME PlatformInv, PlatformInv', NEW n, NEW e, Settling(n, e), NEW x \in Orders,
           NEW k \in Int, NEW total \in Int,
           TradeOf(e, x) => e.quantity = k /\ e.price * e.quantity = total
    PROVE  IF ~TradeOf(e, x)
           THEN MoneyOf'[x] = MoneyOf[x] /\ HoldingOf'[x] = HoldingOf[x]
           ELSE IF e.buyer = x
           THEN MoneyOf'[x] = MoneyOf[x] - total /\ HoldingOf'[x] = HoldingOf[x] + k
           ELSE MoneyOf'[x] = MoneyOf[x] + total /\ HoldingOf'[x] = HoldingOf[x] - k
<1> DEFINE vs == Value(Seen(Sold(x)))
           vb == Value(Seen(Bought(x)))
           ss == Shares(Seen(Sold(x)))
           sb == Shares(Seen(Bought(x)))
<1>1. events \in Seq(Events) /\ OwnsOf(x) /\ OwnsOf(x)'
  BY DEF PlatformInv, EngineInv, IInv, TypeOK, TablesOf
<1>2. /\ sb' = sb + (IF TradeOf(e, x) /\ e.buyer = x THEN e.quantity ELSE 0)
      /\ ss' = ss + (IF TradeOf(e, x) /\ e.buyer # x THEN e.quantity ELSE 0)
      /\ vb' = vb + (IF TradeOf(e, x) /\ e.buyer = x THEN e.price * e.quantity ELSE 0)
      /\ vs' = vs + (IF TradeOf(e, x) /\ e.buyer # x THEN e.price * e.quantity ELSE 0)
  BY <1>1, SeenSumsGrow
<1>3. vs \in Int /\ vb \in Int /\ ss \in Int /\ sb \in Int
  BY <1>1, SeenSumsAreInts
<1>4. /\ MoneyOf[x] = InitialCash + vs - vb
      /\ HoldingOf[x] = InitialShares + sb - ss
  BY <1>1, NoDebts DEF OwnsOf, Accounts
<1>5. Accounts'
  BY NoDebts, PTL
<1>6. /\ MoneyOf'[x] = InitialCash + vs' - vb'
      /\ HoldingOf'[x] = InitialShares + sb' - ss'
  BY <1>1, <1>5 DEF OwnsOf, Accounts
<1> HIDE DEF vs, vb, ss, sb
<1>7. CASE ~TradeOf(e, x)
  <2>1. vs' = vs /\ vb' = vb /\ ss' = ss /\ sb' = sb
    BY <1>2, <1>3, <1>7
  <2>2. QED
    BY <1>4, <1>6, <1>7, <2>1
<1>8. CASE TradeOf(e, x) /\ e.buyer = x
  <2>1. vs' = vs /\ vb' = vb + total /\ ss' = ss /\ sb' = sb + k
    BY <1>2, <1>3, <1>8
  <2>2. QED
    BY <1>3, <1>4, <1>6, <1>8, <2>1, PlatformAssumption
<1>9. CASE TradeOf(e, x) /\ e.buyer # x
  <2>1. vs' = vs + total /\ vb' = vb /\ ss' = ss + k /\ sb' = sb
    BY <1>2, <1>3, <1>9
  <2>2. QED
    BY <1>3, <1>4, <1>6, <1>9, <2>1, PlatformAssumption
<1>10. QED
  BY <1>7, <1>8, <1>9
\* Where every event about money takes and gives, in the ledgers' terms.
LEMMA ConsumeTransfers ==
    ASSUME PlatformInv, AgreedInv, PlatformInv', Consume
    PROVE  \/ MoneyOf' = MoneyOf /\ HoldingOf' = HoldingOf
           \/ Tables!Cash!Next /\ Tables!Shares!Next
<1> DEFINE n == consumed + 1
           e == events[n]
<1>1. /\ events \in Seq(Events) /\ EngineInv /\ consumed \in 0..Len(events)
      /\ consumed < Len(events) /\ consumed' = consumed + 1 /\ UNCHANGED vars
  BY DEF PlatformInv, PlatformTypeOK, EngineInv, IInv, TypeOK, Consume
<1>2. n \in DOMAIN events /\ n \in 1..Len(events) /\ consumed = n - 1 /\ consumed' = n
  BY <1>1, LenProperties
<1>3. e \in Events /\ Settling(n, e) /\ Due(n, e)
  BY <1>1, <1>2, ElementOfSeq DEF Settling, Due
<1> HIDE DEF n, e
<1>4. Accounts /\ Accounts'
  BY NoDebts, PTL
<1>5. /\ MoneyOf \in [Orders -> Nat] /\ HoldingOf \in [Orders -> Nat]
      /\ MoneyOf' \in [Orders -> Nat] /\ HoldingOf' \in [Orders -> Nat]
  BY <1>4 DEF Accounts
<1>6. CASE e.type # "TradeExecuted"
  <2>1. ASSUME NEW x \in Orders
        PROVE  MoneyOf'[x] = MoneyOf[x] /\ HoldingOf'[x] = HoldingOf[x]
    <3>1. ~TradeOf(e, x) /\ 0 \in Int
      BY <1>6 DEF TradeOf
    <3>2. QED
      BY <1>3, <3>1, SettlingMoves
  <2>2. QED
    BY <1>5, <2>1
<1>7. CASE e.type = "TradeExecuted"
  <2> DEFINE buyer == e.buyer
             seller == e.seller
             k == e.quantity
             total == e.price * e.quantity
  <2>1. buyer \in Orders /\ seller \in Orders /\ buyer # seller /\ n \in Trades(buyer)
    BY <1>3, <1>7, TradeRows
  <2>2. k \in Int /\ k > 0 /\ e.price \in Nat
    BY <1>3, <2>1, HoldLeft
  <2>3. total \in Int /\ total >= 0
    <3>1. \A a, b \in Int : a >= 0 /\ b > 0 => a * b \in Int /\ a * b >= 0
      OBVIOUS
    <3>2. e.price \in Int /\ e.price >= 0
      BY <2>2
    <3>3. QED
      BY <2>2, <3>1, <3>2
  <2>4. /\ e.quantity = k /\ e.price * e.quantity = total /\ e.buyer = buyer
        /\ \A x : TradeOf(e, x) <=> x \in {buyer, seller}
    BY <1>7 DEF TradeOf
  <2> HIDE DEF buyer, seller, k, total
  <2>5. MoneyOf'[buyer] = MoneyOf[buyer] - total /\ HoldingOf'[buyer] = HoldingOf[buyer] + k
    BY <1>3, <2>1, <2>2, <2>3, <2>4, SettlingMoves
  <2>6. MoneyOf'[seller] = MoneyOf[seller] + total /\ HoldingOf'[seller] = HoldingOf[seller] - k
    BY <1>3, <2>1, <2>2, <2>3, <2>4, SettlingMoves
  <2>7. ASSUME NEW x \in Orders, x \notin {buyer, seller}
        PROVE  MoneyOf'[x] = MoneyOf[x] /\ HoldingOf'[x] = HoldingOf[x]
    BY <1>3, <2>2, <2>3, <2>4, <2>7, SettlingMoves
  <2>8. Tables!Cash!Next
    <3>1. total \in 0..MoneyOf[buyer] /\ total <= MoneyOf[buyer]
      BY <1>5, <2>1, <2>3, <2>5
    <3>2. MoneyOf' = [MoneyOf EXCEPT ![buyer] = @ - total, ![seller] = @ + total]
      BY <1>5, <2>1, <2>5, <2>6, <2>7
    <3>3. \E from, to \in Orders : \E amount \in 0..MoneyOf[from] :
            /\ from # to
            /\ amount <= MoneyOf[from]
            /\ MoneyOf' = [MoneyOf EXCEPT ![from] = @ - amount, ![to] = @ + amount]
      BY <2>1, <3>1, <3>2
    <3>4. QED
      BY <3>3, Zenon DEF Tables!Cash!Next, Tables!Cash!Transfer, MoneyOf
  <2>9. Tables!Shares!Next
    <3>1. k \in 0..HoldingOf[seller] /\ k <= HoldingOf[seller]
      BY <1>5, <2>1, <2>2, <2>6
    <3>2. HoldingOf' = [HoldingOf EXCEPT ![seller] = @ - k, ![buyer] = @ + k]
      BY <1>5, <2>1, <2>5, <2>6, <2>7
    <3>3. \E from, to \in Orders : \E amount \in 0..HoldingOf[from] :
            /\ from # to
            /\ amount <= HoldingOf[from]
            /\ HoldingOf' = [HoldingOf EXCEPT ![from] = @ - amount, ![to] = @ + amount]
      BY <2>1, <3>1, <3>2
    <3>4. QED
      BY <3>3, Zenon DEF Tables!Shares!Next, Tables!Shares!Transfer, HoldingOf
  <2>10. QED
    BY <2>8, <2>9
<1>8. QED
  BY <1>6, <1>7
\* The engine's steps move nothing.
LEMMA PlatformTransfers ==
    PlatformInv /\ AgreedInv /\ PlatformInv' /\ [PlatformNext]_platformVars =>
        [Tables!Cash!Next]_MoneyOf /\ [Tables!Shares!Next]_HoldingOf
<1> SUFFICES ASSUME PlatformInv, AgreedInv, PlatformInv', [PlatformNext]_platformVars
             PROVE  \/ MoneyOf' = MoneyOf /\ HoldingOf' = HoldingOf
                    \/ Tables!Cash!Next /\ Tables!Shares!Next
  OBVIOUS
<1>1. CASE Consume
  BY <1>1, ConsumeTransfers
<1>2. CASE UNCHANGED tables
  BY <1>2 DEF tables, MoneyOf, HoldingOf
<1>3. QED
  BY <1>1, <1>2 DEF PlatformNext, Trade, platformVars

\* Through the engine and the listener, money only moves from a trade's buyer to
\* its seller, in every state in between: the settlement promises that of events
\* of two traders, and the engine publishes no others.
THEOREM PlatformImplementsCashLedger == PlatformSpec => Tables!MoneyOnlyMoves
<1>1. PlatformInit => Tables!Cash!Init
  <2>1. Accounts => Tables!Cash!Init
    BY DEF Accounts, Tables!Cash!Init, MoneyOf
  <2>2. QED
    BY <2>1, InitPlatform, NoDebts
<1>2. PlatformInv /\ AgreedInv /\ PlatformInv' /\ [PlatformNext]_platformVars =>
          [Tables!Cash!Next]_[t \in Orders |-> cash[t] + cashHold[t]]
  BY PlatformTransfers DEF MoneyOf
<1>3. QED
  BY <1>1, <1>2, PlatformInvariance, AgreedInvariance, PTL
     DEF PlatformSpec, Tables!MoneyOnlyMoves, Tables!Cash!Spec

\* The same of shares, from the seller to the buyer.
THEOREM PlatformImplementsShareLedger == PlatformSpec => Tables!SharesOnlyMove
<1>1. PlatformInit => Tables!Shares!Init
  <2>1. Accounts => Tables!Shares!Init
    BY DEF Accounts, Tables!Shares!Init, HoldingOf
  <2>2. QED
    BY <2>1, InitPlatform, NoDebts
<1>2. PlatformInv /\ AgreedInv /\ PlatformInv' /\ [PlatformNext]_platformVars =>
          [Tables!Shares!Next]_[t \in Orders |->
              IF positions[t] = NoRow THEN 0 ELSE positions[t].quantity + positions[t].hold]
  BY PlatformTransfers DEF HoldingOf
<1>3. QED
  BY <1>1, <1>2, PlatformInvariance, AgreedInvariance, PTL
     DEF PlatformSpec, Tables!SharesOnlyMove, Tables!Shares!Spec

-----------------------------------------------------------------------------
(***************************************************************************)
(* What all of them have together.                                         *)
(***************************************************************************)
\* A transfer keeps the sum of the accounts.
LEMMA TransferKeepsSum ==
    ASSUME NEW S, IsFiniteSet(S), NEW f \in [S -> Int], NEW g \in [S -> Int],
           NEW from \in S, NEW to \in S, from # to, NEW amount \in Int,
           g[from] = f[from] - amount, g[to] = f[to] + amount,
           \A y \in S \ {from, to} : g[y] = f[y]
    PROVE  SumFunctionOnSet(g, S) = SumFunctionOnSet(f, S)
<1> DEFINE R == S \ {from, to}
           U == R \cup {from}
<1>1. /\ IsFiniteSet(R) /\ IsFiniteSet(U)
      /\ from \notin R /\ to \notin U /\ S = U \cup {to} /\ U = R \cup {from}
  <2>1. IsFiniteSet(R)
    BY FS_Subset
  <2>2. IsFiniteSet(U)
    BY <2>1, FS_AddElement
  <2>3. QED
    BY <2>1, <2>2
<1>2. /\ \A y \in R : f[y] \in Int /\ g[y] = f[y]
      /\ g[from] = f[from] - amount /\ g[to] = f[to] + amount
      /\ f[from] \in Int /\ f[to] \in Int /\ g[from] \in Int /\ g[to] \in Int
  OBVIOUS
<1>3. (\A y \in U : f[y] \in Int) /\ (\A y \in U : g[y] \in Int)
  OBVIOUS
<1> HIDE DEF R, U
<1>4. SumFunctionOnSet(f, U) = SumFunctionOnSet(f, R) + f[from]
  <2>1. (\A y \in R : f[y] \in Int) /\ (\A y \in R : f[y] = f[y])
    BY <1>2
  <2>2. QED
    BY <1>1, <1>2, <2>1, SumOfOneMore
<1>5. SumFunctionOnSet(g, U) = SumFunctionOnSet(f, R) + g[from]
  <2>1. (\A y \in R : f[y] \in Int) /\ (\A y \in R : g[y] = f[y])
    BY <1>2
  <2>2. QED
    BY <1>1, <1>2, <2>1, SumOfOneMore
<1>6. SumFunctionOnSet(f, S) = SumFunctionOnSet(f, U) + f[to]
  <2>1. \A y \in U : f[y] = f[y]
    OBVIOUS
  <2>2. QED
    BY <1>1, <1>2, <1>3, <2>1, SumOfOneMore
<1>7. SumFunctionOnSet(g, S) = SumFunctionOnSet(g, U) + g[to]
  <2>1. \A y \in U : g[y] = g[y]
    OBVIOUS
  <2>2. QED
    BY <1>1, <1>2, <1>3, <2>1, SumOfOneMore
<1>8. SumFunctionOnSet(f, R) \in Int
  <2>1. \A y \in R : f[y] \in Int
    BY <1>2
  <2>2. QED
    BY <1>1, <2>1, SumIsInt
<1>9. QED
  BY <1>2, <1>4, <1>5, <1>6, <1>7, <1>8

\* The sums of all balances with their holds, and of all shares with theirs.
TotalsAre(money, shares) ==
    /\ SumFunctionOnSet(MoneyOf, Orders) = money
    /\ SumFunctionOnSet(HoldingOf, Orders) = shares

\* A step of the ledgers keeps both.
LEMMA TransfersKeepTotals ==
    ASSUME IsFiniteSet(Orders), NEW money, NEW shares, PlatformInv, PlatformInv',
           [Tables!Cash!Next]_MoneyOf, [Tables!Shares!Next]_HoldingOf,
           TotalsAre(money, shares)
    PROVE  TotalsAre(money, shares)'
<1>1. Accounts /\ Accounts'
  BY NoDebts, PTL
<1>2. /\ MoneyOf \in [Orders -> Int] /\ HoldingOf \in [Orders -> Int]
      /\ MoneyOf' \in [Orders -> Int] /\ HoldingOf' \in [Orders -> Int]
  BY <1>1 DEF Accounts
<1>3. SumFunctionOnSet(MoneyOf', Orders) = SumFunctionOnSet(MoneyOf, Orders)
  <2>1. CASE MoneyOf' = MoneyOf
    BY <2>1
  <2>2. CASE Tables!Cash!Next
    <3>1. PICK from, to \in Orders : \E amount \in 0..MoneyOf[from] :
              /\ from # to
              /\ amount <= MoneyOf[from]
              /\ MoneyOf' = [MoneyOf EXCEPT ![from] = @ - amount, ![to] = @ + amount]
      BY <2>2, Zenon DEF Tables!Cash!Next, Tables!Cash!Transfer, MoneyOf
    <3>2. PICK amount \in 0..MoneyOf[from] :
              /\ from # to
              /\ MoneyOf' = [MoneyOf EXCEPT ![from] = @ - amount, ![to] = @ + amount]
      BY <3>1
    <3>3. /\ amount \in Int
          /\ MoneyOf'[from] = MoneyOf[from] - amount /\ MoneyOf'[to] = MoneyOf[to] + amount
          /\ \A y \in Orders \ {from, to} : MoneyOf'[y] = MoneyOf[y]
      BY <1>2, <3>2
    <3>4. QED
      BY <1>2, <3>2, <3>3, TransferKeepsSum
  <2>3. QED
    BY <2>1, <2>2
<1>4. SumFunctionOnSet(HoldingOf', Orders) = SumFunctionOnSet(HoldingOf, Orders)
  <2>1. CASE HoldingOf' = HoldingOf
    BY <2>1
  <2>2. CASE Tables!Shares!Next
    <3>1. PICK from, to \in Orders : \E amount \in 0..HoldingOf[from] :
              /\ from # to
              /\ amount <= HoldingOf[from]
              /\ HoldingOf' = [HoldingOf EXCEPT ![from] = @ - amount, ![to] = @ + amount]
      BY <2>2, Zenon DEF Tables!Shares!Next, Tables!Shares!Transfer, HoldingOf
    <3>2. PICK amount \in 0..HoldingOf[from] :
              /\ from # to
              /\ HoldingOf' = [HoldingOf EXCEPT ![from] = @ - amount, ![to] = @ + amount]
      BY <3>1
    <3>3. /\ amount \in Int
          /\ HoldingOf'[from] = HoldingOf[from] - amount
          /\ HoldingOf'[to] = HoldingOf[to] + amount
          /\ \A y \in Orders \ {from, to} : HoldingOf'[y] = HoldingOf[y]
      BY <1>2, <3>2
    <3>4. QED
      BY <1>2, <3>2, <3>3, TransferKeepsSum
  <2>3. QED
    BY <2>1, <2>2
<1>5. QED
  BY <1>3, <1>4 DEF TotalsAre

\* Of finitely many orders, all traders together always have the money and the
\* shares that they began with: no hold, refund, release or cancel creates or
\* destroys any, in the middle of a match and however far the listener is behind.
THEOREM NothingIsLost ==
    ASSUME IsFiniteSet(Orders)
    PROVE  PlatformSpec =>
             []TotalsAre(SumFunctionOnSet([o \in Orders |-> InitialCash], Orders),
                         SumFunctionOnSet([o \in Orders |-> InitialShares], Orders))
<1> DEFINE money == SumFunctionOnSet([o \in Orders |-> InitialCash], Orders)
           shares == SumFunctionOnSet([o \in Orders |-> InitialShares], Orders)
           Kept == TotalsAre(money, shares)
<1>1. PlatformInit => Kept
  <2> SUFFICES ASSUME PlatformInit PROVE Kept
    OBVIOUS
  <2>1. /\ cash = [o \in Orders |-> InitialCash] /\ cashHold = [o \in Orders |-> 0]
        /\ positions = [o \in Orders |-> [quantity |-> InitialShares, hold |-> 0]]
    BY DEF PlatformInit, Tables!Init
  <2>2. PlatformInv
    BY InitPlatform
  <2>3. Accounts
    BY <2>2, NoDebts
  <2>4. MoneyOf = [o \in Orders |-> InitialCash] /\ HoldingOf = [o \in Orders |-> InitialShares]
    <3>1. \A o \in Orders : MoneyOf[o] = InitialCash /\ HoldingOf[o] = InitialShares
      BY <2>1, <2>3, PlatformAssumption DEF Accounts
    <3>2. QED
      BY <2>3, <3>1 DEF Accounts
  <2>5. QED
    BY <2>4 DEF TotalsAre
<1>2. PlatformInv /\ AgreedInv /\ PlatformInv' /\ Kept /\ [PlatformNext]_platformVars => Kept'
  <2> SUFFICES ASSUME PlatformInv, AgreedInv, PlatformInv', Kept, [PlatformNext]_platformVars
               PROVE  Kept'
    OBVIOUS
  <2>1. [Tables!Cash!Next]_MoneyOf /\ [Tables!Shares!Next]_HoldingOf
    BY PlatformTransfers
  <2> HIDE DEF money, shares
  <2>2. TotalsAre(money, shares)'
    BY <2>1, TransfersKeepTotals
  <2>3. QED
    BY <2>2 DEF money, shares
<1> HIDE DEF Kept
<1>3. PlatformSpec => []Kept
  BY <1>1, <1>2, PlatformInvariance, AgreedInvariance, PTL DEF PlatformSpec
<1>4. QED
  BY <1>3 DEF Kept
=============================================================================
