# Verification of the trading platform

TLA+ models of the trading platform, the TLC runs that check them and the
theorems TLAPS proves about them. Paths are relative to the repository's root;
`engine/` stands for `matching_engine/internal/lib/` and `listener/` for
`event_listener/internal/`.

## 1. The system

```
 gRPC handlers --> EngineService --> MatchingEngine --(one mutex per stock)--> StockOrderBook
                     |   ^                |  safePublish (500 ms)
              poller |   | degraded       v
                     v   |          ValkeyClient: channel --> worker --> Valkey stream
                   IsHealthy                                                 |
                                                                             v
                    PostgreSQL  <-- InsertEvent (SQL) <-- event listener (XREAD)
```

| Component | Code | State | Operations |
| --- | --- | --- | --- |
| Order book | `engine/types/order_types.go` | per side: `levels` (price → FIFO list), `priceHeap`, `orderLookup`, `orderToPrice` | `AddOrder`, `RemoveOrder`, `GetBestPrice`, `GetBestLevel` |
| Matching engine | `engine/matching_engine/matching_engine.go` | a `sync.Map` of books, a mutex per book | `SubmitOrder`, `CancelOrder`, `getOrCreateOrderBook` |
| Event publisher | `engine/events/streaming_client/clients/valkey_client.go` | `eventChan`, health flag, context, worker | `Publish`, `IsHealthy`, `Close`, the worker |
| Event envelope | `engine/events/marshal.go`, `listener/events/unmarshal.go`, both `event_types.go` | none | `MarshalEvent`, `UnmarshalStreamEvent` |
| Engine service | `matching_engine/internal/service`, `.../server`, `matching_engine/cmd/server/main.go` | degraded flag, poller | `PlaceOrder`, `CancelOrder`, `HealthCheck`, `Close`, `Shutdown` |
| Event listener | `listener/events`, `event_listener/cmd/server/main.go` | `lastID` | `Stream`, `readBatch`, `processEntry` |
| Settlement | `listener/db/postgres/postgres.go`, `database/queries/event_listener/events.sql`, `database/migrations` | traders, positions, orders, trades | `InsertEvent`, one statement per kind of event |

How they interact. A handler calls the engine; the engine locks the book of the
order's stock, matches, and publishes every event while it holds the mutex (but
`OrderRejected`, which it publishes before). Publishing hands an event to a
buffered channel, waiting for a bounded time only. One worker moves the events
to a Valkey stream. The listener, another process, reads the stream and settles
each event with one SQL statement. Probes of Valkey (by the poller, by
`HealthCheck`, by handlers in degraded mode) set the publisher's health flag,
for which the worker waits, and the service's degraded flag, which refuses
orders. On shutdown the server stops the handlers, the service its poller and
then the publisher, which drains its channel.

What is hard. Many handlers and one mutex; an incremental match over a book whose
heap holds stale prices; an IOC market buy bounded by cash; a channel that is
full, closed or being closed while others send; an XADD that took effect
although its caller saw an error; a health flag that several goroutines set from
old answers; a reader that may miss, repeat or skip events; SQL statements that
fail one by one. `PROJECT.json` lists each hazard at its line with the properties
about it, or says why none is.

What makes each component correct:

* *order book*: the maps, lists and heap describe the same orders; the top of
  the heap is the best live price; nobody loses his place in the queue;
* *matching engine*: price-time priority, an uncrossed book, no share lost or
  invented, market orders never rest and never overspend, events that tell the
  book, handlers that return;
* *event publisher*: at least once, in order, bounded waiting, recovery after an
  outage, a shutdown that ends and decides about every event;
* *engine service*: one book per stock, a degraded flag that recovers, a shutdown
  that answers every call and then drains the publisher;
* *event listener*: once it has a position, no gap; never an event twice or out of
  order;
* *settlement*: cash and shares are neither created nor lost;
* *all together*: the database takes every event the engine publishes, and holds,
  balances and the orders table agree with the book and the trades.

## 2. What is modelled

### OrderBook: one side of one book

Pure operators on a record, one per method. Orders are identifiers: the code's
`*Order` is shared by pointer, and the quantity an order has left is a variable of
the engine, because the engine changes it behind the price level's back. The
heap is the multiset of its prices; `IsHeapTop` is what `Peek` shows. Lazy deletion
is kept: `RemoveOrder` leaves the price in the heap, `AddOrder` pushes it again if
the level is new, `CleanStaleHeapTop` is the loop of `cleanStaleHeapTop`, all its
pops at once. `WellFormed` collects what the operations maintain.

### MatchingEngine: the handlers of one stock

An order identifier also names the handler that submits it (the service makes a
new UUID per call). Variables: `request` (the order as received), `qty`
(`Order.Quantity`), `pc`, `book`, `lock` (`StockOrderBook.Mu`), the locals
`remaining`, `balance` and `bestPrice` of the handler inside, and `events`, what
was handed to the streamer, in order.

| Action | Code (`matching_engine.go`) |
| --- | --- |
| `Submit`, `Reject` | the checks of `SubmitOrder`, 70-124, without the lock |
| `Accept` | `Mu.Lock()`, the Placed event, the locals: 126-158 |
| `SelectLevel` | the head of the outer loop: 161-178, 317-329 |
| `FillFront` | one iteration of the inner loop: 180-261, 331-391 |
| `LeaveLevel` | the inner loop ends |
| `Finish` | the outer loop ends, the taker's events, resting, `Unlock`: 264-307, 394-437 |
| `Cancel` | `CancelOrder`, 442-486 |

`matchBuyOrder` and `matchSellOrder` are mirror images but for the balance of a
market buy; the actions are written once with `Side` and `Opposite`. A `Cancel`
that does not find its order changes nothing and is a stutter. The two events of a
fill are appended in one step: no other handler of the stock can publish between
them but one whose order is refused, and no property relates a refused order to
another order.

`PriceTimeExchange` is the abstract specification: accepted orders, the order of
their arrival, how much of each is open, a tape of trades. It knows no levels,
heaps, queues or locks. `MatchingEngineProperties` maps the engine to it
(`PriceTimePriority`) and states the properties about the event stream.

### EventPublisher: the engine's end of the stream

`Publish` enters the select; `Enqueue` and `Refuse` are its cases. A select picks
any ready case, so `Enqueue` is possible after the context is done and before the
channel is closed. `Refuse` also stands for the recovered panic of a send on the
closed channel. The worker is a small automaton: `receive`, `waitForHealthy`,
`choose` (the context for this round), `attempt`, `backoff`, `failed`, `stopped`.
A probe is two steps, the ping and the store, so that probes overlap. Each pings on
the context of its caller: the `Poller` on that of the service, which ends with the
shutdown, the `Checkers` on that of a `HealthCheck` request or of a probe of 200 ms,
which may end at any time. `PingFails` therefore is possible with Valkey up as well,
for a checker always and for the poller once the client is closed, and its failure
clears the flag the worker reads. `Close` is cancel, close, and then done or timed
out. The environment is `Outage`, which turns Valkey off and on, and `XAddFails`, an
error that may leave a copy in the stream. *Up* means that Valkey answers; a checker
may not wait for the answer, and XADDs may fail all the same.

`EventDelivery` is the abstract specification: a FIFO queue in front of a log, at
least once, that gives an event up only while it shuts down. The mapping
(`AtLeastOnceInOrder`): what is pending is the event in the worker's hands
followed by the channel.

### Settlement: the tables behind the listener

One action per statement of `events.sql`, dispatched by `InsertEvent` as in
`postgres.go`, on the tables `traders` (`cash`, `cashHold`), `positions`, `orders`
(`rows`) and `trades`. A statement is one transaction: its CHECKs are conjuncts
about the next state (`CashChecks'`, ...), its keys are guards, and a statement that
violates one does not happen (`InsertFails`). `NoRow` stands for an absent row; an
UPDATE that finds none succeeds and changes nothing, as in SQL. The environment
delivers any event of `WireEvents` at any time, which includes every loss, copy
and delay between the engine and the database, and more.

PostgreSQL applies one of two updates of the same row by one statement; a trade
of a trader with himself is such a statement, so `CashUpdates` and
`PositionUpdates` choose. The INSERT of a Rejected event omits NOT NULL columns and
cannot commit. CTEs that are plain SELECTs nothing refers to (the portfolio
values) are not evaluated and left out.

`Ledger` is the abstract specification, used twice: of money (balance plus hold)
and of shares (quantity plus hold). An account changes by transfers between two
traders alone.

### EngineService: the process around the engine

`EngineService` has the gRPC handlers, the poller, the clients of `HealthCheck`, the
registry of books and the shutdown.

| Action | Code |
| --- | --- |
| `Arrive`, `LoadDegraded` | the generated gRPC handlers; `inDegradedMode.Load()`, `matching_engine_service.go:127` |
| `Probe`, `ClearDegraded` | the probe of 200 ms in degraded mode, 127-141 and 187-200; the load, the ping and the store are three steps |
| `Ping`, `Store` | `HealthCheck` 102-124 and the poller 57-74: the answer of a probe is stored in a step of its own |
| `Reject` | the checks of `SubmitOrder` |
| `LoadBook`, `CreateBook` | `getOrCreateOrderBook`, `matching_engine.go:46-64`: `Load`, then `LoadOrStore` |
| `Lock`, `Match` | `Mu.Lock()` and the rest of the critical section |
| `Settle` | the publisher's worker |
| `Signal`, `StopServer`, `CloseStreamer`, `Drained`, `CloseTimesOut` | `main.go`, `server.go:68-93`, `matching_engine_service.go:79-100` |

A call names the order it places and the book it may create, so two calls that race
for a new stock would create two different books. A match is reduced to what other
calls can see: it fills some orders of the other side and may leave its own. The
publisher is reduced to what `EventDelivery` promises of it: a queue (`queued`),
which settles while Valkey is up and, once closed, in any case. `deadline` is the
context of `Shutdown`; `Close` of the service gets a shorter one derived from it, so
one flag stands for both.

### EventListener: the reader of the stream

An entry's ID is its index in `stream`. `pc` is where the goroutine of `Stream` is;
`BeginRead` is the XREAD's arrival, where `"$"` becomes a position; `ReadReturns`,
`ReadTimesOut` and `ReadFails` its outcomes, `NewPosition` what `readBatch` does with
`lastID`; `ProcessEntry` is `processEntry` with both of its errors. `Signal` and
`ProcessEnds` are the end of `main`, which does not wait for the goroutine; a crash
is the same step. `Restart` forgets everything but the stream and the database. An
entry may have no data, or data that do not decode. `since`, `handed` and
`committed` are history variables; no guard reads them.

`StreamConsumer` is the abstract specification: a reader that persists entries of a
growing log, each at most once and in order, and may leave some out. The mapping
(`AtMostOnceInOrder`) takes `committed` for what is persisted.

### EventWire and TradingPlatform: the whole way of an order

`EventWire` has both ends of the wire. Event types, order types and sides are
numbers on it, and each program has its own list of names for them, as the Go
packages have; the operators of the payloads carry over the fields that `InsertEvent`
reads. `TradingPlatform` composes `MatchingEngine`, `EventWire` and `Settlement`:
`Trade` is any step of the engine, `Consume` decodes the next event and applies
`InsertEvent` to it. Every order has a trader of its own who can cover it
(`CoverAssumption`): the code does not check cover before the settlement does, and
what follows from that is in section 6. The stream of this composition is perfect;
what publisher and listener do to it is the subject of their own modules, and what
the settlement does under any stream that of `Settlement`.

## 3. Runs

| Run | Instance | Shows |
| --- | --- | --- |
| `all_kinds` | 3 orders of 16 kinds, 2 prices, cancels | types, mutual exclusion, book consistency, uncrossed book, conservation of shares, the stream tells the book, event lifecycle, filled exactly when all traded, market buyers can pay |
| `deep_books` | 4 orders of 5 kinds, asks with buying takers or the mirror image | best price, kept places, price-time priority |
| `handlers_return` | 3 orders, fair | every accepted order's handler returns |
| `publisher` | 2 producers with 2 events, a channel of 1, 1 retry, the poller and a handler that probe | at least once and in order; a Close that returns nil left nothing undecided |
| `delivery` | 1 producer with 3 events, a channel of 1, the poller and a handler whose pings may fail with Valkey up, fair | a Valkey that stays up gets everything once no caller gives up on a ping any more, the worker stops after Close, a producer that finds the channel full returns, also in an outage that never ends |
| `settlement` | 4 orders (limit and market, buy and sell), 3 traders, 16 events | CHECKs and types, filled and remaining add up, money and shares only move |
| `listener` | a stream of up to 4 entries of 3 kinds, batches of 2, 1 restart, fair | no gap once positioned, nothing twice or out of order over restarts, catching up |
| `service` | 2 calls of 4 kinds, 1 `HealthCheck` client, the poller, 1 stock, a queue of 1, fair | one match per stock, cancels find what rests, degraded mode follows Valkey in both directions, a shutdown ends and in time settles everything |
| `platform` | 3 orders of 9 kinds, 2 prices, the settlement at any distance behind | every event commits and finds the row, balance and hold it takes from (`NextEventIsCovered`); orders table, holds and balances agree with the book and the trades |
| `self_trade`, `uncovered_sell`, `listener_gap` | small | three places where a comment says something else than the code does (section 6) |

Why the bounds are enough. The engine's interesting cases need two makers at one
price (a partial fill, a removal), two prices (a sweep, a stale price under a live
one), a maker larger than the taker and the reverse, a market buy whose cash ends
before a level, inside it and exactly with it, and a price whose level dies and
comes back: three orders reach all but the deep queues, four orders of fewer
kinds reach those. For the publisher, a channel of one makes it full and closes
it while a producer waits; one retry gives a first, a middle and a last attempt;
one extra copy (`MaxCopies`) is a duplicate; two events per producer show their
order. `MaxEvents` and `MaxCopies` bound the environment only. In the engine the
bound is the number of orders. In the settlement a limit buy for two meets two
trades, one below its limit (a refund) and one at it; its trader can pay for little
more, so the CHECKs refuse some orders of events; a sell meets a limit and a market
buy, and one buyer has no position before. `MaxTrades` bounds the trades table.
The listener needs a batch that is full, one that is not, a batch of entries without
data that it cannot get past, and an entry after each of them: two and four. One
restart gives a position that is forgotten with entries before, between and after;
a second is the same again. Two calls are enough for the race of two first orders,
a cancel that meets its order, a handler that is late for the shutdown and a channel
that is full. In `platform` three orders give a maker that two takers fill in parts
or below the limit of a buyer, and a market buy whose cash ends.

Symmetry is used in the safety runs of interchangeable orders and producers; the
liveness runs do without. `CHECK_DEADLOCK FALSE` stands where the
system may stop: in the runs of engine and platform, when every order was submitted
and nothing rests; in those of service and listener, when the process has ended and
is not started again. The other
runs check for deadlock, which says little about the publisher: `Outage`, Valkey
coming and going, is always possible. That its worker and its producers do not get
stuck is what the liveness properties of `delivery` say.

Every property of a passing run has a mutant: a plausible bug in one definition,
written beside it, under which TLC finds that property violated.

### Fairness

* Engine: weak fairness of a handler that holds the mutex (publishing is bounded
  by 500 ms, nothing else blocks), strong fairness of taking the mutex (Go's
  `sync.Mutex` hands over to a waiter that starves for 1 ms).
* Publisher: weak fairness of the worker, of each producer's select (both its
  timeouts fire), of the poller's ping until the shutdown (its ticker), of the
  storing of an answer by whoever has one, and of Close's second step. Nothing makes
  a handler or a `HealthCheck` probe. Strong fairness of `XAddSucceeds` is an assumption about the network, not
  the code: while Valkey can be reached, XADDs do not fail for ever. Nothing
  assumes that Valkey comes back, or that Close is called.
* `DeliveredAfterRecovery` has a premise: Valkey stays up, and from some time on no
  handler has a failed ping to store (`NoFailedCheck`). Before that any number of
  pings may expire and clear the flag. Without it the property is false, of the model
  and of the code: callers that give up again and again can have cleared the flag
  each time the worker looks, and the poller's answer does not hold it up.
* The model of the publisher does not end with its process. `main` exits after
  a Close that timed out; `WorkerStopsAfterClose` speaks of a process that lives.
  `EngineService` has the end of the process.
* Service: weak fairness of every handler, of the poller's ping and store, of the
  worker and of the shutdown's steps; strong fairness of the poller's end, because a
  select whose ticker and context are both ready picks either one. Nobody has to
  call, Valkey does not have to return and no deadline has to pass.
* Listener: weak fairness of the goroutine's own steps; strong fairness of
  `ReadReturns`, again about the network: an XREAD that has something to return does
  not fail for ever. `CatchesUp` excuses a process that is stopped, and the case
  `Stuck` below.

## 4. Proofs

All theorems are checked by TLAPS for every value of the constants, under the
assumptions on constants the modules name (`PricesAssumption`,
`RequestsAssumption`, `ParameterAssumption`, `NoEventAssumption`,
`LatestAssumption`, `ServiceAssumption`, `SettlementAssumption`,
`CoverAssumption`, `PlatformAssumption`; TLC evaluates them in the runs).

`MatchingEngineProofs` begins with the lemmas about the book's operators: `AddOrder`,
`RemoveOrder` and `CleanStaleHeapTop` keep a side well formed and change exactly
what they should; the top of a cleaned heap is a live price and no live price is
better; a cleaned heap that is empty has no levels.

The module then proves one inductive invariant, `IInv`, one lemma per
action, and from it `TypeOK`, `MutualExclusion`, `BookWellFormed`,
`OnlyOpenLimitOrdersRest`, `BookNeverCrossed` and `FillsAtBestPrice`. Why they need
each other: the book is uncrossed because an order rests only when the best
opposite price does not match its limit; that this price is the best one is known
only because the heap covers every level (`BookWellFormed`), and that it still is
when the order rests because nobody else has the book (`MutualExclusion`). That a
fill is at the best price while levels come and go needs that a level being filled
can only vanish. `WaitingHasQuantity` is the one strengthening: a handler starts
its match with a natural number.

`MatchingTerminates` is what can be proved of `HandlersReturn` without fairness.
`Work` counts three for each share that remains, and less the nearer the handler is to
a fill. Each step of the handler that holds the mutex lowers it or is its `Finish`, and
nobody else's step touches what it depends on. It needs the invariant twice: a level
that was chosen has a queue (`HeapTopIsBest`, not a stale price), and a fill trades at
least one share (the cash that `Matchable` saw is enough for one). With weak fairness
of `Matching` the critical section therefore ends.

`MatchingEngineStreamProofs` begins with sums. The properties of the stream sum over
sets of events, which the library does by recursion over subsets in an order that
`CHOOSE` picks. The first part proves what the other proofs need of it: the sum over
no index is 0, over integers it is an integer, and one more index adds its term
(`SumOfOneMore`), whatever order the recursion takes. The induction theorems of the
library cannot be instantiated, so the induction over the size of the set is
`SetInduction`: a set of naturals that holds 0 and with each member the next one is
all of them, which follows from the well-foundedness of `<`.

The rest of it is about what the engine publishes.
`PlaceInQueueIsKept` needs no history: `AddOrder` appends, `RemoveOrder` closes the
gap, and who is in a queue once can be compared by his index. `EventLifecycle` and
`StreamTellsTheBook` follow from `StreamInv`, which ties an order's events to where
the order is: nothing of it is published before its handler has passed the checks,
`OrderPlaced` exactly once and before everything else, a final event exactly when it
is accepted and neither in the book nor in a handler's hands. The third part is what
makes it inductive: a later trade or a second final event would need the order in the
book. `SharesInv` carries the sums along. What an order traded, had cancelled and has
open adds up to its quantity between any two steps, because `Fill` takes the same
quantity from the taker's `remaining` and the maker's `qty` that it publishes;
a filled order has nothing cancelled, so all was traded; a cancelled one had
something left and a resting one has, so whoever traded all was filled
(`FilledExactlyWhenAllTraded`); a market buy's balance and
what it spent add up to the balance it came with, and a fill costs no more than the
balance.

`PriceTimeProofs` proves the refinement `Spec => PriceTimePriority`. Its exchange has
a list of arrivals and a tape of trades where the engine has queues, heap and
events, so the first part shows that selecting the events of one type is a sequence,
and that one more event appends to it or leaves it alone (again by induction over
the indexes). `ArrivalInv` says that each queue is ordered by arrival, that whoever
rests has arrived, and that the order being matched came last. Then the steps:
`Accept` is the exchange's `Place`, `FillFront` its `Trade`, `Finish` its `Settle`,
`Cancel` its `Withdraw`; the handler's other steps stutter. That the front of the
best level is the exchange's choice is `FillsAtBestPrice` (no better price) and
`ArrivalInv` (no earlier order at that price). That matching stops only when it may
is the empty or unmatched top of a cleaned heap, from `BookWellFormed`.

`TradingPlatformProofs` puts engine and settlement together. The properties speak of
moments at which the listener has caught up; its invariant `PlatformInv` has to say
what the tables are at every other moment. It says it of the events that were settled
(`Seen`), order by order (`TablesOf`): a row is there once the order's `OrderPlaced`
was settled, has the columns of the request, the status that follows from the final
event and as filled quantity the sum of the reports; the hold is what the settled
trades left, at the row's limit, until the order is cancelled; balance and position
with their holds are what the trader began with and what the settled trades moved.
A step of the engine adds events behind the listener's position and changes none of
this (`TradeKeepsTables`). A step of the listener settles one more event, and there is
one lemma per statement: that the event arrives as what it was sent (`DecodedPlaced`
and so on, from the two lists of codes), what the statement writes, and that
this is what one more event in the sums asks for. This is where the order of the
stream is needed: that the row is there and still open when a trade or a cancel comes
is `StreamInv` (placed first, final last). That a cancel releases exactly
what is on hold, although it computes that from the reports and the trades lowered it,
needs a last invariant of the engine, `ReportInv`: from the end of its match on, an
order's partial fills add up to what it traded, and while it is matched it has none.
A trade's two orders are distinct and each trades on its side, so no statement meets
one trader twice. From `PlatformInv`, with nothing left to settle, and `SharesInv`
follow the orders table, the holds and the balances. The type invariant
`PlatformTypeOK` is one of its conjuncts; it is proved (`PlatformTypes`) and no run
checks it.

The last part of the module is `EventsAreCovered`: what the next statement takes of a
row, balance, position or hold is there (`NextEventIsCovered`), so no CHECK refuses
it. One order's events are settled against sums over a part of the stream, while what
bounds them is known of all of it; the bridge is that a sum of naturals over the
settled events and the next one is not more than the sum over all
(`NextIsWithin`). The terms are naturals by `AgreedInv`, the invariant this adds on the
engine's side: no trade, report or cancel is empty, a limit buy trades at its limit or
below, and what was reported filled did trade. From it: a seller's
and a limit buyer's hold has the shares of the trade left because the order never
trades more than its quantity, the hold at the limit pays for the trade and its
refund because the price is not above the limit, and a market buyer, who
has nothing on hold, can pay because `Spent` is within the balance the engine was told
(`CashAccounted`) and that within the trader's cash (`CoverAssumption`). A new order
finds its trader with all he began with (`NewRow`), a cancel finds the hold that
its row computes (`HoldCancelled`).

From this `NextStatementCommits` makes a step. `Written` writes down, column by
column, the tables that the statement of the next event leaves (`RowsAfter`,
`CashAfter`, ...), without a check; the theorem says that going from tables as they
are to those is `Consume`, so every CHECK, key and guard of the statement is
satisfied. There is one lemma per statement (`PlacedCommits`, `TradeCommits`, ...). A
trade asks for most: both updates of `cash`, of the buyer and the seller, and the
release, the payment and the checks have to come out as one function each. The bound
`MaxTrades` of the trades table is a hypothesis of the theorem, because it is the
model's and not the database's.

The last part takes the settlement's ledgers to the platform.
`PlatformImplementsCashLedger`, `PlatformImplementsShareLedger` and `PlatformRowsAddUp`
are the promises of module `Settlement` without its assumptions on the events: that no
trade has one trader twice and every seller has a position follows from the engine's
invariant and from that of the tables (`ConsumeTransfers`). A transfer keeps the sum of
all accounts (`TransferKeepsSum`, with the sums of `MatchingEngineStreamProofs`), so
`NothingIsLost`: for finitely many orders the money and the shares of all traders add
up to what they began with at every moment.

`EventPublisherProofs` proves `TypeOK` (the channel's capacity, the number of
attempts) and the refinement `Spec => AtLeastOnceInOrder`, step by step: the send
is `Accept`, an XADD is `Write` with or without the queue moving on, a failed drain
is `GiveUp`, the cancel is `ShutDown`, the rest stutters. Its invariant says that
the worker holds an event exactly while it works on one, that a producer in the
select has made a call, that a backoff has an attempt left, and that a drain
context exists only after the cancel: without the last one a failed publish could
give an event up while the client is open.

A second invariant of the same module follows every accepted event to where it is: in
the stream, dropped, in the worker's hands or in the channel. A worker stops only
behind a closed and empty channel, and Close only returns nil behind a stopped
worker; so `CloseSettlesEverything`.

`DrainTerminates` is the part of `WorkerStopsAfterClose` that needs no fairness. Behind
a closed channel the cancel has come (`CloseOrder`), so no wait for health holds the
worker; nobody adds to the channel; and each step of the worker lowers `DrainWork`, a
round of `2 * MaxRetries + 5` steps for each event in the channel and what is left of
the present one, counted twice when it began before the cancel.

`SettlementProofs` proves `SettlementTypeOK`, `RowsAddUp` and the two refinements of
`Ledger`. Its invariant is one conjunct per table. The orders table stands on its
own (`RowsInv`); cash needs it, because releases are computed from its limits and
remainders; positions need that their rows are never deleted. Each statement that
takes or returns a hold is shown to leave the account as it is, each trade to be a
transfer. The refinement of money is under the assumption `TradesHaveTwoTraders`,
that of shares also under `SellersHavePositions`; the runs `self_trade` and
`uncovered_sell` show what happens without them.

`EventListenerProofs` proves `TypeOK`, `NoGapOncePositioned` and the refinement
`Spec => AtMostOnceInOrder`. Its invariant `LInv` relates three positions that the
code keeps apart: what is committed lies before everything in the batch, at or before
`lastID`, and, during a read, at or before what the server resolved. Across a restart
only the last part survives: the new process forgets `lastID`, and that its first
XREAD starts at the end of the stream is what keeps it from persisting anything
again. For the gaps it needs that the batch is empty whenever a read is under way and
that a read starts where the position is. `ReadsMoveOn` is the part of `CatchesUp` that
needs no fairness: a position never goes back, and a read that returns either moves it
past an entry with data, or there is none left, or the listener is `Stuck`.

`EngineServiceProofs` proves `TypeOK`, `OneMatchPerStock`, `GracefulShutdownSettles`
and the action property `CancelFindsRestingOrder`. `SInv` says that a handler with a
book has the one registered for its stock, that whatever rests does so in its stock's
book on the side its request was converted to, and that a shutdown in time passes the
server's stop only with no call in flight. They hold because a registered book is
never replaced. The first gives mutual exclusion from the mutex of a book, the second
that a cancel looks where the order is, the last that nobody publishes into a closed
streamer.

Only model-checked:

* `EveryEventCommits`, because it speaks of what is enabled, which the prover cannot
  express, and because the model bounds the table of trades. `NextStatementCommits`
  proves what is behind it, with an explicit next state in place of `ENABLED`; the run
  has the definition itself;
* liveness, which is out of the prover's reach: `HandlersReturn`,
  `WorkerStopsAfterClose`, `CatchesUp`, `PublishReturns`, `DeliveredAfterRecovery`,
  `DegradedModeEnds`, `OutageIsNoticed`, `ShutdownCompletes`. Of the first three the
  steps are proved to make progress (`MatchingTerminates`, `DrainTerminates`,
  `ReadsMoveOn`); that a fair scheduler then brings the end is for TLC to say.
  `PriceTimePriority` is a safety refinement.

## 5. Not modelled, and the plan

The plan's modules are written and the safety invariants the runs check are proved,
but for `EveryEventCommits`, which is proved in another form; section 4 explains why.
Left to prove are the liveness properties. The array inside `PriceHeap` is moved about by
`container/heap`, which is a library; `OrderBook` uses what the library promises, a
multiset with its top.

Not modelled, because no state of the system depends on it: the interceptors of the
gRPC server, configuration and logging; the text of JSON and the generated code,
apart from the requests, the enumerations and the service interface; the market data
queries (read-only, without a caller) and the generated market data service; views,
triggers, functions and seed data; the backend and the frontend, which are empty.

Left out of the models of what is modelled:

* engine: a nil streamer (the service always has one; only tests go without),
  timestamps (nothing reads them), trader, ticker and average fill price, the
  overflow of price times quantity in 64 bits;
* service: a restart of the engine. It begins with empty books, and nothing in the
  code brings back what rested or tells the database;
* settlement: the cost basis of positions, the price of the stock, portfolio values.
  They are written by the same statements and read by none of them.

## 6. Where documents and code differ

| Run | Document | Code |
| --- | --- | --- |
| `self_trade` | `events.sql:121`, "Release buyer's cash hold at limit price" | with one trader on both sides only one update of his row takes effect, and the hold may stay (`events.sql:122`, `:167`) |
| `uncovered_sell` | `events.sql:82`, "Lock shares for sell" | a seller without a position locks nothing (`events.sql:84-90`) |
| `listener_gap` | `listener/events/streaming_client/streaming_client.go:10`, "continuously reads events from the stream" | until the first batch has come every XREAD starts at `"$"`; what is appended between two of them is never read (`valkey_client.go:40`, `:99`) |

The following needed no run of its own.

* `engine/types/order_types.go:52` calls `volume` the "Total quantity at this price
  level"; a partial fill (`matching_engine.go:230`, `:365`) does not lower it. Nothing
  reads it.
* `engine/types/event_types.go:48` names the quantity of a Filled event
  `total_quantity`; a resting order reports what it had before its last trade
  (`matching_engine.go:244`, `:374`). `HandleOrderFilled` does not read the field.
* `streaming_client.go:19` of the engine says that Close flushes pending events; one
  that cannot be published in shutdown is dropped and Close returns nil
  (`valkey_client.go:182`). `AtLeastOnceInOrder` has the step (`GiveUp`).
* `streaming_client.go:15` says that Publish returns "immediately without blocking";
  a full channel makes it wait until one of its two timeouts (`PublishReturns`).
* `server.go:84` says "drain and shutdown clients"; after a forced stop the context
  of Close is over and nothing is drained (`GracefulShutdownSettles` is about a
  shutdown in time).
* `matching_engine/README.md:38` lists the balance among the checks of an order, and
  `matching_engine.go:103-124` checks none (`Valid`). Two orders may count on the
  same cash; the settlement then refuses a trade that the engine has made, and the
  listener skips it.
* `valkey_client.go:142` says that the cancel makes Publish stop accepting events; its
  select may still send until the channel is closed (`Enqueue`).
* In degraded mode PlaceOrder sets error code 2, which is INSUFFICIENT_SHARES in
  `types.proto`, and returns an error as well, with which gRPC drops the response.
* An entry without data does not move `lastID` (`valkey_client.go:122`); a batch full
  of them is read again and again (`Stuck` in `EventListener`).
* The copies that an ambiguous XADD leaves in the stream have the same `event_id`;
  `InsertEvent` gets it and does not use it, so a trade may be settled twice.
