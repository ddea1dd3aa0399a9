------------------------- MODULE EngineServiceProofs -------------------------
(***************************************************************************)
(* The engine process matches a stock's orders one at a time, finds what   *)
(* it is asked to cancel and, when it shuts down in time, loses nothing    *)
(* it took, for any number of calls, stocks and clients.                   *)
(***************************************************************************)
EXTENDS EngineService, TLAPS

\* The states of a handler that has a book, and of one at work.
AtBook == {"waiting", "matching"}
AtWork == {"called", "probing", "probed", "admitted", "creating", "waiting", "matching"}

\* A handler has the book that is registered for its stock, and a request that
\* gets as far as it is.
HandlersMeet ==
    \A c \in Calls :
        /\ pc[c] # "new" => request[c] \in Requests
        /\ pc[c] = "creating" => Placing(c) /\ request[c].valid
        /\ pc[c] \in AtBook => bookOf[c] # NoBook /\ bookOf[c] = registry[request[c].stock]

\* A resting order was placed by its call, in the book of its stock and on the
\* side its request was converted to.
RestsWhereCancelLooks ==
    \A r \in resting :
        /\ pc[r.order] # "new" /\ Placing(r.order)
        /\ r.book = registry[request[r.order].stock]
        /\ r.side = PlacedSide(request[r.order])

\* The streamer is closed when the server has stopped, and a shutdown in time
\* has waited for every call.
ShutdownOrder ==
    /\ closed => phase \in {"draining", "exited"}
    /\ phase \in {"closing", "draining", "exited"} /\ ~deadline => NoCallInFlight
    /\ ~deadline => refused = {}
    /\ phase = "exited" /\ ~deadline => queued = 0

\* The inductive invariant.
SInv ==
    /\ TypeOK
    /\ HandlersMeet
    /\ RestsWhereCancelLooks
    /\ OneMatchPerStock
    /\ ShutdownOrder

-----------------------------------------------------------------------------
\* What a request is made of.
LEMMA RequestTypes ==
    ASSUME NEW r \in Requests
    PROVE  /\ r.method \in {"PlaceOrder", "CancelOrder"}
           /\ r.stock \in Stocks /\ r.side \in ProtoSides
           /\ r.method = "PlaceOrder" => r \in PlaceOrderRequest
           /\ r.method = "CancelOrder" => r \in CancelOrderRequest
  BY ServiceAssumption DEF PlaceOrderRequest, CancelOrderRequest

\* The conversions give a side of the book.
LEMMA Conversions ==
    ASSUME NEW r
    PROVE  /\ PlacedSide(r) \in {"Buy", "Sell"}
           /\ CancelledSide(r) = PlacedSide(r)
  BY DEF PlacedSide, CancelledSide

\* A service that was just made has the invariant.
LEMMA InitSInv == Init => SInv
<1> SUFFICES ASSUME Init PROVE SInv
  OBVIOUS
<1>1. TypeOK
  <2>1. queued \in 0..QueueSize
    BY ServiceAssumption DEF Init
  <2>2. probe \in [Probers -> {"idle", "ok", "bad", "stopped"}]
    BY DEF Init
  <2>3. /\ request \in [Calls -> Requests \cup {NoRequest}]
        /\ pc \in [Calls -> {"new", "called", "probing", "probed", "admitted", "creating",
                             "waiting", "matching", "done"}]
        /\ bookOf \in [Calls -> Calls \cup {NoBook}]
        /\ reply \in [Calls -> {"none", "degraded", "invalid", "notFound", "success"}]
        /\ registry \in [Stocks -> Calls \cup {NoBook}]
    BY DEF Init
  <2>4. QED
    BY <2>1, <2>2, <2>3 DEF Init, TypeOK
<1>2. HandlersMeet /\ RestsWhereCancelLooks /\ OneMatchPerStock
  BY DEF Init, HandlersMeet, RestsWhereCancelLooks, OneMatchPerStock, InMatch, AtBook
<1>3. ShutdownOrder
  BY DEF Init, ShutdownOrder
<1>4. QED
  BY <1>1, <1>2, <1>3 DEF SInv

-----------------------------------------------------------------------------
(***************************************************************************)
(* The steps that touch no call and no book.                               *)
(***************************************************************************)
\* Probes, outages, the worker and the shutdown leave calls and books alone.
LEMMA AroundTheBooks ==
    ASSUME SInv, UNCHANGED <<callVars, bookVars>>
    PROVE  HandlersMeet' /\ RestsWhereCancelLooks' /\ OneMatchPerStock'
  BY DEF SInv, callVars, bookVars, HandlersMeet, RestsWhereCancelLooks, OneMatchPerStock,
         InMatch, Placing

\* Nobody starts a HealthCheck once the server has stopped.
LEMMA HealthSInv ==
    ASSUME SInv, NEW k \in Probers, Ping(k) \/ Store(k)
    PROVE  SInv'
<1>1. /\ UNCHANGED <<up, callVars, bookVars, eventVars, exitVars>>
      /\ degraded' \in BOOLEAN
      /\ probe' \in [Probers -> {"idle", "ok", "bad", "stopped"}]
  BY DEF SInv, TypeOK, Ping, Store
<1>2. TypeOK'
  BY <1>1 DEF SInv, TypeOK, callVars, bookVars, eventVars, exitVars
<1>3. NoCallInFlight /\ phase # "serving" => NoCallInFlight'
  BY <1>1 DEF SInv, TypeOK, Ping, Store, Serving, NoCallInFlight, callVars, Probers
<1>4. ShutdownOrder'
  BY <1>1, <1>3 DEF SInv, ShutdownOrder, eventVars, exitVars
<1>5. QED
  BY <1>1, <1>2, <1>4, AroundTheBooks DEF SInv

\* The poller stopping is no client's call.
LEMMA PollerStopsSInv ==
    ASSUME SInv, PollerStops
    PROVE  SInv'
<1>1. /\ UNCHANGED <<up, degraded, callVars, bookVars, eventVars, exitVars>>
      /\ probe' \in [Probers -> {"idle", "ok", "bad", "stopped"}]
  BY DEF SInv, TypeOK, PollerStops
<1>2. TypeOK'
  BY <1>1 DEF SInv, TypeOK, callVars, bookVars, eventVars, exitVars
<1>3. \A k \in Checkers : probe'[k] = probe[k]
  BY ServiceAssumption DEF SInv, TypeOK, PollerStops, Probers
<1>4. ShutdownOrder'
  BY <1>1, <1>3 DEF SInv, ShutdownOrder, NoCallInFlight, callVars, eventVars, exitVars
<1>5. QED
  BY <1>1, <1>2, <1>4, AroundTheBooks DEF SInv

\* The worker and Valkey.
LEMMA SettleSInv ==
    ASSUME SInv, Settle \/ Outage
    PROVE  SInv'
<1>1. /\ UNCHANGED <<degraded, probe, callVars, bookVars, refused, exitVars>>
      /\ phase # "exited" /\ up' \in BOOLEAN
  BY DEF SInv, TypeOK, Settle, Outage, Running, eventVars
<1>2. queued' \in 0..QueueSize
  BY ServiceAssumption DEF SInv, TypeOK, Settle, Outage, eventVars
<1>3. TypeOK'
  BY <1>1, <1>2 DEF SInv, TypeOK, callVars, bookVars, exitVars
<1>4. ShutdownOrder'
  BY <1>1 DEF SInv, ShutdownOrder, NoCallInFlight, callVars, exitVars
<1>5. QED
  BY <1>1, <1>3, <1>4, AroundTheBooks DEF SInv

\* Shutdown waits for the calls, and the streamer for its queue, or the
\* deadline has passed.
LEMMA ShutdownSInv ==
    ASSUME SInv, Signal \/ DeadlinePasses \/ Shutdown
    PROVE  SInv'
<1>1. /\ UNCHANGED <<up, degraded, probe, callVars, bookVars, eventVars>>
      /\ phase' \in {"serving", "stopping", "closing", "draining", "exited"}
      /\ deadline' \in BOOLEAN /\ closed' \in BOOLEAN
  BY DEF SInv, TypeOK, Signal, DeadlinePasses, Shutdown, StopServer, CloseStreamer, Drained,
         CloseTimesOut
<1>2. TypeOK'
  BY <1>1 DEF SInv, TypeOK, callVars, bookVars, eventVars
<1>3. NoCallInFlight' = NoCallInFlight
  BY <1>1 DEF NoCallInFlight, callVars
<1>4. ShutdownOrder'
  BY <1>1, <1>3 DEF SInv, TypeOK, ShutdownOrder, eventVars, Signal, DeadlinePasses, Shutdown,
                    StopServer, CloseStreamer, Drained, CloseTimesOut
<1>5. QED
  BY <1>1, <1>2, <1>4, AroundTheBooks DEF SInv

-----------------------------------------------------------------------------
(***************************************************************************)
(* The handlers.                                                           *)
(***************************************************************************)
\* A call at work has kept an orderly shutdown from going on, so what it does
\* to the queue cannot be lost.
LEMMA WorkBeforeShutdown ==
    ASSUME SInv, NEW c \in Calls, Running, pc[c] \in AtWork, UNCHANGED exitVars,
           refused' = refused \/ closed
    PROVE  ShutdownOrder'
<1>1. ~NoCallInFlight
  BY DEF NoCallInFlight, AtWork
<1>2. deadline \/ phase \notin {"closing", "draining", "exited"}
  BY <1>1 DEF SInv, ShutdownOrder
<1>3. QED
  BY <1>2 DEF SInv, ShutdownOrder, exitVars, Running

\* A handler that moves on without touching books: the others still meet.
LEMMA MovesOn ==
    ASSUME SInv, NEW c \in Calls, UNCHANGED <<request, bookVars>>,
           \A d \in Calls \ {c} : pc'[d] = pc[d] /\ bookOf'[d] = bookOf[d],
           request[c] \in Requests, pc'[c] # "new",
           pc'[c] = "creating" => Placing(c) /\ request[c].valid,
           pc'[c] = "waiting" =>
               bookOf'[c] # NoBook /\ bookOf'[c] = registry[request[c].stock],
           pc'[c] # "matching"
    PROVE  HandlersMeet' /\ RestsWhereCancelLooks' /\ OneMatchPerStock'
<1>1. registry' = registry /\ resting' = resting /\ request' = request
  BY DEF bookVars
<1>2. HandlersMeet'
  BY <1>1 DEF SInv, HandlersMeet, AtBook, Placing
<1>3. RestsWhereCancelLooks'
  <2>1. \A r \in resting : r.order \in Calls
    BY DEF SInv, TypeOK
  <2>2. \A d \in Calls : pc[d] # "new" => pc'[d] # "new"
    OBVIOUS
  <2>3. QED
    BY <1>1, <2>1, <2>2 DEF SInv, RestsWhereCancelLooks, Placing
<1>4. OneMatchPerStock'
  BY <1>1 DEF SInv, OneMatchPerStock, InMatch
<1>5. QED
  BY <1>2, <1>3, <1>4

\* A new call has no order in any book.
LEMMA ArriveSInv ==
    ASSUME SInv, NEW c \in Calls, NEW r \in Requests, Arrive(c, r)
    PROVE  SInv'
<1>1. /\ pc[c] = "new" /\ phase = "serving"
      /\ request' = [request EXCEPT ![c] = r] /\ pc' = [pc EXCEPT ![c] = "called"]
      /\ UNCHANGED <<up, degraded, probe, bookOf, reply, registry, resting, eventVars, exitVars>>
  BY DEF Arrive, Serving, Goto, bookVars
<1>2. /\ request \in [Calls -> Requests \cup {NoRequest}]
      /\ pc \in [Calls -> {"new", "called", "probing", "probed", "admitted", "creating",
                           "waiting", "matching", "done"}]
      /\ \A x \in resting : x.order \in Calls
  BY DEF SInv, TypeOK
<1>3. /\ \A d \in Calls \ {c} : pc'[d] = pc[d] /\ request'[d] = request[d]
      /\ pc'[c] = "called" /\ request'[c] = r
  BY <1>1, <1>2
<1>4. TypeOK'
  <2>1. /\ request' \in [Calls -> Requests \cup {NoRequest}]
        /\ pc' \in [Calls -> {"new", "called", "probing", "probed", "admitted", "creating",
                              "waiting", "matching", "done"}]
    BY <1>1, <1>2
  <2>2. QED
    BY <1>1, <2>1 DEF SInv, TypeOK, eventVars, exitVars
<1>5. HandlersMeet'
  BY <1>1, <1>3 DEF SInv, HandlersMeet, AtBook, Placing
<1>6. RestsWhereCancelLooks'
  <2>1. \A x \in resting : x.order \in Calls \ {c}
    BY <1>1, <1>2 DEF SInv, RestsWhereCancelLooks
  <2>2. QED
    BY <1>1, <1>3, <2>1 DEF SInv, RestsWhereCancelLooks, Placing
<1>7. OneMatchPerStock'
  BY <1>3 DEF SInv, OneMatchPerStock, InMatch
<1>8. ShutdownOrder'
  BY <1>1 DEF SInv, ShutdownOrder, eventVars, exitVars
<1>9. QED
  BY <1>4, <1>5, <1>6, <1>7, <1>8 DEF SInv

\* What a handler does to its own call is well typed.
LEMMA HandlerTypes ==
    ASSUME TypeOK, NEW c \in Calls,
           NEW state \in {"new", "called", "probing", "probed", "admitted", "creating",
                          "waiting", "matching", "done"}, Goto(c, state)
    PROVE  /\ pc' \in [Calls -> {"new", "called", "probing", "probed", "admitted", "creating",
                                 "waiting", "matching", "done"}]
           /\ pc'[c] = state
           /\ \A d \in Calls \ {c} : pc'[d] = pc[d]
  BY DEF TypeOK, Goto

\* An answer is stored with its call.
LEMMA ReturnTypes ==
    ASSUME TypeOK, NEW c \in Calls,
           NEW answer \in {"none", "degraded", "invalid", "notFound", "success"},
           Return(c, answer)
    PROVE  /\ reply' \in [Calls -> {"none", "degraded", "invalid", "notFound", "success"}]
           /\ reply'[c] = answer /\ \A d \in Calls \ {c} : reply'[d] = reply[d]
           /\ Goto(c, "done")
  BY DEF TypeOK, Return

\* An event is accepted into a queue with room, refused by a closed streamer or
\* dropped.
LEMMA SafePublishTypes ==
    ASSUME TypeOK, NEW c \in Calls, SafePublish(c)
    PROVE  /\ queued' \in 0..QueueSize /\ refused' \subseteq Calls
           /\ refused' = refused \/ closed
  BY ServiceAssumption DEF TypeOK, SafePublish, eventVars

\* Degraded mode decides only how far a call gets.
LEMMA DegradedSInv ==
    ASSUME SInv, NEW c \in Calls, LoadDegraded(c) \/ Probe(c) \/ ClearDegraded(c)
    PROVE  SInv'
<1>0. TypeOK
  BY DEF SInv
<1>1. /\ Running /\ pc[c] \in {"called", "probing", "probed"}
      /\ UNCHANGED <<up, probe, request, bookOf, bookVars, eventVars, exitVars>>
      /\ degraded' \in BOOLEAN
  BY <1>0 DEF TypeOK, LoadDegraded, Probe, ClearDegraded
<1>2. PICK state \in {"probing", "admitted", "probed", "done"} : Goto(c, state)
  BY DEF LoadDegraded, Probe, ClearDegraded, Return
<1>3. /\ pc' \in [Calls -> {"new", "called", "probing", "probed", "admitted", "creating",
                            "waiting", "matching", "done"}]
      /\ pc'[c] = state /\ \A d \in Calls \ {c} : pc'[d] = pc[d]
  BY <1>0, <1>2, HandlerTypes
<1>4. reply' \in [Calls -> {"none", "degraded", "invalid", "notFound", "success"}]
  <2>1. Return(c, "degraded") \/ UNCHANGED reply
    BY DEF LoadDegraded, Probe, ClearDegraded
  <2>2. QED
    BY <1>0, <2>1, ReturnTypes DEF TypeOK
<1>5. TypeOK'
  BY <1>0, <1>1, <1>3, <1>4 DEF TypeOK, bookVars, eventVars, exitVars
<1>6. request[c] \in Requests
  BY <1>1 DEF SInv, HandlersMeet
<1>7. HandlersMeet' /\ RestsWhereCancelLooks' /\ OneMatchPerStock'
  BY <1>1, <1>3, <1>6, MovesOn
<1>8. ShutdownOrder'
  BY <1>1, WorkBeforeShutdown DEF AtWork, eventVars
<1>9. QED
  BY <1>5, <1>7, <1>8 DEF SInv

\* An invalid order is answered before a book is looked for.
LEMMA RejectSInv ==
    ASSUME SInv, NEW c \in Calls, Reject(c)
    PROVE  SInv'
<1>0. TypeOK
  BY DEF SInv
<1>1. /\ Running /\ pc[c] = "admitted" /\ SafePublish(c) /\ Return(c, "invalid")
      /\ UNCHANGED <<up, degraded, probe, request, bookOf, bookVars, exitVars>>
  BY DEF Reject
<1>2. /\ reply' \in [Calls -> {"none", "degraded", "invalid", "notFound", "success"}]
      /\ Goto(c, "done")
  BY <1>0, <1>1, ReturnTypes
<1>3. /\ pc' \in [Calls -> {"new", "called", "probing", "probed", "admitted", "creating",
                            "waiting", "matching", "done"}]
      /\ pc'[c] = "done" /\ \A d \in Calls \ {c} : pc'[d] = pc[d]
  BY <1>0, <1>2, HandlerTypes
<1>4. /\ queued' \in 0..QueueSize /\ refused' \subseteq Calls
      /\ refused' = refused \/ closed
  BY <1>0, <1>1, SafePublishTypes
<1>5. TypeOK'
  BY <1>0, <1>1, <1>2, <1>3, <1>4 DEF TypeOK, bookVars, exitVars
<1>6. request[c] \in Requests
  BY <1>1 DEF SInv, HandlersMeet
<1>7. HandlersMeet' /\ RestsWhereCancelLooks' /\ OneMatchPerStock'
  BY <1>1, <1>3, <1>6, MovesOn
<1>8. ShutdownOrder'
  BY <1>1, <1>4, WorkBeforeShutdown DEF AtWork
<1>9. QED
  BY <1>5, <1>7, <1>8 DEF SInv

\* A handler that finds a book has the registered one.
LEMMA LoadBookSInv ==
    ASSUME SInv, NEW c \in Calls, LoadBook(c)
    PROVE  SInv'
<1>0. TypeOK
  BY DEF SInv
<1> DEFINE book == registry[request[c].stock]
<1>1. /\ Running /\ pc[c] = "admitted" /\ (Placing(c) => request[c].valid)
      /\ bookOf' = [bookOf EXCEPT ![c] = book]
      /\ UNCHANGED <<up, degraded, probe, request, bookVars, eventVars, exitVars>>
  BY DEF LoadBook
<1>2. request[c] \in Requests /\ request[c].stock \in Stocks
  BY <1>1, RequestTypes DEF SInv, HandlersMeet
<1>3. /\ bookOf' \in [Calls -> Calls \cup {NoBook}]
      /\ bookOf'[c] = book /\ \A d \in Calls \ {c} : bookOf'[d] = bookOf[d]
  BY <1>0, <1>1, <1>2 DEF TypeOK
<1> HIDE DEF book
<1>4. \/ book # NoBook /\ Goto(c, "waiting") /\ UNCHANGED reply
      \/ Placing(c) /\ Goto(c, "creating") /\ UNCHANGED reply
      \/ Return(c, "notFound")
  BY <1>3 DEF LoadBook
<1>5. PICK state \in {"waiting", "creating", "done"} : Goto(c, state)
  BY <1>4 DEF Return
<1>6. /\ pc' \in [Calls -> {"new", "called", "probing", "probed", "admitted", "creating",
                            "waiting", "matching", "done"}]
      /\ pc'[c] = state /\ \A d \in Calls \ {c} : pc'[d] = pc[d]
  BY <1>0, <1>5, HandlerTypes
<1>7. reply' \in [Calls -> {"none", "degraded", "invalid", "notFound", "success"}]
  BY <1>0, <1>4, ReturnTypes DEF TypeOK
<1>8. TypeOK'
  BY <1>0, <1>1, <1>3, <1>6, <1>7 DEF TypeOK, bookVars, eventVars, exitVars
<1>9. /\ pc'[c] = "creating" => Placing(c) /\ request[c].valid
      /\ pc'[c] = "waiting" => book # NoBook
  <2>1. Goto(c, "waiting") => pc'[c] = "waiting"
    BY <1>0, HandlerTypes
  <2>2. Goto(c, "creating") => pc'[c] = "creating"
    BY <1>0, HandlerTypes
  <2>3. Return(c, "notFound") => pc'[c] = "done"
    BY <1>0, HandlerTypes DEF Return
  <2>4. QED
    BY <1>1, <1>4, <2>1, <2>2, <2>3
<1>10. HandlersMeet' /\ RestsWhereCancelLooks' /\ OneMatchPerStock'
  <2>1. bookOf'[c] = registry[request[c].stock]
    BY <1>3 DEF book
  <2>2. QED
    BY <1>1, <1>2, <1>3, <1>6, <1>9, <2>1, MovesOn
<1>11. ShutdownOrder'
  BY <1>1, WorkBeforeShutdown DEF AtWork, eventVars
<1>12. QED
  BY <1>8, <1>10, <1>11 DEF SInv

\* Whoever is first registers a book, for a stock in which nothing waits,
\* matches or rests; whoever comes later takes it.
LEMMA CreateBookSInv ==
    ASSUME SInv, NEW c \in Calls, CreateBook(c)
    PROVE  SInv'
<1>0. TypeOK
  BY DEF SInv
<1> DEFINE s == request[c].stock
           book == IF registry[s] = NoBook THEN c ELSE registry[s]
<1>1. /\ Running /\ pc[c] = "creating" /\ Goto(c, "waiting")
      /\ registry' = [registry EXCEPT ![s] = book]
      /\ bookOf' = [bookOf EXCEPT ![c] = book]
      /\ UNCHANGED <<up, degraded, probe, request, reply, resting, eventVars, exitVars>>
  BY DEF CreateBook
<1>2. request[c] \in Requests /\ s \in Stocks
  BY <1>1, RequestTypes DEF SInv, HandlersMeet
<1>3. book \in Calls /\ book # NoBook /\ (registry[s] # NoBook => book = registry[s])
  BY <1>0, <1>2, ServiceAssumption DEF TypeOK
<1>4. /\ bookOf' \in [Calls -> Calls \cup {NoBook}]
      /\ bookOf'[c] = book /\ \A d \in Calls \ {c} : bookOf'[d] = bookOf[d]
      /\ registry' \in [Stocks -> Calls \cup {NoBook}]
      /\ registry'[s] = book /\ \A t \in Stocks \ {s} : registry'[t] = registry[t]
  BY <1>0, <1>1, <1>2, <1>3 DEF TypeOK
<1>5. \A t \in Stocks : registry[t] # NoBook => registry'[t] = registry[t]
  BY <1>3, <1>4
<1> HIDE DEF book
<1>6. /\ pc' \in [Calls -> {"new", "called", "probing", "probed", "admitted", "creating",
                            "waiting", "matching", "done"}]
      /\ pc'[c] = "waiting" /\ \A d \in Calls \ {c} : pc'[d] = pc[d]
  BY <1>0, <1>1, HandlerTypes
<1>7. TypeOK'
  BY <1>0, <1>1, <1>4, <1>6 DEF TypeOK, eventVars, exitVars
<1>8. HandlersMeet'
  <2>1. SUFFICES ASSUME NEW d \in Calls
                 PROVE  /\ pc'[d] # "new" => request[d] \in Requests
                        /\ pc'[d] = "creating" => Placing(d) /\ request[d].valid
                        /\ pc'[d] \in AtBook =>
                              bookOf'[d] # NoBook /\ bookOf'[d] = registry'[request[d].stock]
    BY <1>1 DEF HandlersMeet, Placing
  <2>2. CASE d = c
    BY <1>2, <1>3, <1>4, <1>6, <2>2
  <2>3. CASE d # c
    <3>1. /\ pc'[d] = pc[d] /\ bookOf'[d] = bookOf[d]
          /\ pc[d] # "new" => request[d] \in Requests
          /\ pc[d] = "creating" => Placing(d) /\ request[d].valid
          /\ pc[d] \in AtBook =>
                bookOf[d] # NoBook /\ bookOf[d] = registry[request[d].stock]
      BY <1>4, <1>6, <2>3 DEF SInv, HandlersMeet
    <3>2. pc[d] \in AtBook => request[d].stock \in Stocks
      BY <3>1, RequestTypes DEF AtBook
    <3>3. QED
      BY <1>5, <3>1, <3>2
  <2>4. QED
    BY <2>2, <2>3
<1>9. RestsWhereCancelLooks'
  <2>1. SUFFICES ASSUME NEW r \in resting
                 PROVE  /\ pc'[r.order] # "new" /\ Placing(r.order)
                        /\ r.book = registry'[request[r.order].stock]
                        /\ r.side = PlacedSide(request[r.order])
    BY <1>1 DEF RestsWhereCancelLooks, Placing
  <2>2. /\ r.order \in Calls /\ r.book \in Calls
        /\ pc[r.order] # "new" /\ Placing(r.order)
        /\ r.book = registry[request[r.order].stock]
        /\ r.side = PlacedSide(request[r.order])
    BY <1>0 DEF SInv, TypeOK, RestsWhereCancelLooks
  <2>3. request[r.order].stock \in Stocks
    BY <2>2, RequestTypes DEF SInv, HandlersMeet
  <2>4. registry[request[r.order].stock] # NoBook
    BY <2>2, ServiceAssumption
  <2>5. pc'[r.order] # "new"
    BY <1>6, <2>2
  <2>6. QED
    BY <1>5, <2>2, <2>3, <2>4, <2>5
<1>10. OneMatchPerStock'
  BY <1>1, <1>6 DEF SInv, OneMatchPerStock, InMatch
<1>11. ShutdownOrder'
  BY <1>1, WorkBeforeShutdown DEF AtWork, eventVars
<1>12. QED
  BY <1>7, <1>8, <1>9, <1>10, <1>11 DEF SInv

\* Handlers of one stock ask for one mutex, and it is free.
LEMMA LockSInv ==
    ASSUME SInv, NEW c \in Calls, Lock(c)
    PROVE  SInv'
<1>0. TypeOK
  BY DEF SInv
<1>1. /\ Running /\ pc[c] = "waiting" /\ MutexFree(bookOf[c])
      /\ UNCHANGED <<up, degraded, probe, request, bookOf, registry, eventVars, exitVars>>
      /\ resting' \subseteq resting
      /\ (Goto(c, "matching") /\ UNCHANGED reply) \/ Return(c, "notFound")
  BY DEF Lock
<1>2. PICK state \in {"matching", "done"} : Goto(c, state)
  BY <1>1 DEF Return
<1>3. /\ pc' \in [Calls -> {"new", "called", "probing", "probed", "admitted", "creating",
                            "waiting", "matching", "done"}]
      /\ pc'[c] = state /\ \A d \in Calls \ {c} : pc'[d] = pc[d]
  BY <1>0, <1>2, HandlerTypes
<1>4. reply' \in [Calls -> {"none", "degraded", "invalid", "notFound", "success"}]
  BY <1>0, <1>1, ReturnTypes DEF TypeOK
<1>5. resting' \subseteq [order : Calls, book : Calls, side : {"Buy", "Sell"}]
  BY <1>0, <1>1 DEF TypeOK
<1>6. TypeOK'
  BY <1>0, <1>1, <1>3, <1>4, <1>5 DEF TypeOK, eventVars, exitVars
<1>7. HandlersMeet'
  BY <1>1, <1>3 DEF SInv, HandlersMeet, AtBook, Placing
<1>8. RestsWhereCancelLooks'
  <2>1. \A r \in resting : r.order \in Calls
    BY <1>0 DEF TypeOK
  <2>2. \A d \in Calls : pc[d] # "new" => pc'[d] # "new"
    BY <1>3
  <2>3. QED
    BY <1>1, <2>1, <2>2 DEF SInv, RestsWhereCancelLooks, Placing
<1>9. OneMatchPerStock'
  <2>1. SUFFICES ASSUME NEW d \in Calls, d # c, pc[d] = "matching",
                        request[d].stock = request[c].stock
                 PROVE  FALSE
    BY <1>1, <1>3 DEF SInv, OneMatchPerStock, InMatch
  <2>2. bookOf[d] = bookOf[c]
    BY <1>1, <2>1 DEF SInv, HandlersMeet, AtBook
  <2>3. QED
    BY <1>1, <2>1, <2>2 DEF MutexFree, InMatch
<1>10. ShutdownOrder'
  BY <1>1, WorkBeforeShutdown DEF AtWork, eventVars
<1>11. QED
  BY <1>6, <1>7, <1>8, <1>9, <1>10 DEF SInv

\* What a match leaves rests in the registered book, on the converted side.
LEMMA MatchSInv ==
    ASSUME SInv, NEW c \in Calls, Match(c)
    PROVE  SInv'
<1>0. TypeOK
  BY DEF SInv
<1> DEFINE own == [order |-> c, book |-> bookOf[c], side |-> PlacedSide(request[c])]
<1>1. /\ Running /\ pc[c] = "matching" /\ SafePublish(c) /\ Return(c, "success")
      /\ UNCHANGED <<up, degraded, probe, request, bookOf, registry, exitVars>>
  BY DEF Match, InMatch
<1>2. \A r \in resting' : r \in resting \/ (Placing(c) /\ r = own)
  BY DEF Match
<1>3. /\ reply' \in [Calls -> {"none", "degraded", "invalid", "notFound", "success"}]
      /\ Goto(c, "done")
  BY <1>0, <1>1, ReturnTypes
<1>4. /\ pc' \in [Calls -> {"new", "called", "probing", "probed", "admitted", "creating",
                            "waiting", "matching", "done"}]
      /\ pc'[c] = "done" /\ \A d \in Calls \ {c} : pc'[d] = pc[d]
  BY <1>0, <1>3, HandlerTypes
<1>5. /\ queued' \in 0..QueueSize /\ refused' \subseteq Calls
      /\ refused' = refused \/ closed
  BY <1>0, <1>1, SafePublishTypes
<1>6. /\ bookOf[c] \in Calls /\ bookOf[c] = registry[request[c].stock]
      /\ request[c] \in Requests
  BY <1>0, <1>1 DEF SInv, HandlersMeet, AtBook, TypeOK
<1>7. resting' \subseteq [order : Calls, book : Calls, side : {"Buy", "Sell"}]
  <2>1. own \in [order : Calls, book : Calls, side : {"Buy", "Sell"}]
    BY <1>6, Conversions
  <2>2. QED
    BY <1>0, <1>2, <2>1 DEF TypeOK
<1>8. TypeOK'
  BY <1>0, <1>1, <1>3, <1>4, <1>5, <1>7 DEF TypeOK, exitVars
<1>9. HandlersMeet'
  BY <1>1, <1>4 DEF SInv, HandlersMeet, AtBook, Placing
<1>10. RestsWhereCancelLooks'
  <2>1. SUFFICES ASSUME NEW r \in resting'
                 PROVE  /\ pc'[r.order] # "new" /\ Placing(r.order)
                        /\ r.book = registry[request[r.order].stock]
                        /\ r.side = PlacedSide(request[r.order])
    BY <1>1 DEF RestsWhereCancelLooks, Placing
  <2>2. CASE r \in resting
    BY <1>0, <1>4, <2>2 DEF SInv, TypeOK, RestsWhereCancelLooks
  <2>3. CASE Placing(c) /\ r = own
    BY <1>4, <1>6, <2>3
  <2>4. QED
    BY <1>2, <2>2, <2>3
<1>11. OneMatchPerStock'
  BY <1>1, <1>4 DEF SInv, OneMatchPerStock, InMatch
<1>12. ShutdownOrder'
  BY <1>1, <1>5, WorkBeforeShutdown DEF AtWork
<1>13. QED
  BY <1>8, <1>9, <1>10, <1>11, <1>12 DEF SInv

\* Every step keeps the invariant.
LEMMA NextSInv == SInv /\ [Next]_vars => SInv'
<1> SUFFICES ASSUME SInv, [Next]_vars PROVE SInv'
  OBVIOUS
<1>1. CASE \E k \in Probers : Ping(k) \/ Store(k)
  BY <1>1, HealthSInv
<1>2. CASE \E c \in Calls : \E r \in Requests : Arrive(c, r)
  BY <1>2, ArriveSInv
<1>3. CASE \E c \in Calls : Handle(c)
  <2>1. PICK c \in Calls : Handle(c)
    BY <1>3
  <2>2. QED
    BY <2>1, DegradedSInv, RejectSInv, LoadBookSInv, CreateBookSInv, LockSInv, MatchSInv
       DEF Handle
<1>4. CASE PollerStops
  BY <1>4, PollerStopsSInv
<1>5. CASE Settle \/ Outage
  BY <1>5, SettleSInv
<1>6. CASE Signal \/ DeadlinePasses \/ Shutdown
  BY <1>6, ShutdownSInv
<1>7. CASE UNCHANGED vars
  <2>1. TypeOK' /\ ShutdownOrder'
    BY <1>7 DEF vars, callVars, bookVars, eventVars, exitVars, SInv, TypeOK, ShutdownOrder,
                NoCallInFlight
  <2>2. QED
    BY <1>7, <2>1, AroundTheBooks DEF vars, SInv
<1>8. QED
  BY <1>1, <1>2, <1>3, <1>4, <1>5, <1>6, <1>7 DEF Next

-----------------------------------------------------------------------------
\* The inductive invariant holds throughout.
LEMMA ServiceInvariance == Spec => []SInv
  BY InitSInv, NextSInv, PTL DEF Spec

\* The state of the process is well formed.
THEOREM ServiceTypeCorrect == Spec => []TypeOK
<1>1. SInv => TypeOK
  BY DEF SInv
<1>2. QED
  BY <1>1, ServiceInvariance, PTL

\* However many first orders race for a stock's book, its matches exclude one
\* another (getOrCreateOrderBook, OrderBook.Mu).
THEOREM MatchesExclude == Spec => []OneMatchPerStock
<1>1. SInv => OneMatchPerStock
  BY DEF SInv
<1>2. QED
  BY <1>1, ServiceInvariance, PTL

\* A shutdown whose deadline does not pass answers every call and settles every
\* event (Shutdown, Close).
THEOREM OrderlyShutdown == Spec => []GracefulShutdownSettles
<1>1. SInv => GracefulShutdownSettles
  BY DEF SInv, ShutdownOrder, GracefulShutdownSettles
<1>2. QED
  BY <1>1, ServiceInvariance, PTL

\* A step that answers "not found" does not have the order before it.
LEMMA NotFoundIsTrue ==
    ASSUME SInv, [Next]_vars, NEW c \in Calls,
           reply'[c] = "notFound", reply[c] # "notFound",
           NEW r \in resting, r.order = request[c].order,
           request[r.order].stock = request[c].stock,
           request[r.order].side = request[c].side
    PROVE  FALSE
<1>0. TypeOK
  BY DEF SInv
<1>1. LoadBook(c) \/ Lock(c)
  <2>1. reply' # reply
    OBVIOUS
  <2>2. PICK d \in Calls : Handle(d)
    BY <2>1 DEF Next, vars, callVars, Ping, Store, Arrive, PollerStops, Settle, Outage, Signal,
                DeadlinePasses, Shutdown, StopServer, CloseStreamer, Drained, CloseTimesOut
  <2>3. CASE LoadBook(d) \/ Lock(d)
    <3>1. Return(d, "notFound")
      BY <2>1, <2>3 DEF LoadBook, Lock
    <3>2. d = c
      BY <1>0, <3>1, ReturnTypes
    <3>3. QED
      BY <2>3, <3>2
  <2>4. CASE LoadDegraded(d) \/ Probe(d) \/ ClearDegraded(d) \/ Reject(d) \/ CreateBook(d)
             \/ Match(d)
    <3>1. PICK answer \in {"degraded", "invalid", "success"} : Return(d, answer)
      BY <2>1, <2>4 DEF LoadDegraded, Probe, ClearDegraded, Reject, CreateBook, Match
    <3>2. \A x \in Calls : reply'[x] = answer \/ reply'[x] = reply[x]
      BY <1>0, <3>1, ReturnTypes
    <3>3. QED
      BY <3>2
  <2>5. QED
    BY <2>2, <2>3, <2>4 DEF Handle
<1>2. /\ r \in [order : Calls, book : Calls, side : {"Buy", "Sell"}]
      /\ r.book = registry[request[r.order].stock]
      /\ r.side = PlacedSide(request[r.order])
  BY <1>0 DEF SInv, TypeOK, RestsWhereCancelLooks
<1>3. registry[request[c].stock] \in Calls /\ registry[request[c].stock] # NoBook
  BY <1>2, ServiceAssumption
<1>4. r.side = CancelledSide(request[c])
  BY <1>2 DEF PlacedSide, CancelledSide
<1>5. CASE LoadBook(c)
  <2>1. bookOf'[c] = registry[request[c].stock]
    BY <1>0, <1>5 DEF LoadBook, TypeOK
  <2>2. QED
    BY <1>3, <1>5, <2>1 DEF LoadBook
<1>6. CASE Lock(c)
  <2>1. bookOf[c] = r.book
    BY <1>2, <1>6 DEF Lock, SInv, HandlersMeet, AtBook
  <2>2. r = Target(c)
    BY <1>2, <1>4, <2>1 DEF Target
  <2>3. QED
    BY <1>6, <2>2 DEF Lock
<1>7. QED
  BY <1>1, <1>5, <1>6

\* A cancel with the stock and side of the placement finds a resting order,
\* whichever handler made the book (CancelOrder, the side conversions).
THEOREM CancelsFind == Spec => CancelFindsRestingOrder
<1> DEFINE Found == \A c \in Calls : reply'[c] = "notFound" /\ reply[c] # "notFound" =>
          \A r \in resting : ~( /\ r.order = request[c].order
                                /\ request[r.order].stock = request[c].stock
                                /\ request[r.order].side = request[c].side )
<1>1. SInv /\ [Next]_vars => [Found]_vars
  BY NotFoundIsTrue
<1>2. QED
  BY <1>1, ServiceInvariance, PTL DEF Spec, CancelFindsRestingOrder
=============================================================================
