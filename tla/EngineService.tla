----------------------------- MODULE EngineService -----------------------------
(***************************************************************************)
(* The engine process around the matching: the gRPC handlers, the health   *)
(* poller and Close of internal/service/matching_engine_service.go, the    *)
(* registry of books (getOrCreateOrderBook), and the shutdown of           *)
(* internal/server/server.go and cmd/server/main.go.                       *)
(*                                                                         *)
(* A call is one PlaceOrder or CancelOrder RPC, and also names the order   *)
(* it places and the book it may create.  What a match does to the book is *)
(* module MatchingEngine's: here it fills some orders of the other side    *)
(* and may leave its own.  The event streamer is what EventDelivery says:  *)
(* a queue whose events get into the stream or, once it is closed, may be  *)
(* given up.                                                               *)
(***************************************************************************)
EXTENDS Integers, FiniteSets

CONSTANTS
    Calls,      \* the PlaceOrder and CancelOrder calls
    Checkers,   \* the clients of HealthCheck, one call at a time each
    Poller,     \* the goroutine that probes every 5 s
    Stocks,
    Requests,   \* what a call may ask for
    QueueSize,  \* room in the streamer's channel
    NoRequest, NoBook

\* PlaceOrderRequest and CancelOrderRequest, as far as they decide anything;
\* valid stands for the checks of SubmitOrder, order for order_id.
ProtoSides == {"UNSPECIFIED", "BUY", "SELL"}
ProtoTypes == {"UNSPECIFIED", "MARKET", "LIMIT"}
PlaceOrderRequest ==
    [method : {"PlaceOrder"}, stock : Stocks, side : ProtoSides,
     type : ProtoTypes, valid : BOOLEAN]
CancelOrderRequest ==
    [method : {"CancelOrder"}, stock : Stocks, side : ProtoSides, order : Calls]

ASSUME ServiceAssumption ==
    /\ Requests \subseteq PlaceOrderRequest \cup CancelOrderRequest
    /\ QueueSize \in Nat \ {0}
    /\ NoRequest \notin Requests
    /\ NoBook \notin Calls
    /\ Poller \notin Checkers

Probers == Checkers \cup {Poller}

VARIABLES
    up,         \* Valkey answers pings and takes events
    degraded,   \* inDegradedMode
    probe,      \* probe[k]: the answer prober k has not stored yet
    request,    \* request[c]: what call c asks for
    pc,         \* pc[c]: where its handler is
    bookOf,     \* bookOf[c]: the book the handler works on
    reply,      \* reply[c]: how the call was answered
    registry,   \* orderBooks: the book of each stock
    resting,    \* the orders that rest, with the book and side they rest on
    queued,     \* how many accepted events the streamer has not settled
    refused,    \* history: calls whose event a closed streamer refused
    phase,      \* where main is
    deadline,   \* the context that Shutdown or Close waits with is done
    closed      \* streamer.Close has been called

callVars == <<request, pc, bookOf, reply>>
bookVars == <<registry, resting>>
eventVars == <<queued, refused>>
exitVars == <<phase, deadline, closed>>
vars == <<up, degraded, probe, callVars, bookVars, eventVars, exitVars>>

\* NewMatchingEngineService: the flag is the result of a first probe.
Init ==
    /\ up \in BOOLEAN
    /\ degraded = ~up
    /\ probe = [k \in Probers |-> "idle"]
    /\ request = [c \in Calls |-> NoRequest]
    /\ pc = [c \in Calls |-> "new"]
    /\ bookOf = [c \in Calls |-> NoBook]
    /\ reply = [c \in Calls |-> "none"]
    /\ registry = [s \in Stocks |-> NoBook]
    /\ resting = {}
    /\ queued = 0
    /\ refused = {}
    /\ phase = "serving"
    /\ deadline = FALSE
    /\ closed = FALSE

Running == phase # "exited"
Serving == phase = "serving"
Placing(c) == request[c].method = "PlaceOrder"
Goto(c, state) == pc' = [pc EXCEPT ![c] = state]

\* The handler of c returns.
Return(c, answer) ==
    /\ Goto(c, "done")
    /\ reply' = [reply EXCEPT ![c] = answer]

-----------------------------------------------------------------------------
(***************************************************************************)
(* Health: HealthCheck and the poller store the answer of their ping.      *)
(***************************************************************************)
\* The ping is answered.  The poller's probe ends with its context of 1 s; a
\* HealthCheck runs on its caller's context, which may be over at once, and
\* starts only while the server takes calls.
Ping(k) ==
    /\ Running
    /\ probe[k] = "idle"
    /\ k \in Checkers => Serving
    /\ \/ up /\ probe' = [probe EXCEPT ![k] = "ok"]
       \/ (~up \/ k \in Checkers) /\ probe' = [probe EXCEPT ![k] = "bad"]
    /\ UNCHANGED <<up, degraded, callVars, bookVars, eventVars, exitVars>>

\* Mutants: a success, a failure is not stored.
StoreFailureOnly(k) ==
    /\ Running
    /\ probe[k] \in {"ok", "bad"}
    /\ degraded' = (degraded \/ probe[k] = "bad")
    /\ probe' = [probe EXCEPT ![k] = "idle"]
    /\ UNCHANGED <<up, callVars, bookVars, eventVars, exitVars>>

StoreSuccessOnly(k) ==
    /\ Running
    /\ probe[k] \in {"ok", "bad"}
    /\ degraded' = (degraded /\ probe[k] = "bad")
    /\ probe' = [probe EXCEPT ![k] = "idle"]
    /\ UNCHANGED <<up, callVars, bookVars, eventVars, exitVars>>

Store(k) ==
    /\ Running
    /\ probe[k] \in {"ok", "bad"}
    /\ degraded' = (probe[k] = "bad")
    /\ probe' = [probe EXCEPT ![k] = "idle"]
    /\ UNCHANGED <<up, callVars, bookVars, eventVars, exitVars>>

\* The poller sees svc.ctx done.
PollerStops ==
    /\ phase = "closing"
    /\ probe[Poller] = "idle"
    /\ probe' = [probe EXCEPT ![Poller] = "stopped"]
    /\ UNCHANGED <<up, degraded, callVars, bookVars, eventVars, exitVars>>

\* Valkey goes away and comes back.
Outage ==
    /\ Running
    /\ up' = ~up
    /\ UNCHANGED <<degraded, probe, callVars, bookVars, eventVars, exitVars>>

-----------------------------------------------------------------------------
(***************************************************************************)
(* PlaceOrder and CancelOrder.                                             *)
(***************************************************************************)
\* A call arrives at the gRPC server, which decodes it and calls its handler.
Arrive(c, r) ==
    /\ Serving
    /\ pc[c] = "new"
    /\ request' = [request EXCEPT ![c] = r]
    /\ Goto(c, "called")
    /\ UNCHANGED <<up, degraded, probe, bookOf, reply, bookVars, eventVars, exitVars>>

\* The handler loads the degraded flag.
LoadDegraded(c) ==
    /\ Running
    /\ pc[c] = "called"
    /\ Goto(c, IF degraded THEN "probing" ELSE "admitted")
    /\ UNCHANGED <<up, degraded, probe, request, bookOf, reply, bookVars, eventVars,
                   exitVars>>

\* In degraded mode it probes once: on an answer it goes on to clear the flag,
\* otherwise, or when its 200 ms are over, the call is refused.
Probe(c) ==
    /\ Running
    /\ pc[c] = "probing"
    /\ \/ up /\ Goto(c, "probed") /\ UNCHANGED reply
       \/ Return(c, "degraded")
    /\ UNCHANGED <<up, degraded, probe, request, bookOf, bookVars, eventVars, exitVars>>

ClearDegraded(c) ==
    /\ Running
    /\ pc[c] = "probed"
    /\ degraded' = FALSE
    /\ Goto(c, "admitted")
    /\ UNCHANGED <<up, probe, request, bookOf, reply, bookVars, eventVars, exitVars>>

\* Mutant: without a side, a cancel looks at the bids.
CancelledSideDefaultsToBuy(r) == IF r.side = "SELL" THEN "Sell" ELSE "Buy"

\* The conversions of the two handlers: what is not BUY is a sell, what is not
\* MARKET is a limit order.
PlacedSide(r) == IF r.side = "BUY" THEN "Buy" ELSE "Sell"
PlacedType(r) == IF r.type = "MARKET" THEN "Market" ELSE "Limit"
CancelledSide(r) == IF r.side = "BUY" THEN "Buy" ELSE "Sell"

\* Mutant: there is always room for one more event.
SafePublishUnbounded(c) ==
    \/ ~closed /\ queued' = queued + 1 /\ UNCHANGED refused
    \/ closed /\ refused' = refused \cup {c} /\ UNCHANGED queued

\* safePublish: the streamer takes the event, or it is gone; which never keeps
\* the handler.
SafePublish(c) ==
    \/ queued < QueueSize /\ ~closed /\ queued' = queued + 1 /\ UNCHANGED refused
    \/ closed /\ refused' = refused \cup {c} /\ UNCHANGED queued
    \/ queued = QueueSize /\ UNCHANGED eventVars

\* SubmitOrder refuses an invalid order before it looks for a book.
Reject(c) ==
    /\ Running
    /\ pc[c] = "admitted"
    /\ Placing(c) /\ ~request[c].valid
    /\ SafePublish(c)
    /\ Return(c, "invalid")
    /\ UNCHANGED <<up, degraded, probe, request, bookOf, bookVars, exitVars>>

\* The stock's book is loaded.  Without one, SubmitOrder goes on to create it
\* and CancelOrder has not found its order.
LoadBook(c) ==
    /\ Running
    /\ pc[c] = "admitted"
    /\ Placing(c) => request[c].valid
    /\ bookOf' = [bookOf EXCEPT ![c] = registry[request[c].stock]]
    /\ CASE bookOf'[c] # NoBook -> Goto(c, "waiting") /\ UNCHANGED reply
         [] bookOf'[c] = NoBook /\ Placing(c) -> Goto(c, "creating") /\ UNCHANGED reply
         [] bookOf'[c] = NoBook /\ ~Placing(c) -> Return(c, "notFound")
    /\ UNCHANGED <<up, degraded, probe, request, bookVars, eventVars, exitVars>>

\* Mutant: Store and not LoadOrStore.
CreateBookAlways(c) ==
    /\ Running
    /\ pc[c] = "creating"
    /\ registry' = [registry EXCEPT ![request[c].stock] = c]
    /\ bookOf' = [bookOf EXCEPT ![c] = c]
    /\ Goto(c, "waiting")
    /\ UNCHANGED <<up, degraded, probe, request, reply, resting, eventVars, exitVars>>

\* LoadOrStore of a new book: another handler may have been first.
CreateBook(c) ==
    /\ Running
    /\ pc[c] = "creating"
    /\ LET s == request[c].stock
           book == IF registry[s] = NoBook THEN c ELSE registry[s]
       IN  /\ registry' = [registry EXCEPT ![s] = book]
           /\ bookOf' = [bookOf EXCEPT ![c] = book]
    /\ Goto(c, "waiting")
    /\ UNCHANGED <<up, degraded, probe, request, reply, resting, eventVars, exitVars>>

InMatch(c) == pc[c] = "matching"

MutexFree(book) == \A c \in Calls : InMatch(c) => bookOf[c] # book

\* What CancelOrder looks up on the side the caller names.
Target(c) ==
    [order |-> request[c].order, book |-> bookOf[c], side |-> CancelledSide(request[c])]

\* Mu.Lock().  A cancel removes its order from the book, or returns.
Lock(c) ==
    /\ Running
    /\ pc[c] = "waiting"
    /\ MutexFree(bookOf[c])
    /\ IF Placing(c) \/ Target(c) \in resting
       THEN Goto(c, "matching") /\ UNCHANGED reply
       ELSE Return(c, "notFound")
    /\ resting' = IF Placing(c) THEN resting ELSE resting \ {Target(c)}
    /\ UNCHANGED <<up, degraded, probe, request, bookOf, registry, eventVars, exitVars>>

\* The rest of the critical section, and Mu.Unlock(): a match fills orders of
\* the other side, and what remains of a limit order rests.
Match(c) ==
    /\ Running
    /\ InMatch(c)
    /\ SafePublish(c)
    /\ Return(c, "success")
    /\ IF Placing(c)
       THEN LET own == [order |-> c, book |-> bookOf[c], side |-> PlacedSide(request[c])]
                makers == {r \in resting : r.book = own.book /\ r.side # own.side}
                rests == IF PlacedType(request[c]) = "Limit" THEN {own} ELSE {}
            IN  \E filled \in SUBSET makers, left \in {{}, rests} :
                    resting' = (resting \ filled) \cup left
       ELSE UNCHANGED resting
    /\ UNCHANGED <<up, degraded, probe, request, bookOf, registry, exitVars>>

\* Mutant: the worker waits for Valkey although the streamer is closed.
SettleOnlyWhenUp ==
    /\ Running
    /\ queued > 0
    /\ up
    /\ queued' = queued - 1
    /\ UNCHANGED <<up, degraded, probe, callVars, bookVars, refused, exitVars>>

\* The streamer's worker settles the oldest event.
Settle ==
    /\ Running
    /\ queued > 0
    /\ up \/ closed
    /\ queued' = queued - 1
    /\ UNCHANGED <<up, degraded, probe, callVars, bookVars, refused, exitVars>>

-----------------------------------------------------------------------------
(***************************************************************************)
(* Shutdown, called by main on a signal.                                   *)
(***************************************************************************)
\* GracefulStop takes no new call.
Signal ==
    /\ phase = "serving"
    /\ phase' = "stopping"
    /\ UNCHANGED <<up, degraded, probe, callVars, bookVars, eventVars, deadline, closed>>

\* The deadline of Shutdown, or the shorter one of the service's Close.
DeadlinePasses ==
    /\ phase \in {"stopping", "closing", "draining"}
    /\ deadline' = TRUE
    /\ UNCHANGED <<up, degraded, probe, callVars, bookVars, eventVars, phase, closed>>

NoCallInFlight ==
    /\ \A c \in Calls : pc[c] \in {"new", "done"}
    /\ \A k \in Checkers : probe[k] = "idle"

\* Mutant: Shutdown goes on at once, as with Stop for GracefulStop.
StopAtOnce ==
    /\ phase = "stopping"
    /\ phase' = "closing"
    /\ UNCHANGED <<up, degraded, probe, callVars, bookVars, eventVars, deadline, closed>>

\* GracefulStop is done, or the deadline has passed and Stop, which waits for
\* no handler, is called.  The service's Close cancels the poller.
StopServer ==
    /\ phase = "stopping"
    /\ NoCallInFlight \/ deadline
    /\ phase' = "closing"
    /\ UNCHANGED <<up, degraded, probe, callVars, bookVars, eventVars, deadline, closed>>

\* Close of the service has waited for the poller and closes the streamer.
CloseStreamer ==
    /\ phase = "closing"
    /\ probe[Poller] = "stopped"
    /\ phase' = "draining"
    /\ closed' = TRUE
    /\ UNCHANGED <<up, degraded, probe, callVars, bookVars, eventVars, deadline>>

\* Its worker is done; Shutdown and main return.
Drained ==
    /\ phase = "draining"
    /\ queued = 0
    /\ phase' = "exited"
    /\ UNCHANGED <<up, degraded, probe, callVars, bookVars, eventVars, deadline, closed>>

\* Either wait of the two Close ends with the deadline.
CloseTimesOut ==
    /\ phase \in {"closing", "draining"}
    /\ deadline
    /\ phase' = "exited"
    /\ UNCHANGED <<up, degraded, probe, callVars, bookVars, eventVars, deadline, closed>>

Handle(c) ==
    \/ LoadDegraded(c) \/ Probe(c) \/ ClearDegraded(c)
    \/ Reject(c) \/ LoadBook(c) \/ CreateBook(c) \/ Lock(c) \/ Match(c)

Shutdown == StopServer \/ CloseStreamer \/ Drained \/ CloseTimesOut

Next ==
    \/ \E k \in Probers : Ping(k) \/ Store(k)
    \/ \E c \in Calls : Handle(c) \/ \E r \in Requests : Arrive(c, r)
    \/ PollerStops \/ Settle
    \/ Outage
    \/ Signal \/ DeadlinePasses \/ Shutdown

Spec == Init /\ [][Next]_vars

\* The scheduler runs what can run: handlers, worker, poller with its ticker.
\* A select with a tick and a done context picks either, so the poller stops
\* in the end.  Nothing makes the deadline pass, Valkey return or clients call.
Fairness ==
    /\ \A k \in Probers : WF_vars(Store(k))
    /\ WF_vars(Ping(Poller)) /\ SF_vars(PollerStops)
    /\ \A c \in Calls : WF_vars(Handle(c))
    /\ WF_vars(Settle) /\ WF_vars(Shutdown)

FairSpec == Spec /\ Fairness
-----------------------------------------------------------------------------
TypeOK ==
    /\ up \in BOOLEAN
    /\ degraded \in BOOLEAN
    /\ probe \in [Probers -> {"idle", "ok", "bad", "stopped"}]
    /\ request \in [Calls -> Requests \cup {NoRequest}]
    /\ pc \in [Calls -> {"new", "called", "probing", "probed", "admitted", "creating",
                         "waiting", "matching", "done"}]
    /\ bookOf \in [Calls -> Calls \cup {NoBook}]
    /\ reply \in [Calls -> {"none", "degraded", "invalid", "notFound", "success"}]
    /\ registry \in [Stocks -> Calls \cup {NoBook}]
    /\ resting \subseteq [order : Calls, book : Calls, side : {"Buy", "Sell"}]
    /\ queued \in 0..QueueSize
    /\ refused \subseteq Calls
    /\ phase \in {"serving", "stopping", "closing", "draining", "exited"}
    /\ deadline \in BOOLEAN
    /\ closed \in BOOLEAN

\* Two first orders of a stock may each make a book, but handlers of one stock
\* always meet at one mutex: they never match at the same time.
OneMatchPerStock ==
    \A c, d \in Calls :
        InMatch(c) /\ InMatch(d) /\ request[c].stock = request[d].stock => c = d

\* A cancel that names the stock, the order and the side as the order was
\* placed with is never answered "not found" while the order rests, whichever
\* book was created first and whatever side an unspecified one becomes.
CancelFindsRestingOrder ==
    [][\A c \in Calls : reply'[c] = "notFound" /\ reply[c] # "notFound" =>
          \A r \in resting : ~( /\ r.order = request[c].order
                                /\ request[r.order].stock = request[c].stock
                                /\ request[r.order].side = request[c].side )]_vars

\* Probes overlap and store old answers; still the service does not stay in
\* degraded mode once Valkey stays up, nor out of it once Valkey stays away.
DegradedModeEnds == <>[](up /\ Serving) => []<>~degraded
OutageIsNoticed == <>[](~up /\ Serving) => <>[]degraded

\* A shutdown in time has answered every call, and the streamer was closed
\* after the last publish and settled all it took (Shutdown, Close).
GracefulShutdownSettles ==
    phase = "exited" /\ ~deadline => NoCallInFlight /\ refused = {} /\ queued = 0

\* A shutdown needs no deadline to end, with Valkey away as well.
ShutdownCompletes == phase = "stopping" ~> phase = "exited"
=============================================================================
