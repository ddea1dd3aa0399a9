---------------------------- MODULE EventPublisher ----------------------------
(***************************************************************************)
(* The engine's end of the event stream: ValkeyClient of                   *)
(* matching_engine/internal/lib/events/streaming_client/clients/           *)
(* valkey_client.go.                                                       *)
(*                                                                         *)
(* Producers are the goroutines that publish, one at a time each (a match  *)
(* publishes under its book's mutex); they put events into a buffered      *)
(* channel.  One worker takes them out and appends them to the Valkey      *)
(* stream, retrying and waiting for the health flag.  Health probes set    *)
(* the flag.  Close cancels the client's context, closes the channel and   *)
(* waits for the worker or for its own deadline.                           *)
(*                                                                         *)
(* Valkey is outside src/: it is up or down, and an XADD succeeds, fails   *)
(* without effect, or takes effect although the client sees an error.      *)
(* Time is abstract: a timeout may fire whenever the code waits.           *)
(***************************************************************************)
EXTENDS Integers, Sequences, FiniteSets

CONSTANTS
    Producers,   \* the publishing goroutines
    Checkers,    \* the handlers that call IsHealthy, one at a time each
    Poller,      \* the goroutine that calls it every 5 s
    BufferSize,  \* capacity of eventChan (10000 in the service)
    MaxRetries,  \* ValkeyClient.maxRetries (3)
    MaxEvents,   \* bound: how many events a producer publishes
    MaxCopies,   \* bound: copies of an event an error may leave in the stream
    NoEvent

ASSUME ParameterAssumption ==
    /\ BufferSize \in Nat \ {0}
    /\ MaxRetries \in Nat
    /\ MaxEvents \in Nat
    /\ MaxCopies \in Nat
    /\ Poller \notin Checkers

Probers == Checkers \cup {Poller}

\* The n-th event a producer publishes.
Payloads == Producers \X (1..MaxEvents)

ASSUME NoEventAssumption == NoEvent \notin Payloads

VARIABLES
    calls,      \* calls[p]: how many Publish calls p has made
    sending,    \* the producers whose last call is in the select of Publish
    buffer,     \* eventChan
    cancelled,  \* vc.ctx is done
    closed,     \* eventChan is closed
    closer,     \* where Close is
    worker,     \* where worker() is
    current,    \* the payload the worker holds
    draining,   \* publishWithRetry runs on the fresh drain context
    attempt,    \* its loop counter
    healthy,    \* isclientHealthy
    answer,     \* answer[k]: the ping result prober k has not stored yet
    up,         \* Valkey is reachable
    stream,     \* the Valkey stream
    accepted,   \* history: the events Publish accepted, in order
    dropped     \* history: the events the worker dropped

channelVars == <<calls, sending, buffer, accepted>>
closeVars   == <<cancelled, closed, closer>>
workerVars  == <<worker, current, draining, attempt, dropped>>
healthVars  == <<healthy, answer>>
vars == <<channelVars, closeVars, workerVars, healthVars, up, stream>>

Init ==
    /\ calls = [p \in Producers |-> 0]
    /\ sending = {}
    /\ buffer = <<>>
    /\ cancelled = FALSE
    /\ closed = FALSE
    /\ closer = "open"
    /\ worker = "receive"
    /\ current = NoEvent
    /\ draining = FALSE
    /\ attempt = 0
    /\ healthy = TRUE
    /\ answer = [k \in Probers |-> "none"]
    /\ up = TRUE
    /\ stream = <<>>
    /\ accepted = <<>>
    /\ dropped = {}

-----------------------------------------------------------------------------
(***************************************************************************)
(* Publish                                                                 *)
(***************************************************************************)
\* A producer marshals its next event and enters the select.
Publish(p) ==
    /\ p \notin sending
    /\ calls[p] < MaxEvents
    /\ calls' = [calls EXCEPT ![p] = @ + 1]
    /\ sending' = sending \cup {p}
    /\ UNCHANGED <<buffer, accepted, closeVars, workerVars, healthVars, up, stream>>

\* Mutant: Publish hands events over without regard for the capacity.
EnqueueUnbounded(p) ==
    /\ p \in sending
    /\ ~closed
    /\ buffer' = Append(buffer, <<p, calls[p]>>)
    /\ accepted' = Append(accepted, <<p, calls[p]>>)
    /\ sending' = sending \ {p}
    /\ UNCHANGED <<calls, closeVars, workerVars, healthVars, up, stream>>

\* The send case: there is room.  A select with several cases ready picks any
\* of them, so this may happen although vc.ctx is done.
Enqueue(p) ==
    /\ p \in sending
    /\ Len(buffer) < BufferSize
    /\ ~closed
    /\ buffer' = Append(buffer, <<p, calls[p]>>)
    /\ accepted' = Append(accepted, <<p, calls[p]>>)
    /\ sending' = sending \ {p}
    /\ UNCHANGED <<calls, closeVars, workerVars, healthVars, up, stream>>

\* Mutant: no timeout, the producer waits for the channel or the shutdown.
RefuseWithoutTimeout(p) ==
    /\ p \in sending
    /\ cancelled \/ closed
    /\ sending' = sending \ {p}
    /\ UNCHANGED <<calls, buffer, accepted, closeVars, workerVars, healthVars, up, stream>>

\* The other cases and the recovered panic of a send on a closed channel:
\* Publish returns an error, safePublish logs it, the event is gone.  The
\* timeouts only fire while the channel is full.
Refuse(p) ==
    /\ p \in sending
    /\ Len(buffer) >= BufferSize \/ cancelled \/ closed
    /\ sending' = sending \ {p}
    /\ UNCHANGED <<calls, buffer, accepted, closeVars, workerVars, healthVars, up, stream>>

-----------------------------------------------------------------------------
(***************************************************************************)
(* worker                                                                  *)
(***************************************************************************)
\* for payload := range vc.eventChan.
Receive ==
    /\ worker = "receive"
    /\ buffer # <<>>
    /\ current' = Head(buffer)
    /\ buffer' = Tail(buffer)
    /\ worker' = "waitForHealthy"
    /\ UNCHANGED <<calls, sending, accepted, closeVars, draining, attempt, dropped,
                   healthVars, up, stream>>

\* Mutant: the worker leaves as soon as the channel is closed.
StopWorkerAtOnce ==
    /\ worker = "receive"
    /\ closed
    /\ worker' = "stopped"
    /\ UNCHANGED <<channelVars, closeVars, current, draining, attempt, dropped,
                   healthVars, up, stream>>

\* The range loop ends once the channel is closed and empty.
StopWorker ==
    /\ worker = "receive"
    /\ buffer = <<>>
    /\ closed
    /\ worker' = "stopped"
    /\ UNCHANGED <<channelVars, closeVars, current, draining, attempt, dropped,
                   healthVars, up, stream>>

\* Mutant: the context does not end the wait.
WaitForHealthyOnly ==
    /\ worker = "waitForHealthy"
    /\ healthy
    /\ worker' = "choose"
    /\ UNCHANGED <<channelVars, closeVars, current, draining, attempt, dropped,
                   healthVars, up, stream>>

\* waitForHealthy returns when the flag is set or the context is done.
WaitForHealthy ==
    /\ worker = "waitForHealthy"
    /\ healthy \/ cancelled
    /\ worker' = "choose"
    /\ UNCHANGED <<channelVars, closeVars, current, draining, attempt, dropped,
                   healthVars, up, stream>>

\* vc.ctx.Err() decides between publishing on vc.ctx and draining on a fresh
\* context; publishWithRetry begins.
ChooseContext ==
    /\ worker = "choose"
    /\ draining' = cancelled
    /\ attempt' = 0
    /\ worker' = "attempt"
    /\ UNCHANGED <<channelVars, closeVars, current, dropped, healthVars, up, stream>>

\* The context publishWithRetry runs on may be over: vc.ctx when it was
\* cancelled, the drain context when its timeout has passed.
ContextOver == draining \/ cancelled

\* XAdd returned without an error: the worker is done with the event.
XAddSucceeds ==
    /\ worker = "attempt"
    /\ up
    /\ stream' = Append(stream, current)
    /\ current' = NoEvent
    /\ worker' = "receive"
    /\ UNCHANGED <<channelVars, closeVars, draining, attempt, dropped, healthVars, up>>

Copies(e) == Cardinality({i \in DOMAIN stream : stream[i] = e})

\* XAdd returned an error or timed out; with Valkey reachable the entry may be
\* in the stream nevertheless.
XAddFails ==
    /\ worker = "attempt"
    /\ \/ stream' = stream
       \/ /\ up
          /\ Copies(current) < MaxCopies
          /\ stream' = Append(stream, current)
    /\ worker' = IF attempt < MaxRetries THEN "backoff" ELSE "failed"
    /\ UNCHANGED <<channelVars, closeVars, current, draining, attempt, dropped,
                   healthVars, up>>

\* The backoff passes, and the loop tries again.
Backoff ==
    /\ worker = "backoff"
    /\ attempt' = attempt + 1
    /\ worker' = "attempt"
    /\ UNCHANGED <<channelVars, closeVars, current, draining, dropped, healthVars,
                   up, stream>>

\* publishWithRetry sees its context done, before an attempt or in a backoff.
ContextDone ==
    /\ worker \in {"attempt", "backoff"}
    /\ ContextOver
    /\ worker' = "failed"
    /\ UNCHANGED <<channelVars, closeVars, current, draining, attempt, dropped,
                   healthVars, up, stream>>

\* Mutant: every event that could not be published is dropped, as when only
\* one round of retries were made.
FailAlwaysDrops ==
    /\ worker = "failed"
    /\ dropped' = dropped \cup {current}
    /\ current' = NoEvent
    /\ worker' = "receive"
    /\ UNCHANGED <<channelVars, closeVars, healthVars, draining, attempt, up, stream>>

\* publishWithRetry failed.  While the client is open the flag is cleared and
\* the same event is tried again; an event that could not be drained is
\* dropped.
Fail ==
    /\ worker = "failed"
    /\ IF draining
       THEN /\ dropped' = dropped \cup {current}
            /\ current' = NoEvent
            /\ worker' = "receive"
            /\ UNCHANGED healthy
       ELSE /\ healthy' = FALSE
            /\ worker' = "waitForHealthy"
            /\ UNCHANGED <<current, dropped>>
    /\ UNCHANGED <<channelVars, closeVars, draining, attempt, answer, up, stream>>

-----------------------------------------------------------------------------
(***************************************************************************)
(* IsHealthy: the ping and the store are two steps, and probers overlap.   *)
(* A Close that is done has closed the connection the pings go through.    *)
(* A ping runs on its caller's context: the poller's is its own and lasts  *)
(* 1 s, which an answer from a reachable Valkey meets; a handler's is that *)
(* of its client, or 200 ms of it, and may be over at any time.            *)
(***************************************************************************)
PingAnswered(k) ==
    /\ answer[k] = "none"
    /\ up /\ closer # "done"
    /\ answer' = [answer EXCEPT ![k] = "pong"]
    /\ UNCHANGED <<channelVars, closeVars, workerVars, healthy, up, stream>>

PingFails(k) ==
    /\ answer[k] = "none"
    /\ ~up \/ closer = "done" \/ k \in Checkers
    /\ answer' = [answer EXCEPT ![k] = "error"]
    /\ UNCHANGED <<channelVars, closeVars, workerVars, healthy, up, stream>>

\* Mutant: only a failed ping is stored.
StoreHealthFailure(k) ==
    /\ answer[k] # "none"
    /\ healthy' = (healthy /\ answer[k] = "pong")
    /\ answer' = [answer EXCEPT ![k] = "none"]
    /\ UNCHANGED <<channelVars, closeVars, workerVars, up, stream>>

StoreHealth(k) ==
    /\ answer[k] # "none"
    /\ healthy' = (answer[k] = "pong")
    /\ answer' = [answer EXCEPT ![k] = "none"]
    /\ UNCHANGED <<channelVars, closeVars, workerVars, up, stream>>

-----------------------------------------------------------------------------
(***************************************************************************)
(* Close                                                                   *)
(***************************************************************************)
CancelContext ==
    /\ closer = "open"
    /\ cancelled' = TRUE
    /\ closer' = "cancelled"
    /\ UNCHANGED <<channelVars, closed, workerVars, healthVars, up, stream>>

CloseChannel ==
    /\ closer = "cancelled"
    /\ closed' = TRUE
    /\ closer' = "waiting"
    /\ UNCHANGED <<channelVars, cancelled, workerVars, healthVars, up, stream>>

\* wg.Wait() is over: Close returns nil.
CloseDone ==
    /\ closer = "waiting"
    /\ worker = "stopped"
    /\ closer' = "done"
    /\ UNCHANGED <<channelVars, cancelled, closed, workerVars, healthVars, up, stream>>

\* The caller's deadline passes first: Close returns an error, the worker
\* goes on.
CloseTimesOut ==
    /\ closer = "waiting"
    /\ closer' = "timedOut"
    /\ UNCHANGED <<channelVars, cancelled, closed, workerVars, healthVars, up, stream>>

-----------------------------------------------------------------------------
\* Valkey, or the network to it, goes away and comes back.
Outage ==
    /\ up' = ~up
    /\ UNCHANGED <<channelVars, closeVars, workerVars, healthVars, stream>>

Work ==
    \/ Receive \/ StopWorker \/ WaitForHealthy \/ ChooseContext
    \/ XAddSucceeds \/ XAddFails \/ Backoff \/ ContextDone \/ Fail

Close == CancelContext \/ CloseChannel \/ CloseDone \/ CloseTimesOut

Next ==
    \/ \E p \in Producers : Publish(p) \/ Enqueue(p) \/ Refuse(p)
    \/ Work
    \/ \E k \in Probers : PingAnswered(k) \/ PingFails(k) \/ StoreHealth(k)
    \/ Close
    \/ Outage

Spec == Init /\ [][Next]_vars

\* The scheduler runs every goroutine that can run, and the timeouts of Publish
\* fire.  A probe that was answered stores its answer.  The poller keeps
\* probing until the shutdown stops it, just before it closes the client;
\* nothing makes a handler probe.  XADDs that Valkey can answer do not fail for
\* ever: that one is about the network.  Nothing says that Close is called or
\* that Valkey comes back.
Fairness ==
    /\ WF_vars(Work)
    /\ SF_vars(XAddSucceeds)
    /\ \A p \in Producers : WF_vars(Enqueue(p) \/ Refuse(p))
    /\ WF_vars(~cancelled /\ (PingAnswered(Poller) \/ PingFails(Poller)))
    /\ \A k \in Probers : WF_vars(StoreHealth(k))
    /\ WF_vars(CloseChannel) /\ WF_vars(CloseDone)

FairSpec == Spec /\ Fairness
-----------------------------------------------------------------------------
WorkerStates ==
    {"receive", "waitForHealthy", "choose", "attempt", "backoff", "failed", "stopped"}

TypeOK ==
    /\ calls \in [Producers -> 0..MaxEvents]
    /\ sending \subseteq Producers
    /\ buffer \in Seq(Payloads) /\ Len(buffer) <= BufferSize
    /\ cancelled \in BOOLEAN
    /\ closed \in BOOLEAN
    /\ closer \in {"open", "cancelled", "waiting", "done", "timedOut"}
    /\ worker \in WorkerStates
    /\ current \in Payloads \cup {NoEvent}
    /\ draining \in BOOLEAN
    /\ attempt \in 0..MaxRetries
    /\ healthy \in BOOLEAN
    /\ answer \in [Probers -> {"none", "pong", "error"}]
    /\ up \in BOOLEAN
    /\ stream \in Seq(Payloads)
    /\ accepted \in Seq(Payloads)
    /\ dropped \subseteq Payloads

\* The worker holds an event exactly while it works on one.
WorkerHoldsEvent == current = NoEvent <=> worker \in {"receive", "stopped"}

\* What was accepted and is neither in the stream nor dropped yet, in order.
Pending == (IF current = NoEvent THEN <<>> ELSE <<current>>) \o buffer

Delivery == INSTANCE EventDelivery WITH
    pending <- Pending, log <- stream, shuttingDown <- cancelled

\* Accepted events reach the stream at least once each and in the order in
\* which Publish accepted them, whatever Valkey does; only a client that is
\* being closed gives one up (worker, publishWithRetry).
AtLeastOnceInOrder == Delivery!Spec

InStream(e) == \E i \in DOMAIN stream : stream[i] = e

\* When Close returns nil, the worker has dealt with everything that Publish
\* accepted, also with what a racing Publish put in after the cancel.
CloseSettlesEverything ==
    closer = "done" =>
        \A i \in DOMAIN accepted : InStream(accepted[i]) \/ accepted[i] \in dropped

\* A Publish call returns even when Valkey never does and the channel stays
\* full: an outage cannot hold a book's mutex for ever.
PublishReturns ==
    \A p \in Producers : p \in sending ~> p \notin sending

\* No handler has a failed ping to store.
NoFailedCheck == \A k \in Checkers : answer[k] # "error"

\* Once Valkey stays up and callers have stopped giving up on their pings, the
\* health flag recovers, although probers overlap and store old answers, and
\* what was accepted gets into the stream; unless Close comes first.  Before
\* that any number of callers may clear the flag while Valkey is there.  Callers
\* that never stop may keep it cleared whenever the worker looks: the code has
\* nothing against that.
DeliveredAfterRecovery ==
    <>[](up /\ NoFailedCheck) => \A e \in Payloads :
        (\E i \in DOMAIN accepted : accepted[i] = e) ~> (InStream(e) \/ cancelled)

\* After Close the worker stops, whether or not Valkey is there and however
\* many events are left: it does not wait for health any more.
WorkerStopsAfterClose == closed ~> worker = "stopped"
=============================================================================
