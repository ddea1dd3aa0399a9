------------------------- MODULE EventPublisherProofs -------------------------
(***************************************************************************)
(* The event publisher delivers at least once and in order, for any number *)
(* of producers and probers, any buffer and any number of retries.         *)
(***************************************************************************)
EXTENDS EventPublisher, SequenceTheorems, TLAPS

\* A producer inside Publish has made a call.
SendersHaveCalled == \A p \in sending : calls[p] # 0

\* The worker backs off only when another attempt follows.
RetriesLeft == worker = "backoff" => attempt < MaxRetries

\* A drain context is only made when the client's own context is over.
DrainsAfterCancel == draining => cancelled

\* What the refinement needs to know of a state.
PInv == TypeOK /\ WorkerHoldsEvent /\ SendersHaveCalled /\ RetriesLeft /\ DrainsAfterCancel

\* The invariant holds of a client that New has just made.
LEMMA InitPInv == Init => PInv
<1> SUFFICES ASSUME Init PROVE PInv
  OBVIOUS
<1>1. /\ buffer \in Seq(Payloads) /\ Len(buffer) <= BufferSize
      /\ stream \in Seq(Payloads)
      /\ accepted \in Seq(Payloads)
  <2>1. <<>> \in Seq(Payloads) /\ Len(<<>>) = 0 /\ 0 <= BufferSize
    BY EmptySeq, LenProperties, ParameterAssumption
  <2>2. QED
    BY <2>1 DEF Init
<1>2. calls \in [Producers -> 0..MaxEvents] /\ attempt \in 0..MaxRetries
  BY ParameterAssumption DEF Init
<1>3. answer \in [Probers -> {"none", "pong", "error"}]
  BY DEF Init
<1>4. TypeOK
  BY <1>1, <1>2, <1>3 DEF Init, TypeOK, WorkerStates
<1>5. WorkerHoldsEvent /\ SendersHaveCalled /\ RetriesLeft /\ DrainsAfterCancel
  BY DEF Init, WorkerHoldsEvent, SendersHaveCalled, RetriesLeft, DrainsAfterCancel
<1>6. QED
  BY <1>4, <1>5 DEF PInv

-----------------------------------------------------------------------------
(***************************************************************************)
(* Every step keeps PInv.  The lemmas follow the parts of the client.      *)
(***************************************************************************)
\* A producer's step keeps the invariant: the send case only fires with room.
LEMMA PublishPInv ==
    ASSUME PInv, NEW p \in Producers, Publish(p) \/ Enqueue(p) \/ Refuse(p)
    PROVE  PInv'
<1> USE DEF PInv
<1>0. RetriesLeft' /\ DrainsAfterCancel'
  BY DEF Publish, Enqueue, Refuse, RetriesLeft, DrainsAfterCancel, workerVars, closeVars
<1>1. CASE Publish(p)
  <2>1. calls[p] \in Nat /\ calls[p] + 1 \in 0..MaxEvents /\ calls[p] + 1 # 0
    <3>1. calls[p] \in 0..MaxEvents /\ MaxEvents \in Nat /\ calls[p] < MaxEvents
      BY <1>1, ParameterAssumption DEF TypeOK, Publish
    <3>2. QED
      BY <3>1
  <2>2. calls' = [calls EXCEPT ![p] = calls[p] + 1] /\ sending' = sending \cup {p}
    BY <1>1 DEF Publish
  <2>3. calls' \in [Producers -> 0..MaxEvents] /\ sending' \subseteq Producers
    BY <2>1, <2>2 DEF TypeOK
  <2>4. TypeOK'
    BY <1>1, <2>3 DEF Publish, TypeOK, closeVars, workerVars, healthVars
  <2>5. WorkerHoldsEvent'
    BY <1>1 DEF Publish, WorkerHoldsEvent, workerVars
  <2>6. SendersHaveCalled'
    BY <2>1, <2>2 DEF SendersHaveCalled, TypeOK
  <2>7. QED
    BY <1>0, <2>4, <2>5, <2>6
<1>2. CASE Enqueue(p)
  <2> DEFINE e == <<p, calls[p]>>
  <2>1. e \in Payloads
    <3>1. calls[p] \in 0..MaxEvents /\ calls[p] # 0 /\ MaxEvents \in Nat
      BY <1>2, ParameterAssumption DEF Enqueue, TypeOK, SendersHaveCalled
    <3>2. calls[p] \in 1..MaxEvents
      BY <3>1
    <3>3. QED
      BY <3>2 DEF Payloads
  <2> HIDE DEF e
  <2>2. buffer' = Append(buffer, e) /\ accepted' = Append(accepted, e)
    BY <1>2 DEF Enqueue, e
  <2>3. /\ buffer' \in Seq(Payloads)
        /\ Len(buffer') = Len(buffer) + 1
        /\ accepted' \in Seq(Payloads)
    BY <2>1, <2>2, AppendProperties DEF TypeOK
  <2>4. Len(buffer) \in Nat /\ Len(buffer) < BufferSize
    BY <1>2, LenProperties DEF Enqueue, TypeOK
  <2>5. Len(buffer') <= BufferSize
    BY <2>3, <2>4, ParameterAssumption
  <2>6. TypeOK'
    BY <1>2, <2>3, <2>5 DEF Enqueue, TypeOK, closeVars, workerVars, healthVars
  <2>7. WorkerHoldsEvent' /\ SendersHaveCalled'
    BY <1>2 DEF Enqueue, WorkerHoldsEvent, SendersHaveCalled, workerVars
  <2>8. QED
    BY <1>0, <2>6, <2>7
<1>3. CASE Refuse(p)
  <2>1. TypeOK'
    BY <1>3 DEF Refuse, TypeOK, closeVars, workerVars, healthVars
  <2>2. WorkerHoldsEvent' /\ SendersHaveCalled'
    BY <1>3 DEF Refuse, WorkerHoldsEvent, SendersHaveCalled, workerVars
  <2>3. QED
    BY <1>0, <2>1, <2>2
<1>4. QED
  BY <1>1, <1>2, <1>3

\* A step of the worker keeps the invariant.
LEMMA WorkPInv ==
    ASSUME PInv, Work
    PROVE  PInv'
<1> USE DEF PInv
<1>0. SendersHaveCalled'
  BY DEF Work, Receive, StopWorker, WaitForHealthy, ChooseContext, XAddSucceeds, XAddFails,
         Backoff, ContextDone, Fail, SendersHaveCalled, channelVars
<1>r. RetriesLeft' /\ DrainsAfterCancel'
  BY DEF Work, Receive, StopWorker, WaitForHealthy, ChooseContext, XAddSucceeds, XAddFails,
         Backoff, ContextDone, Fail, RetriesLeft, DrainsAfterCancel, closeVars
<1>1. CASE Receive
  <2>1. buffer \in Seq(Payloads) /\ buffer # <<>>
    BY <1>1 DEF Receive, TypeOK
  <2>2. /\ Head(buffer) \in Payloads
        /\ Tail(buffer) \in Seq(Payloads)
        /\ Len(Tail(buffer)) = Len(buffer) - 1
        /\ Len(buffer) \in Nat
    BY <2>1, HeadTailProperties, LenProperties
  <2>3. Len(Tail(buffer)) <= BufferSize
    BY <2>2, ParameterAssumption DEF TypeOK
  <2>4. TypeOK'
    BY <1>1, <2>2, <2>3 DEF Receive, TypeOK, closeVars, healthVars, WorkerStates
  <2>5. WorkerHoldsEvent'
    BY <1>1, <2>2, NoEventAssumption DEF Receive, WorkerHoldsEvent
  <2>6. QED
    BY <2>4, <2>5, <1>0, <1>r
<1>2. CASE StopWorker
  BY <1>0, <1>r, <1>2 DEF StopWorker, TypeOK, WorkerHoldsEvent, channelVars, closeVars, healthVars,
                    WorkerStates
<1>3. CASE WaitForHealthy
  BY <1>0, <1>r, <1>3 DEF WaitForHealthy, TypeOK, WorkerHoldsEvent, channelVars, closeVars,
                    healthVars, WorkerStates
<1>4. CASE ChooseContext
  <2>1. 0 \in 0..MaxRetries
    BY ParameterAssumption
  <2>2. QED
    BY <1>0, <1>r, <1>4, <2>1 DEF ChooseContext, TypeOK, WorkerHoldsEvent, channelVars, closeVars,
                            healthVars, WorkerStates
<1>5. CASE XAddSucceeds
  <2>1. current \in Payloads
    BY <1>5 DEF XAddSucceeds, TypeOK, WorkerHoldsEvent
  <2>2. stream' \in Seq(Payloads)
    BY <1>5, <2>1, AppendProperties DEF XAddSucceeds, TypeOK
  <2>3. QED
    BY <1>0, <1>r, <1>5, <2>2 DEF XAddSucceeds, TypeOK, WorkerHoldsEvent, channelVars, closeVars,
                            healthVars, WorkerStates
<1>6. CASE XAddFails
  <2>1. current \in Payloads
    BY <1>6 DEF XAddFails, TypeOK, WorkerHoldsEvent
  <2>2. Append(stream, current) \in Seq(Payloads)
    BY <2>1, AppendProperties DEF TypeOK
  <2>3. stream' \in Seq(Payloads)
    BY <1>6, <2>2 DEF XAddFails, TypeOK
  <2>4. worker' \in {"backoff", "failed"} /\ worker = "attempt"
    BY <1>6 DEF XAddFails
  <2>5. QED
    BY <1>0, <1>r, <1>6, <2>3, <2>4 DEF XAddFails, TypeOK, WorkerHoldsEvent, channelVars,
                                  closeVars, healthVars, WorkerStates
<1>7. CASE Backoff
  <2>1. attempt + 1 \in 0..MaxRetries
    BY <1>7, ParameterAssumption DEF Backoff, RetriesLeft, TypeOK
  <2>2. QED
    BY <1>0, <1>r, <1>7, <2>1 DEF Backoff, TypeOK, WorkerHoldsEvent, channelVars, closeVars,
                            healthVars, WorkerStates
<1>8. CASE ContextDone
  BY <1>0, <1>r, <1>8 DEF ContextDone, TypeOK, WorkerHoldsEvent, channelVars, closeVars, healthVars,
                    WorkerStates
<1>9. CASE Fail
  <2>1. current \in Payloads
    BY <1>9 DEF Fail, TypeOK, WorkerHoldsEvent
  <2>2. CASE draining
    BY <1>0, <1>r, <1>9, <2>1, <2>2 DEF Fail, TypeOK, WorkerHoldsEvent, channelVars, closeVars,
                                  WorkerStates
  <2>3. CASE ~draining
    BY <1>0, <1>r, <1>9, <2>3 DEF Fail, TypeOK, WorkerHoldsEvent, channelVars, closeVars,
                            WorkerStates
  <2>4. QED
    BY <2>2, <2>3
<1>10. QED
  BY <1>1, <1>2, <1>3, <1>4, <1>5, <1>6, <1>7, <1>8, <1>9 DEF Work

\* Probes, Close and outages keep the invariant.
LEMMA OtherPInv ==
    ASSUME PInv,
           \/ \E k \in Probers : PingAnswered(k) \/ PingFails(k) \/ StoreHealth(k)
           \/ Close
           \/ Outage
           \/ UNCHANGED vars
    PROVE  PInv'
<1> USE DEF PInv
<1>1. UNCHANGED <<channelVars, workerVars, stream>>
  BY DEF PingAnswered, PingFails, StoreHealth, Close, CancelContext, CloseChannel, CloseDone,
         CloseTimesOut, Outage, vars
<1>2. WorkerHoldsEvent' /\ SendersHaveCalled' /\ RetriesLeft'
  BY <1>1 DEF WorkerHoldsEvent, SendersHaveCalled, RetriesLeft, channelVars, workerVars
<1>d. DrainsAfterCancel'
  BY <1>1 DEF PingAnswered, PingFails, StoreHealth, Close, CancelContext, CloseChannel,
         CloseDone, CloseTimesOut, Outage, vars, DrainsAfterCancel, closeVars, workerVars
<1>3. /\ healthy' \in BOOLEAN
      /\ answer' \in [Probers -> {"none", "pong", "error"}]
      /\ up' \in BOOLEAN
      /\ cancelled' \in BOOLEAN
      /\ closed' \in BOOLEAN
      /\ closer' \in {"open", "cancelled", "waiting", "done", "timedOut"}
  BY DEF PingAnswered, PingFails, StoreHealth, Close, CancelContext, CloseChannel, CloseDone,
         CloseTimesOut, Outage, vars, TypeOK, closeVars, healthVars
<1>4. TypeOK'
  BY <1>1, <1>3 DEF TypeOK, channelVars, workerVars
<1>5. QED
  BY <1>2, <1>4, <1>d

\* Every step, and every stutter, keeps the invariant.
LEMMA NextPInv == PInv /\ [Next]_vars => PInv'
BY PublishPInv, WorkPInv, OtherPInv DEF Next

\* The invariant holds in every state of every behavior.
THEOREM PublisherInvariance == Spec => []PInv
BY InitPInv, NextPInv, PTL DEF Spec

\* Every variable of the client is well typed: the channel never holds more
\* than its capacity, and no publish makes more than MaxRetries + 1 attempts.
THEOREM PublisherTypeCorrect == Spec => []TypeOK
<1>1. PInv => TypeOK
  BY DEF PInv
<1>2. QED
  BY <1>1, PublisherInvariance, PTL

-----------------------------------------------------------------------------
(***************************************************************************)
(* The refinement: what is pending is the event in the worker's hands and  *)
(* then the channel.                                                       *)
(***************************************************************************)
\* With the worker idle, what is pending is the channel's content.
LEMMA PendingEmptyHand ==
    ASSUME TypeOK, current = NoEvent
    PROVE  Pending = buffer
<1>1. buffer \in Seq(Payloads)
  BY DEF TypeOK
<1>2. QED
  BY <1>1, ConcatEmptySeq DEF Pending

\* With an event in the worker's hands, that event is the oldest pending one.
LEMMA PendingFullHand ==
    ASSUME TypeOK, current # NoEvent
    PROVE  /\ Pending = <<current>> \o buffer
           /\ Pending # <<>>
           /\ Head(Pending) = current
           /\ Tail(Pending) = buffer
<1>1. buffer \in Seq(Payloads) /\ current \in Payloads
  BY DEF TypeOK
<1>2. Pending = <<current>> \o buffer
  BY DEF Pending
<1>3. QED
  BY <1>1, <1>2

\* Only Publish, the worker and the cancel touch what the refinement shows.
LEMMA PendingUnchanged ==
    ASSUME UNCHANGED <<current, buffer, stream, cancelled>>
    PROVE  UNCHANGED Delivery!vars
BY DEF Pending, Delivery!vars

\* The client starts with nothing pending, an empty stream and an open context.
LEMMA InitDelivers == Init => Delivery!Init
<1> SUFFICES ASSUME Init PROVE Delivery!Init
  OBVIOUS
<1>1. Pending = buffer
  BY InitPInv, PendingEmptyHand DEF Init, PInv
<1>2. QED
  BY <1>1 DEF Init, Delivery!Init

\* The send case of Publish is Accept.
LEMMA EnqueueDelivers ==
    ASSUME PInv, NEW p \in Producers, Enqueue(p)
    PROVE  \E e \in Payloads : Delivery!Accept(e)
<1> DEFINE e == <<p, calls[p]>>
<1>1. e \in Payloads
  <2>1. calls[p] \in 0..MaxEvents /\ calls[p] # 0 /\ MaxEvents \in Nat
    BY ParameterAssumption DEF Enqueue, PInv, TypeOK, SendersHaveCalled
  <2>2. calls[p] \in 1..MaxEvents
    BY <2>1
  <2>3. QED
    BY <2>2 DEF Payloads
<1> HIDE DEF e
<1>2. buffer' = Append(buffer, e)
  BY DEF Enqueue, e
<1>3. UNCHANGED <<current, stream, cancelled>>
  BY DEF Enqueue, workerVars, closeVars
<1>4. buffer \in Seq(Payloads) /\ TypeOK
  BY DEF PInv, TypeOK
<1>5. buffer' \in Seq(Payloads)
  BY <1>1, <1>2, <1>4, AppendProperties
<1>6. Pending' = Append(Pending, e)
  <2>1. CASE current = NoEvent
    <3>1. Pending = buffer
      BY <1>4, <2>1, PendingEmptyHand
    <3>2. Pending' = buffer'
      BY <1>3, <1>5, <2>1, ConcatEmptySeq DEF Pending
    <3>3. QED
      BY <1>2, <3>1, <3>2
  <2>2. CASE current # NoEvent
    <3>1. current \in Payloads
      BY <1>4, <2>2 DEF TypeOK
    <3>2. Pending = <<current>> \o buffer /\ Pending' = <<current>> \o buffer'
      BY <1>3, <2>2 DEF Pending
    <3>3. <<current>> \o Append(buffer, e) = Append(<<current>> \o buffer, e)
      BY <1>1, <1>4, <3>1
    <3>4. QED
      BY <1>2, <3>2, <3>3
  <2>3. QED
    BY <2>1, <2>2
<1>7. Delivery!Accept(e)
  BY <1>3, <1>6 DEF Delivery!Accept
<1>8. QED
  BY <1>1, <1>7

\* Taking an event out of the channel changes nothing that is promised.
LEMMA ReceiveDelivers ==
    ASSUME PInv, Receive
    PROVE  UNCHANGED Delivery!vars
<1>1. /\ buffer \in Seq(Payloads) /\ buffer # <<>>
      /\ current = NoEvent
      /\ current' = Head(buffer) /\ buffer' = Tail(buffer)
      /\ UNCHANGED <<stream, cancelled>>
  BY DEF PInv, TypeOK, WorkerHoldsEvent, Receive, closeVars
<1>2. Head(buffer) \in Payloads
  BY <1>1, HeadTailProperties
<1>3. Pending = buffer
  BY <1>1, PendingEmptyHand DEF PInv
<1>4. Pending' = <<Head(buffer)>> \o Tail(buffer)
  BY <1>1, <1>2, NoEventAssumption DEF Pending
<1>5. <<Head(buffer)>> \o Tail(buffer) = buffer
  BY <1>1
<1>6. QED
  BY <1>1, <1>3, <1>4, <1>5 DEF Delivery!vars

\* Once the hand is empty, what was behind it is pending.
LEMMA HandEmptied ==
    ASSUME PInv, current # NoEvent, current' = NoEvent, buffer' = buffer
    PROVE  Pending # <<>> /\ Head(Pending) = current /\ Pending' = Tail(Pending)
<1>1. Pending # <<>> /\ Head(Pending) = current /\ Tail(Pending) = buffer
  BY PendingFullHand DEF PInv
<1>2. Pending' = buffer
  <2>1. Pending' = <<>> \o buffer
    BY DEF Pending
  <2>2. QED
    BY <2>1, ConcatEmptySeq DEF PInv, TypeOK
<1>3. QED
  BY <1>1, <1>2

\* An XADD writes the oldest pending event, and the worker is done with it only
\* if it saw no error; a failed drain gives that event up.
LEMMA WorkDelivers ==
    ASSUME PInv, Work
    PROVE  Delivery!Next \/ UNCHANGED Delivery!vars
<1>1. CASE Receive
  BY <1>1, ReceiveDelivers
<1>2. CASE XAddSucceeds
  <2>1. current # NoEvent
    BY <1>2 DEF PInv, WorkerHoldsEvent, XAddSucceeds
  <2>2. Pending # <<>> /\ Head(Pending) = current /\ Pending' = Tail(Pending)
    BY <1>2, <2>1, HandEmptied DEF XAddSucceeds, channelVars
  <2>3. Delivery!Write
    BY <1>2, <2>2 DEF XAddSucceeds, Delivery!Write, closeVars
  <2>4. QED
    BY <2>3 DEF Delivery!Next
<1>3. CASE XAddFails
  <2>1. current # NoEvent /\ UNCHANGED <<current, buffer, cancelled>>
    BY <1>3 DEF PInv, WorkerHoldsEvent, XAddFails, channelVars, closeVars
  <2>2. Pending # <<>> /\ Head(Pending) = current /\ Pending' = Pending
    BY <2>1, PendingFullHand DEF PInv, Pending
  <2>3. CASE stream' = stream
    BY <2>1, <2>3, PendingUnchanged
  <2>4. CASE stream' = Append(stream, current)
    <3>1. Delivery!Write
      BY <2>1, <2>2, <2>4 DEF Delivery!Write
    <3>2. QED
      BY <3>1 DEF Delivery!Next
  <2>5. QED
    BY <1>3, <2>3, <2>4 DEF XAddFails
<1>4. CASE Fail
  <2>1. CASE draining
    <3>1. cancelled /\ current # NoEvent
      BY <1>4, <2>1 DEF PInv, DrainsAfterCancel, WorkerHoldsEvent, Fail
    <3>2. Pending # <<>> /\ Pending' = Tail(Pending)
      BY <1>4, <2>1, <3>1, HandEmptied DEF Fail, channelVars
    <3>3. Delivery!GiveUp
      BY <1>4, <3>1, <3>2 DEF Fail, Delivery!GiveUp, closeVars
    <3>4. QED
      BY <3>3 DEF Delivery!Next
  <2>2. CASE ~draining
    BY <1>4, <2>2, PendingUnchanged DEF Fail, channelVars, closeVars
  <2>3. QED
    BY <2>1, <2>2
<1>5. CASE StopWorker \/ WaitForHealthy \/ ChooseContext \/ Backoff \/ ContextDone
  BY <1>5, PendingUnchanged
     DEF StopWorker, WaitForHealthy, ChooseContext, Backoff, ContextDone, channelVars, closeVars
<1>6. QED
  BY <1>1, <1>2, <1>3, <1>4, <1>5 DEF Work

\* Close begins the shutdown; nothing else of it shows.
LEMMA CloseDelivers ==
    ASSUME Close
    PROVE  Delivery!Next \/ UNCHANGED Delivery!vars
<1>1. CASE CancelContext
  <2>1. UNCHANGED <<current, buffer, stream>> /\ cancelled' = TRUE
    BY <1>1 DEF CancelContext, channelVars, workerVars
  <2>2. Delivery!ShutDown
    BY <2>1 DEF Pending, Delivery!ShutDown
  <2>3. QED
    BY <2>2 DEF Delivery!Next
<1>2. CASE CloseChannel \/ CloseDone \/ CloseTimesOut
  BY <1>2, PendingUnchanged DEF CloseChannel, CloseDone, CloseTimesOut, channelVars, workerVars
<1>3. QED
  BY <1>1, <1>2 DEF Close

\* Every step of the client is a step of the promised queue, or none.
LEMMA NextDelivers ==
    ASSUME PInv, [Next]_vars
    PROVE  [Delivery!Next]_(Delivery!vars)
<1>1. CASE \E p \in Producers : Enqueue(p)
  BY <1>1, EnqueueDelivers DEF Delivery!Next
<1>2. CASE \E p \in Producers : Publish(p) \/ Refuse(p)
  BY <1>2, PendingUnchanged DEF Publish, Refuse, workerVars, closeVars
<1>3. CASE Work
  BY <1>3, WorkDelivers
<1>4. CASE \E k \in Probers : PingAnswered(k) \/ PingFails(k) \/ StoreHealth(k)
  BY <1>4, PendingUnchanged
     DEF PingAnswered, PingFails, StoreHealth, channelVars, workerVars, closeVars
<1>5. CASE Close
  BY <1>5, CloseDelivers
<1>6. CASE Outage \/ UNCHANGED vars
  BY <1>6, PendingUnchanged DEF Outage, vars, channelVars, workerVars, closeVars
<1>7. QED
  BY <1>1, <1>2, <1>3, <1>4, <1>5, <1>6 DEF Next

\* The client implements the promised queue: accepted events reach the stream
\* in the order of their acceptance and at least once each, and only a client
\* whose context is over gives one up (valkey_client.go, Publish and worker).
THEOREM ImplementsDelivery == Spec => AtLeastOnceInOrder
<1>1. Init => Delivery!Init
  BY InitDelivers
<1>2. PInv /\ [Next]_vars => [Delivery!Next]_(Delivery!vars)
  BY NextDelivers
<1>3. QED
  BY <1>1, <1>2, PublisherInvariance, PTL DEF Spec, AtLeastOnceInOrder, Delivery!Spec

-----------------------------------------------------------------------------
(***************************************************************************)
(* Close: what was accepted is always somewhere.                           *)
(***************************************************************************)
\* In the stream, dropped, in the worker's hands or in the channel.
Somewhere(e) ==
    \/ InStream(e)
    \/ e \in dropped
    \/ e = current
    \/ \E j \in DOMAIN buffer : buffer[j] = e

AcceptedIsSomewhere == \A i \in DOMAIN accepted : Somewhere(accepted[i])

\* The worker stops behind a closed and empty channel, and Close waits for it.
StopsLast ==
    /\ worker = "stopped" => closed /\ buffer = <<>>
    /\ closer = "done" => worker = "stopped"

\* What the settling of a Close needs.
CInv == PInv /\ AcceptedIsSomewhere /\ StopsLast

\* An entry of the stream stays in it.
LEMMA StreamGrows ==
    ASSUME TypeOK, NEW e, InStream(e), NEW x \in Payloads,
           stream' = stream \/ stream' = Append(stream, x)
    PROVE  InStream(e)'
<1>1. CASE stream' = stream
  BY <1>1 DEF InStream
<1>2. CASE stream' = Append(stream, x)
  <2>1. PICK i \in DOMAIN stream : stream[i] = e
    BY DEF InStream
  <2>2. /\ stream \in Seq(Payloads) /\ stream' \in Seq(Payloads)
        /\ Len(stream') = Len(stream) + 1
        /\ \A j \in 1..Len(stream) : stream'[j] = stream[j]
    BY <1>2, AppendProperties DEF TypeOK
  <2>3. /\ DOMAIN stream = 1..Len(stream) /\ Len(stream) \in Nat
        /\ DOMAIN stream' = 1..Len(stream')
    BY <2>2, LenProperties
  <2>4. i \in DOMAIN stream' /\ stream'[i] = e
    BY <2>1, <2>2, <2>3
  <2>5. QED
    BY <2>4 DEF InStream
<1>3. QED
  BY <1>1, <1>2

\* What the last XADD wrote is in the stream.
LEMMA WrittenInStream ==
    ASSUME TypeOK, NEW x \in Payloads, stream' = Append(stream, x)
    PROVE  InStream(x)'
<1>1. /\ stream' \in Seq(Payloads) /\ Len(stream') = Len(stream) + 1
      /\ stream'[Len(stream) + 1] = x
  BY AppendProperties DEF TypeOK
<1>2. DOMAIN stream' = 1..Len(stream') /\ Len(stream) \in Nat
  BY <1>1, LenProperties DEF TypeOK
<1>3. QED
  BY <1>1, <1>2 DEF InStream

\* What is accepted is in the channel then, and what was there stays.
LEMMA EnqueueCInv ==
    ASSUME CInv, NEW p \in Producers, Enqueue(p)
    PROVE  AcceptedIsSomewhere' /\ StopsLast'
<1>1. PICK e \in Payloads : buffer' = Append(buffer, e) /\ accepted' = Append(accepted, e)
  <2>1. calls[p] \in 0..MaxEvents /\ calls[p] # 0 /\ MaxEvents \in Nat
    BY ParameterAssumption DEF Enqueue, CInv, PInv, TypeOK, SendersHaveCalled
  <2>2. calls[p] \in 1..MaxEvents
    BY <2>1
  <2>3. <<p, calls[p]>> \in Payloads
    BY <2>2 DEF Payloads
  <2>4. QED
    BY <2>3 DEF Enqueue
<1>2. ~closed /\ UNCHANGED <<worker, current, dropped, stream, closed, closer>>
  BY DEF Enqueue, workerVars, closeVars
<1>3. buffer \in Seq(Payloads) /\ accepted \in Seq(Payloads)
  BY DEF CInv, PInv, TypeOK
<1>4. /\ \A j \in 1..Len(buffer) : buffer'[j] = buffer[j]
      /\ buffer'[Len(buffer) + 1] = e
      /\ DOMAIN buffer = 1..Len(buffer) /\ DOMAIN buffer' = 1..(Len(buffer) + 1)
      /\ Len(buffer) \in Nat
  <2>1. /\ buffer' \in Seq(Payloads) /\ Len(buffer') = Len(buffer) + 1
        /\ \A j \in 1..Len(buffer) : buffer'[j] = buffer[j]
        /\ buffer'[Len(buffer) + 1] = e
    BY <1>1, <1>3, AppendProperties
  <2>2. QED
    BY <1>3, <2>1, LenProperties
<1>5. \A i \in DOMAIN accepted' :
        accepted'[i] = e \/ \E j \in DOMAIN accepted : accepted'[i] = accepted[j]
  <2>1. /\ accepted' \in Seq(Payloads) /\ Len(accepted') = Len(accepted) + 1
        /\ \A j \in 1..Len(accepted) : accepted'[j] = accepted[j]
        /\ accepted'[Len(accepted) + 1] = e
    BY <1>1, <1>3, AppendProperties
  <2>2. /\ DOMAIN accepted = 1..Len(accepted) /\ Len(accepted) \in Nat
        /\ DOMAIN accepted' = 1..(Len(accepted) + 1)
    BY <1>3, <2>1, LenProperties
  <2>3. QED
    BY <2>1, <2>2
<1>6. Somewhere(e)'
  BY <1>4 DEF Somewhere
<1>7. \A x : Somewhere(x) => Somewhere(x)'
  BY <1>2, <1>4 DEF Somewhere, InStream
<1>8. AcceptedIsSomewhere'
  BY <1>5, <1>6, <1>7 DEF CInv, AcceptedIsSomewhere
<1>9. StopsLast'
  BY <1>2 DEF CInv, StopsLast
<1>10. QED
  BY <1>8, <1>9

\* The worker takes an event out of the channel into its hands, and lets go of
\* it into the stream or by dropping it.
LEMMA WorkCInv ==
    ASSUME CInv, Work
    PROVE  AcceptedIsSomewhere' /\ StopsLast'
<1>0. TypeOK /\ WorkerHoldsEvent /\ UNCHANGED <<accepted, closed, closer>>
  BY DEF CInv, PInv, Work, Receive, StopWorker, WaitForHealthy, ChooseContext, XAddSucceeds,
         XAddFails, Backoff, ContextDone, Fail, channelVars, closeVars
<1>1. \A i \in DOMAIN accepted : accepted[i] \in Payloads
  BY <1>0, LenProperties DEF TypeOK
<1>2. ASSUME NEW x \in Payloads, Somewhere(x)
      PROVE  Somewhere(x)'
  <2>1. CASE Receive
    <3>1. /\ buffer \in Seq(Payloads) /\ buffer # <<>> /\ current = NoEvent
          /\ current' = Head(buffer) /\ buffer' = Tail(buffer)
          /\ UNCHANGED <<stream, dropped>>
      BY <1>0, <2>1 DEF Receive, TypeOK, WorkerHoldsEvent
    <3>2. CASE InStream(x) \/ x \in dropped
      BY <3>1, <3>2 DEF Somewhere, InStream
    <3>3. CASE x = current
      BY <3>1, <3>3, NoEventAssumption
    <3>4. CASE \E j \in DOMAIN buffer : buffer[j] = x
      <4>1. PICK j \in DOMAIN buffer : buffer[j] = x
        BY <3>4
      <4>2. CASE j = 1
        BY <3>1, <4>1, <4>2 DEF Somewhere
      <4>3. CASE j # 1
        <5>1. DOMAIN buffer = 1..Len(buffer) /\ Len(buffer) \in Nat
          BY <3>1, LenProperties
        <5>2. j - 1 \in DOMAIN buffer' /\ buffer'[j - 1] = x
          BY <3>1, <4>1, <4>3, <5>1
        <5>3. QED
          BY <5>2 DEF Somewhere
      <4>4. QED
        BY <4>2, <4>3
    <3>5. QED
      BY <1>2, <3>2, <3>3, <3>4 DEF Somewhere
  <2>2. CASE XAddSucceeds
    <3>1. /\ current \in Payloads /\ stream' = Append(stream, current)
          /\ UNCHANGED <<buffer, dropped>>
      BY <1>0, <2>2 DEF XAddSucceeds, TypeOK, WorkerHoldsEvent, channelVars
    <3>2. InStream(x) => InStream(x)'
      BY <1>0, <3>1, StreamGrows
    <3>3. x = current => InStream(x)'
      BY <1>0, <3>1, WrittenInStream
    <3>4. QED
      BY <1>2, <3>1, <3>2, <3>3 DEF Somewhere
  <2>3. CASE XAddFails
    <3>1. /\ current \in Payloads
          /\ stream' = stream \/ stream' = Append(stream, current)
          /\ UNCHANGED <<current, buffer, dropped>>
      BY <1>0, <2>3 DEF XAddFails, TypeOK, WorkerHoldsEvent, channelVars
    <3>2. InStream(x) => InStream(x)'
      BY <1>0, <3>1, StreamGrows
    <3>3. QED
      BY <1>2, <3>1, <3>2 DEF Somewhere
  <2>4. CASE Fail
    <3>1. /\ UNCHANGED <<buffer, stream>>
          /\ dropped' = dropped \cup {current} \/ UNCHANGED <<current, dropped>>
      BY <2>4 DEF Fail, channelVars
    <3>2. QED
      BY <1>2, <3>1 DEF Somewhere, InStream
  <2>5. CASE StopWorker \/ WaitForHealthy \/ ChooseContext \/ Backoff \/ ContextDone
    <3>1. UNCHANGED <<current, buffer, dropped, stream>>
      BY <2>5 DEF StopWorker, WaitForHealthy, ChooseContext, Backoff, ContextDone, channelVars
    <3>2. QED
      BY <1>2, <3>1 DEF Somewhere, InStream
  <2>6. QED
    BY <2>1, <2>2, <2>3, <2>4, <2>5 DEF Work
<1>3. AcceptedIsSomewhere'
  BY <1>0, <1>1, <1>2 DEF CInv, AcceptedIsSomewhere
<1>4. StopsLast'
  BY <1>0 DEF CInv, StopsLast, Work, Receive, StopWorker, WaitForHealthy, ChooseContext,
              XAddSucceeds, XAddFails, Backoff, ContextDone, Fail, channelVars
<1>5. QED
  BY <1>3, <1>4

\* All other steps leave the events where they are; Close ends after the worker.
LEMMA OtherCInv ==
    ASSUME CInv,
           \/ \E p \in Producers : Publish(p) \/ Refuse(p)
           \/ \E k \in Probers : PingAnswered(k) \/ PingFails(k) \/ StoreHealth(k)
           \/ Close
           \/ Outage
           \/ UNCHANGED vars
    PROVE  AcceptedIsSomewhere' /\ StopsLast'
<1>1. UNCHANGED <<buffer, accepted, workerVars, stream>>
  BY DEF Publish, Refuse, PingAnswered, PingFails, StoreHealth, Close, CancelContext,
         CloseChannel, CloseDone, CloseTimesOut, Outage, vars, channelVars
<1>2. AcceptedIsSomewhere'
  BY <1>1 DEF CInv, AcceptedIsSomewhere, Somewhere, InStream, workerVars
<1>3. (closed => closed') /\ (closer' = "done" => closer = "done" \/ worker = "stopped")
  BY DEF Publish, Refuse, PingAnswered, PingFails, StoreHealth, Close, CancelContext,
         CloseChannel, CloseDone, CloseTimesOut, Outage, vars, closeVars
<1>4. StopsLast'
  BY <1>1, <1>3 DEF CInv, StopsLast, workerVars
<1>5. QED
  BY <1>2, <1>4

\* Every step keeps what is said of Close.
LEMMA NextCInv == CInv /\ [Next]_vars => CInv'
<1> SUFFICES ASSUME CInv, [Next]_vars PROVE CInv'
  OBVIOUS
<1>1. PInv'
  BY NextPInv DEF CInv
<1>2. AcceptedIsSomewhere' /\ StopsLast'
  BY EnqueueCInv, WorkCInv, OtherCInv DEF Next
<1>3. QED
  BY <1>1, <1>2 DEF CInv

\* A Close that returns nil leaves no accepted event behind: each is in the
\* stream or was dropped, also one that Publish took after the cancel (Close,
\* worker).
THEOREM CloseSettles == Spec => []CloseSettlesEverything
<1>1. Init => CInv
  BY InitPInv DEF Init, CInv, AcceptedIsSomewhere, StopsLast
<1>2. CInv => CloseSettlesEverything
  <2>1. SUFFICES ASSUME CInv, closer = "done", NEW i \in DOMAIN accepted
                 PROVE  InStream(accepted[i]) \/ accepted[i] \in dropped
    BY DEF CloseSettlesEverything
  <2>2. buffer = <<>> /\ current = NoEvent
    BY <2>1 DEF CInv, PInv, StopsLast, WorkerHoldsEvent
  <2>3. accepted[i] \in Payloads
    BY <2>1, LenProperties DEF CInv, PInv, TypeOK
  <2>4. Somewhere(accepted[i])
    BY <2>1 DEF CInv, AcceptedIsSomewhere
  <2>5. QED
    BY <2>2, <2>3, <2>4, NoEventAssumption DEF Somewhere
<1>3. QED
  BY <1>1, <1>2, NextCInv, PTL DEF Spec

-----------------------------------------------------------------------------
(***************************************************************************)
(* The drain ends: what WorkerStopsAfterClose rests on.                    *)
(***************************************************************************)
\* The worker's steps for one event, at most: it receives, waits for health,
\* chooses, fails in MaxRetries + 1 attempts with a backoff between any two,
\* and gives up.
RoundLength == 2 * MaxRetries + 5

\* What is left of the attempts, with the receive that comes after them.
AttemptsLeft ==
    IF worker = "attempt" THEN 2 * (MaxRetries - attempt) + 3
    ELSE IF worker = "backoff" THEN 2 * (MaxRetries - attempt) + 2
    ELSE 2

\* What is left of the round the worker is in.  One that began before the
\* cancel is followed by a second one, on the drain context.
RoundLeft ==
    IF worker = "stopped" THEN 0
    ELSE IF worker = "receive" THEN 1
    ELSE IF worker = "waitForHealthy" THEN RoundLength
    ELSE IF worker = "choose" THEN RoundLength - 1
    ELSE AttemptsLeft + (IF draining THEN 0 ELSE RoundLength)

DrainWork == RoundLength * Len(buffer) + RoundLeft

\* The channel is closed after the context was cancelled.
CancelBeforeClose ==
    /\ closer # "open" => cancelled
    /\ closed => cancelled

\* Close goes forward only.
LEMMA CloseOrder == Spec => []CancelBeforeClose
<1>1. Init => CancelBeforeClose
  BY DEF Init, CancelBeforeClose
<1>2. CancelBeforeClose /\ [Next]_vars => CancelBeforeClose'
  <2> SUFFICES ASSUME CancelBeforeClose, [Next]_vars PROVE CancelBeforeClose'
    OBVIOUS
  <2>1. CASE Close
    BY <2>1 DEF Close, CancelContext, CloseChannel, CloseDone, CloseTimesOut, CancelBeforeClose
  <2>2. CASE UNCHANGED closeVars
    BY <2>2 DEF CancelBeforeClose, closeVars
  <2>3. Close \/ UNCHANGED closeVars
    BY DEF Next, Publish, Enqueue, Refuse, Work, Receive, StopWorker, WaitForHealthy,
           ChooseContext, XAddSucceeds, XAddFails, Backoff, ContextDone, Fail, PingAnswered,
           PingFails, StoreHealth, Outage, vars
  <2>4. QED
    BY <2>1, <2>2, <2>3
<1>3. QED
  BY <1>1, <1>2, PTL DEF Spec

\* A product of naturals is one, and one factor less takes the other away.
LEMMA OneLess ==
    ASSUME NEW a \in Nat, NEW n \in Nat
    PROVE  a * n \in Nat /\ a * (n - 1) = a * n - a
OBVIOUS

\* The work is a number, so it cannot go down for ever.
LEMMA DrainWorkIsANumber ==
    ASSUME PInv
    PROVE  RoundLength \in Nat /\ RoundLeft \in Nat /\ DrainWork \in Nat
<1>1. /\ MaxRetries \in Nat /\ attempt \in 0..MaxRetries /\ Len(buffer) \in Nat
      /\ worker \in WorkerStates
  BY ParameterAssumption, LenProperties DEF PInv, TypeOK
<1>2. RoundLength \in Nat
  BY <1>1 DEF RoundLength
<1>3. RoundLeft \in Nat
  BY <1>1, <1>2 DEF RoundLeft, AttemptsLeft, RoundLength, WorkerStates
<1>4. RoundLength * Len(buffer) \in Nat
  BY <1>1, <1>2, OneLess
<1>5. QED
  BY <1>2, <1>3, <1>4 DEF DrainWork

\* Every step of the worker lowers it.
LEMMA WorkDrains ==
    ASSUME PInv, CancelBeforeClose, closed, Work
    PROVE  DrainWork' < DrainWork
<1>0. RoundLength' = RoundLength /\ (worker = "backoff" => attempt < MaxRetries)
  BY DEF RoundLength, PInv, RetriesLeft
<1>1. /\ MaxRetries \in Nat /\ attempt \in 0..MaxRetries /\ Len(buffer) \in Nat
      /\ RoundLength \in Nat /\ cancelled /\ draining \in BOOLEAN
  BY DrainWorkIsANumber, ParameterAssumption, LenProperties
  DEF PInv, TypeOK, CancelBeforeClose
<1>2. RoundLength * Len(buffer) \in Nat
  BY <1>1, OneLess
<1>3. CASE Receive
  <2>1. buffer \in Seq(Payloads) /\ buffer # <<>> /\ buffer' = Tail(buffer)
    BY <1>3 DEF Receive, PInv, TypeOK
  <2>2. Len(buffer') = Len(buffer) - 1
    BY <2>1, HeadTailProperties
  <2>3. RoundLength * Len(buffer') = RoundLength * Len(buffer) - RoundLength
    BY <1>1, <2>2, OneLess
  <2>4. RoundLeft = 1 /\ RoundLeft' = RoundLength
    BY <1>3 DEF Receive, RoundLeft, AttemptsLeft, RoundLength
  <2>5. QED
    BY <1>1, <1>2, <2>3, <2>4 DEF DrainWork, RoundLength
<1>4. CASE ~Receive
  <2>1. UNCHANGED buffer
    BY <1>4 DEF Work, StopWorker, WaitForHealthy, ChooseContext, XAddSucceeds, XAddFails,
                Backoff, ContextDone, Fail, channelVars
  <2>2. RoundLeft \in Int /\ RoundLeft' \in Int /\ RoundLeft' < RoundLeft
    <3>1. CASE StopWorker \/ WaitForHealthy
      BY <1>1, <3>1 DEF StopWorker, WaitForHealthy, RoundLeft, AttemptsLeft, RoundLength
    <3>2. CASE ChooseContext
      BY <1>1, <3>2 DEF ChooseContext, RoundLeft, AttemptsLeft, RoundLength
    <3>3. CASE XAddSucceeds
      BY <1>1, <3>3 DEF XAddSucceeds, RoundLeft, AttemptsLeft, RoundLength
    <3>4. CASE XAddFails
      <4>1. /\ worker = "attempt" /\ UNCHANGED <<draining, attempt>>
            /\ worker' = "backoff" \/ worker' = "failed"
        BY <3>4 DEF XAddFails
      <4>2. CASE worker' = "backoff"
        BY <1>1, <4>1, <4>2 DEF RoundLeft, AttemptsLeft, RoundLength
      <4>3. CASE worker' = "failed"
        BY <1>1, <4>1, <4>3 DEF RoundLeft, AttemptsLeft, RoundLength
      <4>4. QED
        BY <4>1, <4>2, <4>3
    <3>5. CASE Backoff
      <4>1. attempt < MaxRetries
        BY <3>5 DEF Backoff, PInv, RetriesLeft
      <4>2. QED
        BY <1>1, <3>5, <4>1 DEF Backoff, RoundLeft, AttemptsLeft, RoundLength
    <3>6. CASE ContextDone
      <4>1. /\ worker \in {"attempt", "backoff"} /\ worker' = "failed"
            /\ UNCHANGED <<draining, attempt>>
        BY <3>6 DEF ContextDone
      <4>2. /\ AttemptsLeft \in Int /\ AttemptsLeft > 2 /\ AttemptsLeft' = 2
        BY <1>0, <1>1, <4>1 DEF AttemptsLeft
      <4>3. /\ RoundLeft = AttemptsLeft + (IF draining THEN 0 ELSE RoundLength)
            /\ RoundLeft' = AttemptsLeft' + (IF draining THEN 0 ELSE RoundLength)
        BY <1>0, <4>1, Zenon DEF RoundLeft
      <4>4. QED
        BY <1>1, <4>2, <4>3
    <3>7. CASE Fail
      BY <1>1, <3>7 DEF Fail, RoundLeft, AttemptsLeft, RoundLength
    <3>8. QED
      BY <1>4, <3>1, <3>2, <3>3, <3>4, <3>5, <3>6, <3>7 DEF Work
  <2>3. QED
    BY <1>2, <2>1, <2>2 DEF DrainWork, RoundLength
<1>5. QED
  BY <1>3, <1>4

\* Behind a closed channel the worker works its way to its end, or somebody
\* else does something that gives it no more to do.
Drains ==
    /\ closed'
    /\ \/ Work /\ DrainWork' < DrainWork
       \/ UNCHANGED <<buffer, worker, current, draining, attempt>>

\* Nobody but the worker touches what it has left.
LEMMA ClosedDrains ==
    ASSUME PInv, CancelBeforeClose, [Next]_vars, closed
    PROVE  Drains
<1>1. CASE Work
  <2>1. closed'
    BY <1>1 DEF Work, Receive, StopWorker, WaitForHealthy, ChooseContext, XAddSucceeds,
                XAddFails, Backoff, ContextDone, Fail, closeVars
  <2>2. QED
    BY <1>1, <2>1, WorkDrains DEF Drains
<1>2. CASE ~Work
  <2>1. closed' /\ UNCHANGED <<buffer, workerVars>>
    BY <1>2 DEF Next, Publish, Enqueue, Refuse, PingAnswered, PingFails, StoreHealth, Close,
                CancelContext, CloseChannel, CloseDone, CloseTimesOut, Outage, vars,
                channelVars, closeVars
  <2>2. QED
    BY <2>1 DEF Drains, workerVars
<1>3. QED
  BY <1>1, <1>2

\* A drain ends, whatever Valkey does and however many events are left: once
\* Close has closed the channel, the context is over for good and no wait for
\* health holds the worker; nobody gives it more to do, and each of its own
\* steps lowers a natural number, a round of attempts that began before the
\* cancel and its repetition included (worker, publishWithRetry).
THEOREM DrainTerminates ==
    Spec => [][closed => cancelled /\ DrainWork \in Nat /\ Drains]_vars
<1>1. PInv /\ CancelBeforeClose /\ [Next]_vars =>
        [closed => cancelled /\ DrainWork \in Nat /\ Drains]_vars
  BY DrainWorkIsANumber, ClosedDrains DEF CancelBeforeClose
<1>2. QED
  BY <1>1, PublisherInvariance, CloseOrder, PTL DEF Spec
=============================================================================
