----------------------------- MODULE EventDelivery -----------------------------
(***************************************************************************)
(* What the event publisher promises: a queue in front of a log.  Accepted *)
(* events reach the log in the order in which they were accepted, at least *)
(* once each; an event is given up only when the queue is shutting down.   *)
(***************************************************************************)
EXTENDS Sequences

CONSTANT Payloads

VARIABLES
    pending,        \* accepted, not yet known to be in the log
    log,            \* the log's entries
    shuttingDown

vars == <<pending, log, shuttingDown>>

Init ==
    /\ pending = <<>>
    /\ log = <<>>
    /\ shuttingDown = FALSE

Accept(e) ==
    /\ pending' = Append(pending, e)
    /\ UNCHANGED <<log, shuttingDown>>

\* The oldest pending event is written; if the writer learns of it, it is done
\* with, otherwise it will be written again.
Write ==
    /\ pending # <<>>
    /\ log' = Append(log, Head(pending))
    /\ pending' \in {pending, Tail(pending)}
    /\ UNCHANGED shuttingDown

GiveUp ==
    /\ shuttingDown
    /\ pending # <<>>
    /\ pending' = Tail(pending)
    /\ UNCHANGED <<log, shuttingDown>>

ShutDown ==
    /\ shuttingDown' = TRUE
    /\ UNCHANGED <<pending, log>>

Next ==
    \/ \E e \in Payloads : Accept(e)
    \/ Write
    \/ GiveUp
    \/ ShutDown

Spec == Init /\ [][Next]_vars
=============================================================================
