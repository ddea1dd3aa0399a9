----------------------------- MODULE EventListener -----------------------------
(***************************************************************************)
(* The reader of the event stream: ValkeyClient of                         *)
(* event_listener/internal/events/streaming_client/clients/                *)
(* valkey_client.go, the decoding it does and the process it runs in       *)
(* (cmd/server/main.go).                                                   *)
(*                                                                         *)
(* One goroutine reads a batch after the position lastID, which it keeps   *)
(* in memory, and hands the entries to processEntry one after the other;   *)
(* main cancels it on a signal and does not wait for it.  A new process    *)
(* starts at "$", the end of the stream when its XREAD arrives.            *)
(*                                                                         *)
(* The stream is appended to by the engine, or by anything else that can   *)
(* reach Valkey; the database commits or fails.                            *)
(***************************************************************************)
EXTENDS Integers, Sequences, FiniteSetsExt

CONSTANTS
    Kinds,        \* what an entry of the stream may be
    BatchSize,    \* COUNT of the XREAD (100 in the service)
    MaxEntries,   \* bound: length of the stream
    MaxRestarts,  \* bound: processes started after the first
    Latest        \* the position "$"

ASSUME ParameterAssumption ==
    /\ BatchSize \in Nat \ {0}
    /\ MaxEntries \in Nat
    /\ MaxRestarts \in Nat

ASSUME LatestAssumption == Latest \notin Nat

VARIABLES
    stream,     \* the kinds of the stream's entries; an ID is a position
    pc,         \* where Stream is; "down" when there is no process
    lastID,     \* ValkeyClient.lastID
    readFrom,   \* the position the server reads after
    batch,      \* the entries read and not yet handed to processEntry, which
                \* takes them in the order of the stream
    cancelled,  \* the context of main is done
    restarts,
    since,      \* history: end of the stream at this process's first XREAD
    handed,     \* history: entries this process handed to processEntry
    committed   \* history: entries whose event is in the database

processVars == <<pc, lastID, readFrom, batch, cancelled, restarts, since, handed>>
vars == <<stream, committed, processVars>>

Init ==
    /\ stream = <<>>
    /\ pc = "loop"
    /\ lastID = Latest
    /\ readFrom = 0
    /\ batch = {}
    /\ cancelled = FALSE
    /\ restarts = 0
    /\ since = Latest
    /\ handed = {}
    /\ committed = <<>>

\* The event types UnmarshalStreamEvent has a payload for.
EventTypes ==
    {"OrderPlaced", "OrderCancelled", "OrderFilled", "OrderPartiallyFilled",
     "OrderRejected", "TradeExecuted"}

\* An entry without a "data" field is not an event at all; one with another
\* type or with broken JSON has data that do not decode.
HasData(i) == stream[i] # "noData"
Decodes(i) == stream[i] \in EventTypes

-----------------------------------------------------------------------------
\* Somebody appends to the stream.
AppendEntry ==
    /\ Len(stream) < MaxEntries
    /\ \E k \in Kinds : stream' = Append(stream, k)
    /\ UNCHANGED <<committed, processVars>>

\* Mutant: every read starts at the beginning of the stream while the position
\* is unknown, as after a restart from "0".
BeginReadFromStart ==
    /\ pc = "loop"
    /\ ~cancelled
    /\ readFrom' = IF lastID = Latest THEN 0 ELSE lastID
    /\ since' = IF since = Latest THEN Len(stream) ELSE since
    /\ pc' = "reading"
    /\ UNCHANGED <<stream, committed, lastID, batch, cancelled, restarts, handed>>

\* The top of the loop with a live context: the XREAD arrives, and "$" is
\* resolved against the stream as it is now.
BeginRead ==
    /\ pc = "loop"
    /\ ~cancelled
    /\ readFrom' = IF lastID = Latest THEN Len(stream) ELSE lastID
    /\ since' = IF since = Latest THEN Len(stream) ELSE since
    /\ pc' = "reading"
    /\ UNCHANGED <<stream, committed, lastID, batch, cancelled, restarts, handed>>

\* Mutant: the XREAD has no COUNT.
ReplyUnbounded == (readFrom + 1) .. Len(stream)

\* The answer to the XREAD: at most BatchSize entries after readFrom.
Reply == (readFrom + 1) .. Min({readFrom + BatchSize, Len(stream)})

\* Mutant: the position jumps to the end of the stream.
NewPositionAtEnd(read) == IF read = {} THEN lastID ELSE Len(stream)

\* readBatch moves lastID along with every entry that has data, so the
\* position is that of the last of them.
NewPosition(read) == IF read = {} THEN lastID ELSE Max(read)

\* XREAD returns entries; those without data are skipped with a warning.
ReadReturns ==
    /\ pc = "reading"
    /\ Reply # {}
    /\ LET read == {i \in Reply : HasData(i)} IN
        /\ batch' = read
        /\ lastID' = NewPosition(read)
    /\ pc' = "processing"
    /\ UNCHANGED <<stream, committed, readFrom, cancelled, restarts, since, handed>>

\* BLOCK expires without an entry.
ReadTimesOut ==
    /\ pc = "reading"
    /\ Reply = {}
    /\ pc' = "loop"
    /\ UNCHANGED <<stream, committed, lastID, readFrom, batch, cancelled, restarts,
                   since, handed>>

\* The XREAD or its answer is lost, or the context is cancelled under it.
ReadFails ==
    /\ pc = "reading"
    /\ pc' = "backoff"
    /\ UNCHANGED <<stream, committed, lastID, readFrom, batch, cancelled, restarts,
                   since, handed>>

\* Mutant: a failed read ends the listener's loop.
BackoffForEver ==
    /\ pc = "backoff"
    /\ pc' = "ended"
    /\ UNCHANGED <<stream, committed, lastID, readFrom, batch, cancelled, restarts,
                   since, handed>>

\* A second passes, or the context ends the wait and Stream.
Backoff ==
    /\ pc = "backoff"
    /\ \/ pc' = "loop"
       \/ cancelled /\ pc' = "ended"
    /\ UNCHANGED <<stream, committed, lastID, readFrom, batch, cancelled, restarts,
                   since, handed>>

\* processEntry on the next entry.  Whatever goes wrong is logged and the loop
\* goes on: data that do not decode, or an InsertEvent that fails, as it does
\* at once when the context is cancelled.
ProcessEntry ==
    /\ pc = "processing"
    /\ batch # {}
    /\ LET entry == Min(batch) IN
        /\ \/ Decodes(entry) /\ ~cancelled /\ committed' = Append(committed, entry)
           \/ UNCHANGED committed
        /\ handed' = handed \cup {entry}
        /\ batch' = batch \ {entry}
    /\ UNCHANGED <<stream, pc, lastID, readFrom, cancelled, restarts, since>>

BatchDone ==
    /\ pc = "processing"
    /\ batch = {}
    /\ pc' = "loop"
    /\ UNCHANGED <<stream, committed, lastID, readFrom, batch, cancelled, restarts,
                   since, handed>>

\* The top of the loop with a cancelled context: Stream returns.
StreamReturns ==
    /\ pc = "loop"
    /\ cancelled
    /\ pc' = "ended"
    /\ UNCHANGED <<stream, committed, lastID, readFrom, batch, cancelled, restarts,
                   since, handed>>

-----------------------------------------------------------------------------
\* A signal: main cancels the context ...
Signal ==
    /\ pc # "down"
    /\ ~cancelled
    /\ cancelled' = TRUE
    /\ UNCHANGED <<stream, committed, pc, lastID, readFrom, batch, restarts, since,
                   handed>>

\* ... and returns, without waiting for Stream.  A crash looks the same.
ProcessEnds ==
    /\ pc # "down"
    /\ pc' = "down"
    /\ UNCHANGED <<stream, committed, lastID, readFrom, batch, cancelled, restarts,
                   since, handed>>

\* A new process: NewValkeyClient knows nothing of the old position.
Restart ==
    /\ pc = "down"
    /\ restarts < MaxRestarts
    /\ restarts' = restarts + 1
    /\ pc' = "loop"
    /\ lastID' = Latest
    /\ readFrom' = 0
    /\ batch' = {}
    /\ cancelled' = FALSE
    /\ since' = Latest
    /\ handed' = {}
    /\ UNCHANGED <<stream, committed>>

Listen ==
    \/ BeginRead \/ ReadReturns \/ ReadTimesOut \/ Backoff
    \/ ProcessEntry \/ BatchDone \/ StreamReturns

Next ==
    \/ AppendEntry
    \/ Listen
    \/ ReadFails
    \/ Signal \/ ProcessEnds \/ Restart

Spec == Init /\ [][Next]_vars

\* The goroutine runs when it can, and XREADs that have something to return do
\* not fail for ever.
Fairness == WF_vars(Listen) /\ SF_vars(ReadReturns)

FairSpec == Spec /\ Fairness
-----------------------------------------------------------------------------
TypeOK ==
    /\ stream \in Seq(Kinds)
    /\ pc \in {"loop", "reading", "backoff", "processing", "ended", "down"}
    /\ lastID \in DOMAIN stream \cup {Latest}
    /\ readFrom \in 0..Len(stream)
    /\ batch \subseteq DOMAIN stream /\ Cardinality(batch) <= BatchSize
    /\ cancelled \in BOOLEAN
    /\ restarts \in 0..MaxRestarts
    /\ since \in 0..Len(stream) \cup {Latest}
    /\ handed \subseteq DOMAIN stream
    /\ committed \in Seq(DOMAIN stream)

\* What this process has taken from the stream.
Taken == handed \cup batch

\* From the first entry it takes to its position, a process takes every entry
\* that has data: failed reads, half-processed batches and entries without
\* data open no gap (readBatch, Stream).
NoGapOncePositioned ==
    \A i \in Taken : \A j \in i..lastID : HasData(j) => j \in Taken

\* Over restarts, crashes and failed reads, an event is persisted at most once
\* and events are persisted in the order of the stream.
Consumer == INSTANCE StreamConsumer WITH
    Entries <- Kinds, log <- stream, persisted <- committed

AtMostOnceInOrder == Consumer!Spec

\* lastID does not move over entries without data: when as many of them as a
\* read may return follow it, every read returns the same ones.
Stuck ==
    /\ lastID # Latest
    /\ lastID + BatchSize <= Len(stream)
    /\ \A i \in (lastID + 1)..(lastID + BatchSize) : ~HasData(i)

\* A process that has a position takes every entry with data that comes after
\* it, whatever fails in between, unless it is stopped or stuck.
CatchesUp ==
    \A i \in 1..MaxEntries :
        (lastID # Latest /\ i \in DOMAIN stream /\ i > lastID /\ HasData(i))
            ~> (i \in handed \/ cancelled \/ pc = "down" \/ Stuck)

-----------------------------------------------------------------------------
(***************************************************************************)
(* What the comments say and the code does not do.                         *)
(***************************************************************************)
\* streaming_client.go:10: "Stream continuously reads events from the stream
\* of the matching engine and persists them."  Until the first batch has come,
\* every XREAD starts at the end of the stream, and what is appended between
\* two reads is never read, although the listener runs.
ReadsContinuously ==
    lastID # Latest =>
        \A i \in (since + 1)..lastID : HasData(i) => i \in Taken
=============================================================================
