----------------------------- MODULE StreamConsumer -----------------------------
(***************************************************************************)
(* What the event listener promises of the stream's entries: each is       *)
(* persisted at most once and in the order of the stream, over all         *)
(* restarts of the process.  It does not promise that each is persisted.   *)
(***************************************************************************)
EXTENDS Integers, Sequences

CONSTANT Entries

VARIABLES
    log,        \* the entries of the stream
    persisted   \* the positions persisted, in the order of the commits

vars == <<log, persisted>>

Init == log = <<>> /\ persisted = <<>>

Extend(e) == log' = Append(log, e) /\ UNCHANGED persisted

After(i) == \A j \in DOMAIN persisted : persisted[j] < i

Persist(i) ==
    /\ After(i)
    /\ persisted' = Append(persisted, i)
    /\ UNCHANGED log

Next ==
    \/ \E e \in Entries : Extend(e)
    \/ \E i \in DOMAIN log : Persist(i)

Spec == Init /\ [][Next]_vars
=============================================================================
