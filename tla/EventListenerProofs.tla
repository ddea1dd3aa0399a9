------------------------- MODULE EventListenerProofs -------------------------
(***************************************************************************)
(* The event listener persists at most once and in order, over any number  *)
(* of restarts, and takes without a gap once it has a position.            *)
(***************************************************************************)
EXTENDS EventListener, FiniteSetTheorems, SequenceTheorems, WellFoundedInduction, TLAPS

\* Whoever has taken an entry has a position, at that entry or later.
TakenBehindPosition == \A i \in Taken : lastID # Latest /\ i <= lastID

\* A batch is only held while it is processed, or by a process that died.
BatchIsProcessed == pc \notin {"processing", "down"} => batch = {}

\* A read goes on where the position is.
ReadsAfterPosition == pc = "reading" /\ lastID # Latest => readFrom = lastID

\* What is committed lies before whatever may still be committed.
CommittedBehind ==
    \A n \in DOMAIN committed :
        /\ \A i \in batch : committed[n] < i
        /\ lastID # Latest => committed[n] <= lastID
        /\ pc = "reading" => committed[n] <= readFrom

\* The inductive invariant.
LInv ==
    /\ TypeOK
    /\ TakenBehindPosition
    /\ BatchIsProcessed
    /\ ReadsAfterPosition
    /\ CommittedBehind
    /\ NoGapOncePositioned

-----------------------------------------------------------------------------
\* A set of naturals that is not empty has a smallest element.
LEMMA MinOfNaturals ==
    ASSUME NEW S \in SUBSET Nat, S # {}
    PROVE  Min(S) \in S /\ \A x \in S : Min(S) <= x
<1>1. PICK m \in S : \A x \in S : <<x, m>> \notin OpToRel(<, Nat)
  BY NatLessThanWellFounded, WFMin
<1>2. \A x \in S : m <= x
  <2>1. SUFFICES ASSUME NEW x \in S, x < m PROVE FALSE
    BY SMT
  <2>2. <<x, m>> \in OpToRel(<, Nat)
    BY <2>1 DEF OpToRel
  <2>3. QED
    BY <1>1, <2>2
<1>3. QED
  BY <1>2 DEF Min

\* One that is bounded as well has a largest element.
LEMMA MaxOfNaturals ==
    ASSUME NEW S \in SUBSET Nat, S # {}, NEW n \in Nat, \A x \in S : x <= n
    PROVE  Max(S) \in S /\ \A x \in S : x <= Max(S)
<1> DEFINE T == {k \in Nat : n - k \in S}
<1>1. T \in SUBSET Nat /\ T # {}
  <2>1. PICK x \in S : x \in Nat /\ x <= n
    OBVIOUS
  <2>2. n - x \in Nat /\ n - (n - x) = x
    BY <2>1
  <2>3. QED
    BY <2>1, <2>2
<1>2. PICK m \in T : \A y \in T : m <= y
  BY <1>1, MinOfNaturals
<1>3. PICK x \in S : x \in Nat /\ m = n - x
  BY <1>2
<1>4. \A y \in S : n - x <= n - y
  <2>1. TAKE y \in S
  <2>2. n - y \in Nat /\ n - (n - y) = y
    OBVIOUS
  <2>3. n - y \in T
    BY <2>2
  <2>4. QED
    BY <1>2, <1>3, <2>3
<1>5. \A y \in S : y <= x
  BY <1>4
<1>6. QED
  BY <1>5 DEF Max

\* The entries a read may return.
LEMMA ReplyBounds ==
    ASSUME TypeOK
    PROVE  /\ Reply \subseteq DOMAIN stream
           /\ Reply \subseteq (readFrom + 1)..(readFrom + BatchSize)
           /\ \A i \in Reply : \A j \in (readFrom + 1)..i : j \in Reply
<1> DEFINE ends == {readFrom + BatchSize, Len(stream)}
<1>1. Len(stream) \in Nat /\ DOMAIN stream = 1..Len(stream)
  BY LenProperties DEF TypeOK
<1>2. readFrom \in Nat /\ BatchSize \in Nat
  BY <1>1, ParameterAssumption DEF TypeOK
<1>3. ends \in SUBSET Nat /\ ends # {}
  BY <1>1, <1>2
<1>4. Min(ends) \in ends /\ \A x \in ends : Min(ends) <= x
  BY <1>3, MinOfNaturals
<1>5. Min(ends) \in Nat /\ Min(ends) <= Len(stream) /\ Min(ends) <= readFrom + BatchSize
  BY <1>3, <1>4
<1>6. Reply = (readFrom + 1)..Min(ends)
  BY DEF Reply
<1> HIDE DEF ends
<1>7. QED
  BY <1>1, <1>2, <1>5, <1>6

-----------------------------------------------------------------------------
\* The first process starts with the invariant.
LEMMA InitLInv == Init => LInv
<1> SUFFICES ASSUME Init PROVE LInv
  OBVIOUS
<1>1. stream \in Seq(Kinds) /\ committed \in Seq(DOMAIN stream) /\ Len(stream) = 0
  BY EmptySeq DEF Init
<1>2. batch \subseteq DOMAIN stream /\ Cardinality(batch) <= BatchSize
  BY FS_EmptySet, ParameterAssumption DEF Init
<1>3. TypeOK
  <2>1. readFrom \in 0..Len(stream) /\ restarts \in 0..MaxRestarts
    BY <1>1, ParameterAssumption DEF Init
  <2>2. handed \subseteq DOMAIN stream
    BY DEF Init
  <2>3. QED
    BY <1>1, <1>2, <2>1, <2>2 DEF Init, TypeOK
<1>4. TakenBehindPosition /\ NoGapOncePositioned
  BY DEF Init, TakenBehindPosition, NoGapOncePositioned, Taken
<1>5. BatchIsProcessed /\ ReadsAfterPosition /\ CommittedBehind
  BY DEF Init, BatchIsProcessed, ReadsAfterPosition, CommittedBehind
<1>6. QED
  BY <1>3, <1>4, <1>5 DEF LInv

\* What the invariant says of the numbers.
LEMMA Positions ==
    ASSUME TypeOK
    PROVE  /\ Len(stream) \in Nat /\ DOMAIN stream = 1..Len(stream)
           /\ readFrom \in Nat /\ readFrom <= Len(stream)
           /\ lastID # Latest => lastID \in 1..Len(stream)
           /\ \A i \in Taken : i \in 1..Len(stream)
           /\ \A n \in DOMAIN committed : committed[n] \in 1..Len(stream)
<1>1. Len(stream) \in Nat /\ DOMAIN stream = 1..Len(stream)
  BY LenProperties DEF TypeOK
<1>2. \A n \in DOMAIN committed : committed[n] \in DOMAIN stream
  BY LenProperties DEF TypeOK
<1>3. QED
  BY <1>1, <1>2 DEF TypeOK, Taken

\* A longer stream disturbs nothing that is said of the entries it had.
LEMMA AppendEntryLInv ==
    ASSUME LInv, AppendEntry
    PROVE  LInv'
<1>0. TypeOK
  BY DEF LInv
<1>1. PICK k \in Kinds : stream' = Append(stream, k)
  BY DEF AppendEntry
<1>2. UNCHANGED <<committed, pc, lastID, readFrom, batch, cancelled, restarts, since, handed>>
  BY DEF AppendEntry, processVars
<1>3. /\ stream' \in Seq(Kinds) /\ Len(stream') = Len(stream) + 1
      /\ \A i \in 1..Len(stream) : stream'[i] = stream[i]
  BY <1>0, <1>1, AppendProperties DEF TypeOK
<1>4. /\ Len(stream) \in Nat /\ DOMAIN stream = 1..Len(stream)
      /\ DOMAIN stream' = 1..(Len(stream) + 1)
  BY <1>0, <1>3, LenProperties DEF TypeOK
<1>5. DOMAIN stream \subseteq DOMAIN stream'
  BY <1>4
<1>6. committed \in Seq(DOMAIN stream')
  <2>1. Len(committed) \in Nat /\ committed \in [1..Len(committed) -> DOMAIN stream]
    BY <1>0, LenProperties DEF TypeOK
  <2>2. committed \in [1..Len(committed) -> DOMAIN stream']
    BY <2>1, <1>5
  <2>3. QED
    BY <2>1, <2>2
<1>7. TypeOK'
  <2>1. stream' \in Seq(Kinds) /\ committed' \in Seq(DOMAIN stream')
    BY <1>2, <1>3, <1>6
  <2>2. /\ lastID' \in DOMAIN stream' \cup {Latest}
        /\ batch' \subseteq DOMAIN stream' /\ Cardinality(batch') <= BatchSize
        /\ handed' \subseteq DOMAIN stream'
    BY <1>0, <1>2, <1>5 DEF TypeOK
  <2>3. readFrom' \in 0..Len(stream') /\ since' \in 0..Len(stream') \cup {Latest}
    BY <1>0, <1>2, <1>3, <1>4 DEF TypeOK
  <2>4. QED
    BY <1>0, <1>2, <2>1, <2>2, <2>3 DEF TypeOK
<1>8. TakenBehindPosition' /\ BatchIsProcessed' /\ ReadsAfterPosition' /\ CommittedBehind'
  BY <1>2 DEF LInv, TakenBehindPosition, BatchIsProcessed, ReadsAfterPosition,
              CommittedBehind, Taken
<1>9. NoGapOncePositioned'
  <2>1. SUFFICES ASSUME NEW i \in Taken, NEW j \in i..lastID, HasData(j)'
                 PROVE  j \in Taken
    BY <1>2 DEF NoGapOncePositioned, Taken
  <2>2. i \in 1..Len(stream) /\ lastID \in 1..Len(stream)
    BY <1>0, Positions DEF LInv, TakenBehindPosition
  <2>3. j \in 1..Len(stream)
    BY <1>4, <2>2
  <2>4. HasData(j)
    BY <1>3, <2>1, <2>3 DEF HasData
  <2>5. QED
    BY <2>4 DEF LInv, NoGapOncePositioned
<1>10. QED
  BY <1>7, <1>8, <1>9 DEF LInv

\* The server resolves the position: everything committed lies at or before it.
LEMMA BeginReadLInv ==
    ASSUME LInv, BeginRead
    PROVE  LInv'
<1>1. TypeOK
  BY DEF LInv
<1>2. readFrom' \in 0..Len(stream) /\ since' \in 0..Len(stream) \cup {Latest}
  BY <1>1, Positions DEF BeginRead, TypeOK
<1>3. TypeOK'
  BY <1>1, <1>2 DEF BeginRead, TypeOK
<1>4. TakenBehindPosition' /\ BatchIsProcessed' /\ ReadsAfterPosition' /\ NoGapOncePositioned'
  BY DEF LInv, BeginRead, TakenBehindPosition, BatchIsProcessed, ReadsAfterPosition,
         NoGapOncePositioned, Taken, HasData
<1>5. CommittedBehind'
  <2>1. \A n \in DOMAIN committed : committed[n] <= readFrom'
    BY <1>1, Positions DEF LInv, CommittedBehind, BeginRead
  <2>2. QED
    BY <2>1 DEF LInv, CommittedBehind, BeginRead
<1>6. QED
  BY <1>3, <1>4, <1>5 DEF LInv

\* A batch begins right after the position and leaves out only entries without
\* data.
LEMMA ReadReturnsLInv ==
    ASSUME LInv, ReadReturns
    PROVE  LInv'
<1> DEFINE read == {i \in Reply : HasData(i)}
<1>1. TypeOK /\ pc = "reading" /\ batch = {}
  BY DEF LInv, ReadReturns, BatchIsProcessed
<1>2. /\ batch' = read /\ lastID' = NewPosition(read) /\ pc' = "processing"
      /\ UNCHANGED <<stream, committed, readFrom, cancelled, restarts, since, handed>>
  BY DEF ReadReturns
<1>3. /\ read \subseteq DOMAIN stream
      /\ read \subseteq (readFrom + 1)..(readFrom + BatchSize)
      /\ \A i \in read : \A j \in (readFrom + 1)..i : HasData(j) => j \in read
  BY <1>1, ReplyBounds
<1> HIDE DEF read
<1>4. /\ Len(stream) \in Nat /\ DOMAIN stream = 1..Len(stream)
      /\ readFrom \in Nat /\ BatchSize \in Nat
      /\ lastID # Latest => lastID \in 1..Len(stream)
      /\ \A i \in Taken : i \in 1..Len(stream)
      /\ \A n \in DOMAIN committed : committed[n] \in 1..Len(stream)
  BY <1>1, Positions, ParameterAssumption
<1>5. read # {} => /\ lastID' \in read
                   /\ \A i \in read : i <= lastID'
  <2>1. read \in SUBSET Nat /\ \A i \in read : i <= Len(stream)
    BY <1>3, <1>4
  <2>2. read # {} => Max(read) \in read /\ \A i \in read : i <= Max(read)
    BY <1>4, <2>1, MaxOfNaturals
  <2>3. QED
    BY <1>2, <2>2 DEF NewPosition
<1>6. read = {} => lastID' = lastID
  BY <1>2 DEF NewPosition
<1>7. lastID' # Latest /\ lastID # Latest => lastID <= lastID'
  BY <1>1, <1>3, <1>4, <1>5, <1>6 DEF LInv, ReadsAfterPosition
<1>8. TypeOK'
  <2>1. Cardinality(read) <= BatchSize
    <3>1. /\ IsFiniteSet((readFrom + 1)..(readFrom + BatchSize))
          /\ Cardinality((readFrom + 1)..(readFrom + BatchSize)) <= BatchSize
      BY <1>4, FS_Interval, ParameterAssumption
    <3>2. /\ IsFiniteSet(read)
          /\ Cardinality(read) <= Cardinality((readFrom + 1)..(readFrom + BatchSize))
      BY <1>3, <3>1, FS_Subset
    <3>3. /\ Cardinality(read) \in Nat
          /\ Cardinality((readFrom + 1)..(readFrom + BatchSize)) \in Nat
      BY <3>1, <3>2, FS_CardinalityType
    <3>4. QED
      BY <1>4, <3>1, <3>2, <3>3
  <2>2. lastID' \in DOMAIN stream \cup {Latest}
    BY <1>1, <1>3, <1>5, <1>6 DEF TypeOK
  <2>3. QED
    BY <1>1, <1>2, <1>3, <2>1, <2>2 DEF TypeOK
<1>9. Latest \notin read
  BY <1>3, <1>4, LatestAssumption
<1>10. TakenBehindPosition'
  <2>1. SUFFICES ASSUME NEW i \in handed \cup read
                 PROVE  lastID' # Latest /\ i <= lastID'
    BY <1>2 DEF TakenBehindPosition, Taken
  <2>2. CASE i \in read
    BY <1>5, <1>9, <2>2
  <2>3. CASE i \in handed
    <3>1. i \in Taken /\ lastID # Latest /\ i <= lastID
      BY <2>3 DEF LInv, TakenBehindPosition, Taken
    <3>2. lastID' # Latest
      BY <1>5, <1>6, <1>9, <3>1
    <3>3. i \in Nat /\ lastID \in Nat /\ lastID' \in Nat
      BY <1>3, <1>4, <1>5, <1>6, <3>1
    <3>4. QED
      BY <1>7, <3>1, <3>2, <3>3
  <2>4. QED
    BY <2>1, <2>2, <2>3
<1>11. BatchIsProcessed' /\ ReadsAfterPosition'
  BY <1>2 DEF BatchIsProcessed, ReadsAfterPosition
<1>12. CommittedBehind'
  <2>1. SUFFICES ASSUME NEW n \in DOMAIN committed
                 PROVE  /\ \A i \in read : committed[n] < i
                        /\ lastID' # Latest => committed[n] <= lastID'
    BY <1>2 DEF CommittedBehind
  <2>2. committed[n] <= readFrom /\ (lastID # Latest => committed[n] <= lastID)
    BY <1>1 DEF LInv, CommittedBehind
  <2>3. \A i \in read : committed[n] < i
    BY <1>3, <1>4, <2>2
  <2>4. lastID' # Latest => committed[n] <= lastID'
    BY <1>3, <1>4, <1>5, <1>6, <2>2, <2>3
  <2>5. QED
    BY <2>3, <2>4
<1>13. NoGapOncePositioned'
  <2>1. SUFFICES ASSUME NEW i \in handed \cup read, NEW j \in i..lastID', HasData(j)
                 PROVE  j \in handed \cup read
    BY <1>2 DEF NoGapOncePositioned, Taken, HasData
  <2>2. lastID' \in Nat /\ i \in Nat
    <3>1. lastID' # Latest /\ i \in 1..Len(stream)
      BY <1>2, <1>3, <1>4, <1>10 DEF TakenBehindPosition, Taken
    <3>2. QED
      BY <1>4, <1>8, <3>1 DEF TypeOK
  <2>3. j \in Nat /\ i <= j /\ j <= lastID'
    BY <2>2
  <2>4. CASE j > readFrom
    <3>1. read # {}
      <4>1. SUFFICES ASSUME read = {} PROVE FALSE
        OBVIOUS
      <4>2. i \in Taken /\ lastID' = lastID
        BY <1>6, <2>1, <4>1 DEF Taken
      <4>3. lastID # Latest /\ readFrom = lastID
        BY <1>1, <4>2 DEF LInv, TakenBehindPosition, ReadsAfterPosition
      <4>4. QED
        BY <1>4, <2>3, <2>4, <4>2, <4>3
    <3>2. j \in (readFrom + 1)..lastID'
      BY <1>4, <2>2, <2>3, <2>4
    <3>3. QED
      BY <1>3, <1>5, <2>1, <3>1, <3>2
  <2>5. CASE j <= readFrom
    <3>1. i \notin read
      BY <1>3, <1>4, <2>2, <2>3, <2>5
    <3>2. i \in Taken
      BY <2>1, <3>1 DEF Taken
    <3>3. lastID # Latest /\ readFrom = lastID
      BY <1>1, <3>2 DEF LInv, TakenBehindPosition, ReadsAfterPosition
    <3>4. j \in i..lastID
      BY <1>4, <2>2, <2>3, <2>5, <3>3
    <3>5. j \in Taken
      BY <2>1, <3>2, <3>4 DEF LInv, NoGapOncePositioned
    <3>6. QED
      BY <1>1, <3>5 DEF Taken
  <2>6. QED
    BY <1>4, <2>3, <2>4, <2>5
<1>14. QED
  BY <1>8, <1>10, <1>11, <1>12, <1>13 DEF LInv

\* The steps that only move the goroutine or its context.
LEMMA IdleLInv ==
    ASSUME LInv,
           \/ ReadTimesOut \/ ReadFails \/ Backoff \/ BatchDone \/ StreamReturns
           \/ Signal \/ ProcessEnds
    PROVE  LInv'
<1>1. UNCHANGED <<stream, committed, lastID, readFrom, batch, restarts, since, handed>>
  BY DEF ReadTimesOut, ReadFails, Backoff, BatchDone, StreamReturns, Signal, ProcessEnds
<1>2. /\ pc' \in {"loop", "reading", "backoff", "processing", "ended", "down"}
      /\ cancelled' \in BOOLEAN
      /\ pc' = "reading" => pc = "reading"
      /\ pc' \notin {"processing", "down"} => batch = {}
  BY DEF LInv, TypeOK, BatchIsProcessed, ReadTimesOut, ReadFails, Backoff, BatchDone,
         StreamReturns, Signal, ProcessEnds
<1>3. TypeOK'
  BY <1>1, <1>2 DEF LInv, TypeOK
<1>4. TakenBehindPosition' /\ NoGapOncePositioned'
  BY <1>1 DEF LInv, TakenBehindPosition, NoGapOncePositioned, Taken, HasData
<1>5. BatchIsProcessed' /\ ReadsAfterPosition' /\ CommittedBehind'
  BY <1>1, <1>2 DEF LInv, BatchIsProcessed, ReadsAfterPosition, CommittedBehind
<1>6. QED
  BY <1>3, <1>4, <1>5 DEF LInv

\* The entry that is handed over next, and what it means to commit it.
LEMMA NextEntry ==
    ASSUME LInv, batch # {}
    PROVE  /\ Min(batch) \in batch
           /\ \A i \in batch : Min(batch) <= i
           /\ \A n \in DOMAIN committed : committed[n] < Min(batch)
<1>1. batch \in SUBSET Nat
  BY Positions DEF LInv, TypeOK
<1>2. QED
  BY <1>1, MinOfNaturals DEF LInv, CommittedBehind

\* Handing over the smallest entry of the batch keeps all others ahead.
LEMMA ProcessEntryLInv ==
    ASSUME LInv, ProcessEntry
    PROVE  LInv'
<1> DEFINE entry == Min(batch)
<1>1. /\ pc = "processing" /\ batch # {}
      /\ committed' = Append(committed, entry) \/ committed' = committed
      /\ handed' = handed \cup {entry} /\ batch' = batch \ {entry}
      /\ UNCHANGED <<stream, pc, lastID, readFrom, cancelled, restarts, since>>
  BY DEF ProcessEntry
<1>2. TypeOK /\ entry \in batch
      /\ (\A i \in batch : entry <= i) /\ \A n \in DOMAIN committed : committed[n] < entry
  BY <1>1, NextEntry DEF LInv
<1> HIDE DEF entry
<1>3. /\ DOMAIN stream = 1..Len(stream) /\ Len(stream) \in Nat
      /\ entry \in DOMAIN stream /\ batch \subseteq DOMAIN stream
  BY <1>2, LenProperties DEF TypeOK
<1>4. Taken' = Taken
  BY <1>1, <1>2 DEF Taken
<1>5. /\ committed' \in Seq(DOMAIN stream)
      /\ \A n \in DOMAIN committed' :
            (n \in DOMAIN committed /\ committed'[n] = committed[n]) \/ committed'[n] = entry
  <2>1. CASE committed' = committed
    BY <1>2, <2>1 DEF TypeOK
  <2>2. CASE committed' = Append(committed, entry)
    <3>1. committed \in Seq(DOMAIN stream)
      BY <1>2 DEF TypeOK
    <3>2. /\ committed' \in Seq(DOMAIN stream)
          /\ Len(committed') = Len(committed) + 1
          /\ \A n \in 1..Len(committed) : committed'[n] = committed[n]
          /\ committed'[Len(committed) + 1] = entry
      BY <1>3, <2>2, <3>1, AppendProperties
    <3>3. /\ DOMAIN committed = 1..Len(committed) /\ Len(committed) \in Nat
          /\ DOMAIN committed' = 1..Len(committed')
      BY <3>1, <3>2, LenProperties
    <3>4. QED
      BY <3>2, <3>3
  <2>3. QED
    BY <1>1, <2>1, <2>2
<1>6. TypeOK'
  <2>1. Cardinality(batch') <= BatchSize
    <3>1. IsFiniteSet(batch)
      <4>1. IsFiniteSet(1..Len(stream))
        BY <1>3, FS_Interval
      <4>2. QED
        BY <1>3, <4>1, FS_Subset
    <3>2. IsFiniteSet(batch') /\ Cardinality(batch') <= Cardinality(batch)
      BY <1>1, <3>1, FS_Subset
    <3>3. Cardinality(batch) \in Nat /\ Cardinality(batch') \in Nat
      BY <3>1, <3>2, FS_CardinalityType
    <3>4. QED
      BY <1>2, <3>2, <3>3, ParameterAssumption DEF TypeOK
  <2>2. handed' \subseteq DOMAIN stream /\ batch' \subseteq DOMAIN stream
    BY <1>1, <1>2, <1>3 DEF TypeOK
  <2>3. QED
    BY <1>1, <1>2, <1>5, <2>1, <2>2 DEF TypeOK
<1>7. TakenBehindPosition'
  BY <1>1, <1>4 DEF LInv, TakenBehindPosition
<1>8. NoGapOncePositioned'
  BY <1>1, <1>4 DEF LInv, NoGapOncePositioned, HasData
<1>9. BatchIsProcessed' /\ ReadsAfterPosition'
  BY <1>1 DEF LInv, BatchIsProcessed, ReadsAfterPosition
<1>10. CommittedBehind'
  <2>1. SUFFICES ASSUME NEW n \in DOMAIN committed'
                 PROVE  /\ \A i \in batch' : committed'[n] < i
                        /\ lastID # Latest => committed'[n] <= lastID
    BY <1>1 DEF CommittedBehind
  <2>2. CASE n \in DOMAIN committed /\ committed'[n] = committed[n]
    BY <1>1, <2>2 DEF LInv, CommittedBehind
  <2>3. CASE committed'[n] = entry
    <3>1. \A i \in batch' : entry < i
      BY <1>1, <1>2, <1>3
    <3>2. entry <= lastID
      BY <1>2 DEF LInv, TakenBehindPosition, Taken
    <3>3. QED
      BY <2>3, <3>1, <3>2
  <2>4. QED
    BY <1>5, <2>2, <2>3
<1>11. QED
  BY <1>6, <1>7, <1>8, <1>9, <1>10 DEF LInv

\* A new process knows nothing, and what was committed stays.
LEMMA RestartLInv ==
    ASSUME LInv, Restart
    PROVE  LInv'
<1>1. TypeOK
  BY DEF LInv
<1>2. Cardinality({}) <= BatchSize
  BY FS_EmptySet, ParameterAssumption
<1>3. restarts' \in 0..MaxRestarts /\ readFrom' \in 0..Len(stream)
  BY <1>1, Positions, ParameterAssumption DEF Restart, TypeOK
<1>4. TypeOK'
  BY <1>1, <1>2, <1>3 DEF Restart, TypeOK
<1>5. TakenBehindPosition' /\ NoGapOncePositioned'
  BY DEF Restart, TakenBehindPosition, NoGapOncePositioned, Taken
<1>6. BatchIsProcessed' /\ ReadsAfterPosition' /\ CommittedBehind'
  BY DEF Restart, BatchIsProcessed, ReadsAfterPosition, CommittedBehind
<1>7. QED
  BY <1>4, <1>5, <1>6 DEF LInv

\* Every step keeps the invariant.
LEMMA NextLInv == LInv /\ [Next]_vars => LInv'
<1> SUFFICES ASSUME LInv, [Next]_vars PROVE LInv'
  OBVIOUS
<1>1. CASE AppendEntry
  BY <1>1, AppendEntryLInv
<1>2. CASE BeginRead
  BY <1>2, BeginReadLInv
<1>3. CASE ReadReturns
  BY <1>3, ReadReturnsLInv
<1>4. CASE \/ ReadTimesOut \/ ReadFails \/ Backoff \/ BatchDone \/ StreamReturns
           \/ Signal \/ ProcessEnds
  BY <1>4, IdleLInv
<1>5. CASE ProcessEntry
  BY <1>5, ProcessEntryLInv
<1>6. CASE Restart
  BY <1>6, RestartLInv
<1>7. CASE UNCHANGED vars
  BY <1>7 DEF vars, processVars, LInv, TypeOK, TakenBehindPosition, BatchIsProcessed,
              ReadsAfterPosition, CommittedBehind, NoGapOncePositioned, Taken, HasData
<1>8. QED
  BY <1>1, <1>2, <1>3, <1>4, <1>5, <1>6, <1>7 DEF Next, Listen

-----------------------------------------------------------------------------
\* The inductive invariant holds throughout.
LEMMA ListenerInvariance == Spec => []LInv
  BY InitLInv, NextLInv, PTL DEF Spec

\* The state of the listener is well formed; a batch is never longer than the
\* COUNT of the XREAD (readBatch).
THEOREM ListenerTypeCorrect == Spec => []TypeOK
<1>1. LInv => TypeOK
  BY DEF LInv
<1>2. QED
  BY <1>1, ListenerInvariance, PTL

\* Failed reads, half-processed batches and entries without data open no gap
\* between what a process takes and its position (Stream, readBatch).
THEOREM NoGap == Spec => []NoGapOncePositioned
<1>1. LInv => NoGapOncePositioned
  BY DEF LInv
<1>2. QED
  BY <1>1, ListenerInvariance, PTL

\* A committed entry is one the abstract consumer may persist.
LEMMA ProcessEntryConsumes ==
    ASSUME LInv, ProcessEntry
    PROVE  [Consumer!Next]_(Consumer!vars)
<1>1. /\ Min(batch) \in batch /\ batch \subseteq DOMAIN stream
      /\ \A n \in DOMAIN committed : committed[n] < Min(batch)
  BY NextEntry DEF ProcessEntry, LInv, TypeOK
<1>2. CASE UNCHANGED committed
  BY <1>2 DEF ProcessEntry, Consumer!vars
<1>3. CASE committed' = Append(committed, Min(batch))
  <2>1. Consumer!Persist(Min(batch))
    BY <1>1, <1>3 DEF ProcessEntry, Consumer!Persist, Consumer!After
  <2>2. QED
    BY <1>1, <2>1 DEF Consumer!Next
<1>4. QED
  BY <1>2, <1>3 DEF ProcessEntry

\* Every step is one of the abstract consumer or leaves it as it is.
LEMMA NextConsumes == LInv /\ [Next]_vars => [Consumer!Next]_(Consumer!vars)
<1> SUFFICES ASSUME LInv, [Next]_vars PROVE [Consumer!Next]_(Consumer!vars)
  OBVIOUS
<1>1. CASE AppendEntry
  BY <1>1 DEF AppendEntry, Consumer!Next, Consumer!Extend
<1>2. CASE ProcessEntry
  BY <1>2, ProcessEntryConsumes
<1>3. CASE \/ BeginRead \/ ReadReturns \/ ReadTimesOut \/ ReadFails \/ Backoff \/ BatchDone
           \/ StreamReturns \/ Signal \/ ProcessEnds \/ Restart
  BY <1>3 DEF BeginRead, ReadReturns, ReadTimesOut, ReadFails, Backoff, BatchDone,
              StreamReturns, Signal, ProcessEnds, Restart, Consumer!vars
<1>4. CASE UNCHANGED vars
  BY <1>4 DEF vars, Consumer!vars
<1>5. QED
  BY <1>1, <1>2, <1>3, <1>4 DEF Next, Listen

\* The listener implements a consumer that persists each entry at most once and
\* in the order of the stream, over crashes, restarts and lost reads
\* (NewValkeyClient, Stream, processEntry).
THEOREM ImplementsConsumer == Spec => AtMostOnceInOrder
<1>1. Init => Consumer!Init
  BY DEF Init, Consumer!Init
<1>2. LInv /\ [Next]_vars => [Consumer!Next]_(Consumer!vars)
  BY NextConsumes
<1>3. QED
  BY <1>1, <1>2, ListenerInvariance, PTL DEF Spec, AtMostOnceInOrder, Consumer!Spec

-----------------------------------------------------------------------------
(***************************************************************************)
(* The position goes forward: what CatchesUp rests on.                     *)
(***************************************************************************)
\* An entry that is still to be taken.
Awaits(i) == i \in DOMAIN stream /\ i > lastID /\ HasData(i)

\* What one step does to a position that the process has: it is never lost and
\* never goes back, and a read that returns moves it past at least one entry
\* with data, unless nothing is left to take or the listener is stuck.
MovesOn ==
    /\ lastID' # Latest
    /\ lastID' >= lastID
    /\ ReadReturns => \/ lastID' > lastID /\ lastID' \in batch'
                      \/ batch' = {} /\ (Stuck \/ \A i : ~Awaits(i))

\* A read of a listener with a position takes what the reply has with data; an
\* empty batch is a reply of entries without any, either a full one or one that
\* reaches the end of the stream.
LEMMA ReadMovesOn ==
    ASSUME LInv, ReadReturns, lastID # Latest
    PROVE  MovesOn
<1> DEFINE read == {i \in Reply : HasData(i)}
           ends == {readFrom + BatchSize, Len(stream)}
<1>1. TypeOK /\ readFrom = lastID
  BY DEF LInv, ReadReturns, ReadsAfterPosition
<1>2. /\ batch' = read
      /\ lastID' = IF read = {} THEN lastID ELSE Max(read)
  BY DEF ReadReturns, NewPosition
<1>3. /\ Len(stream) \in Nat /\ DOMAIN stream = 1..Len(stream)
      /\ readFrom \in Nat /\ BatchSize \in Nat
      /\ lastID \in 1..Len(stream)
  BY <1>1, Positions, ParameterAssumption
<1>4. Reply \subseteq DOMAIN stream /\ Reply \subseteq (readFrom + 1)..(readFrom + BatchSize)
  BY <1>1, ReplyBounds
<1>5. Reply = (readFrom + 1)..Min(ends)
  BY DEF Reply
<1>6. Min(ends) = readFrom + BatchSize \/ Min(ends) = Len(stream)
  <2>1. ends \in SUBSET Nat /\ ends # {}
    BY <1>3
  <2>2. Min(ends) \in ends
    BY <2>1, MinOfNaturals
  <2>3. QED
    BY <2>2
<1>7. Min(ends) <= Len(stream)
  <2>1. ends \in SUBSET Nat /\ ends # {}
    BY <1>3
  <2>2. \A x \in ends : Min(ends) <= x
    BY <2>1, MinOfNaturals
  <2>3. QED
    BY <2>2
<1> HIDE DEF ends
<1>8. CASE read # {}
  <2>1. read \in SUBSET Nat /\ \A i \in read : i <= Len(stream)
    BY <1>3, <1>4
  <2>2. lastID' \in read
    BY <1>2, <1>3, <1>8, <2>1, MaxOfNaturals
  <2>3. lastID' \in Nat /\ lastID' > lastID
    BY <1>1, <1>3, <1>4, <2>2
  <2>4. QED
    BY <1>2, <1>3, <2>2, <2>3, LatestAssumption DEF MovesOn
<1>9. CASE read = {}
  <2>1. \A i \in Reply : ~HasData(i)
    BY <1>9
  <2>2. lastID' = lastID /\ batch' = {}
    BY <1>2, <1>9
  <2>3. Stuck \/ \A i : ~Awaits(i)
    <3>1. CASE Min(ends) = readFrom + BatchSize
      BY <1>1, <1>3, <1>5, <1>7, <2>1, <3>1 DEF Stuck
    <3>2. CASE Min(ends) = Len(stream)
      BY <1>1, <1>3, <1>5, <2>1, <3>2 DEF Awaits
    <3>3. QED
      BY <1>6, <3>1, <3>2
  <2>4. QED
    BY <1>3, <2>2, <2>3, LatestAssumption DEF MovesOn
<1>10. QED
  BY <1>8, <1>9

\* No other step of a living process touches the position.
LEMMA StepMovesOn ==
    ASSUME LInv, [Next]_vars, lastID # Latest, pc # "down"
    PROVE  MovesOn
<1>1. CASE ReadReturns
  BY <1>1, ReadMovesOn
<1>2. CASE ~ReadReturns
  <2>1. lastID' = lastID
    BY <1>2 DEF Next, Listen, AppendEntry, BeginRead, ReadTimesOut, ReadFails, Backoff,
                ProcessEntry, BatchDone, StreamReturns, Signal, ProcessEnds, Restart, vars,
                processVars
  <2>2. lastID \in Nat
    BY Positions DEF LInv
  <2>3. QED
    BY <1>2, <2>1, <2>2 DEF MovesOn
<1>3. QED
  BY <1>1, <1>2

\* A listener that has a position never goes back behind it and never reads in
\* vain: every XREAD that returns moves it past an entry with data, unless
\* there is none left, or a whole batch of entries without data stands in
\* between, over which lastID does not move (readBatch).  Nothing else can keep
\* a read that returns from moving on.
THEOREM ReadsMoveOn ==
    Spec => [][lastID # Latest /\ pc # "down" => MovesOn]_vars
<1>1. LInv /\ [Next]_vars => [lastID # Latest /\ pc # "down" => MovesOn]_vars
  BY StepMovesOn
<1>2. QED
  BY <1>1, ListenerInvariance, PTL DEF Spec
=============================================================================
