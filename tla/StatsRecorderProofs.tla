-------------------------- MODULE StatsRecorderProofs --------------------------
(***************************************************************************)
(* For any number of events, batches, crashes and errors and any limits: a   *)
(* recorded event is neither lost nor counted twice, wherever the process    *)
(* dies, and no reported total ever shrinks.                                *)
(***************************************************************************)
EXTENDS StatsRecorder, FiniteSetTheorems, TLAPS

(* The types TypeOK leaves out.                                            *)
FaultTypes ==
  /\ crashes \in 0..MaxCrashes /\ errors \in 0..MaxErrors
  /\ durable \subseteq Events /\ spoiled \subseteq Events
  /\ DOMAIN processing = Batches /\ DOMAIN deltas = DeltaNames
  /\ pc = "write" => queue # <<>>

(* The actor's batch is open; its delta is absent until it is written and    *)
(* present while its directory is removed.                                 *)
BatchInHand ==
  /\ pc \in {"move", "batch", "delta", "remove"} => batch \in Batches /\ processing[batch] # NoFile
  /\ pc = "move" => deltas[batch] = NoFile /\ batch \notin included /\ todo \subseteq eventFiles
  /\ pc = "delta" => deltas[batch] = NoFile
  /\ pc = "remove" => deltas[batch] # NoFile
  /\ booting => pc \in {"down", "recover", "batch", "delta", "remove", "clean"}

(* A batch that has a delta holds no more than the delta; what was merged    *)
(* has been counted; a temporary file no crash has left yet does not exist.  *)
DeltasCoverBatches ==
  /\ \A b \in Batches : deltas[b] # NoFile =>
       deltas[b] # Torn /\ (processing[b] # NoFile => processing[b] \subseteq deltas[b])
  /\ \A i \in included : deltas[i] # NoFile =>
       deltas[i] # Torn /\ \A e \in deltas[i] : counts[e] > 0
  /\ \A b \in Batches \cap included : processing[b] # NoFile =>
       \A e \in processing[b] : counts[e] > 0
  /\ \A n \in TempNames : n > crashes => deltas[n] = NoFile /\ n \notin included

(* Only what a crash or an error has spoiled is in a temporary delta, or in   *)
(* a batch that has a delta and will not be recovered before the next start. *)
SpoiledIsKnown ==
  /\ \A n \in TempNames : deltas[n] \in {NoFile, Torn} \/ deltas[n] \subseteq spoiled
  /\ ~booting \/ pc = "clean" =>
       \A b \in Batches : \/ processing[b] = NoFile \/ deltas[b] = NoFile
                          \/ pc = "remove" /\ b = batch
                          \/ deltas[b] \subseteq spoiled

(* Where an event is on its way to be reported.                            *)
Queued(e) == \E i \in 1..Len(queue) : queue[i] = e
QueuedOnce(e) == \A i, j \in 1..Len(queue) : queue[i] = e /\ queue[j] = e => i = j
InBatch(e, b) == processing[b] # NoFile /\ deltas[b] = NoFile /\ e \in processing[b]
InDelta(e, i) == deltas[i] \notin {NoFile, Torn} /\ i \notin included /\ e \in deltas[i]

(* An event is in at most one of these places, and there once.             *)
InOnePlace(e) ==
  /\ e \in fresh => ~Queued(e)
  /\ e \in fresh \/ Queued(e) => e \notin eventFiles
  /\ e \in fresh \/ Queued(e) \/ e \in eventFiles => \A b \in Batches : ~InBatch(e, b)
  /\ e \in fresh \/ Queued(e) \/ e \in eventFiles \/ (\E b \in Batches : InBatch(e, b)) =>
       counts[e] = 0 /\ \A i \in DeltaNames : ~InDelta(e, i)
  /\ (\E i \in DeltaNames : InDelta(e, i)) => counts[e] = 0
  /\ QueuedOnce(e)
  /\ \A b, c \in Batches : InBatch(e, b) /\ InBatch(e, c) => b = c
  /\ \A i, j \in DeltaNames : InDelta(e, i) /\ InDelta(e, j) => i = j
  /\ counts[e] <= 1

OnePlace == \A e \in Events \ spoiled : InOnePlace(e)

(* WrittenEventsAreKept, in terms of these places.                          *)
Kept ==
  \A e \in durable \ torn :
    \/ e \in eventFiles \/ \E b \in Batches : InBatch(e, b)
    \/ counts[e] > 0 \/ \E i \in DeltaNames : InDelta(e, i)

StatsInv ==
  /\ TypeOK /\ FaultTypes
  /\ BatchInHand /\ DeltasCoverBatches
  /\ SpoiledIsKnown /\ Kept /\ OnePlace
-----------------------------------------------------------------------------
(* What finite sets of events and of delta files need.                     *)

LEMMA NamesAreFinite ==
  /\ IsFiniteSet(DeltaNames)
  /\ \A S \in SUBSET DeltaNames : IsFiniteSet(S) /\ Cardinality(S) \in Nat
  /\ \A S \in SUBSET Events : IsFiniteSet(S) /\ Cardinality(S) \in Nat
  <1>1. IsFiniteSet(TempNames)
    BY FS_Interval, BoundAssumption DEF TempNames
  <1>2. IsFiniteSet(DeltaNames)
    BY <1>1, FS_Union, FileAssumption DEF DeltaNames
  <1> QED BY <1>2, FS_Subset, FS_CardinalityType, FileAssumption

(* A total is positive when it counts anything.                            *)
LEMMA SomethingCounted ==
  ASSUME NEW n \in Nat, NEW S, IsFiniteSet(S)
  PROVE  /\ Saturate(n + Cardinality(S)) \in 0..CounterMax
         /\ Saturate(n + Cardinality(S)) > 0 <=> n > 0 \/ S # {}
  <1>1. Cardinality(S) \in Nat /\ (Cardinality(S) = 0 <=> S = {})
    BY FS_CardinalityType, FS_EmptySet
  <1> QED BY <1>1, BoundAssumption DEF Saturate

-----------------------------------------------------------------------------
(* Types, and the actor's batch                                            *)

LEMMA StepTypes ==
  ASSUME TypeOK, FaultTypes, BatchInHand, DeltasCoverBatches, [Next]_vars
  PROVE  TypeOK' /\ FaultTypes'
  <1>0. queue # <<>> => /\ Head(queue) \in Events /\ Tail(queue) \in Seq(Events)
                        /\ Len(Tail(queue)) <= QueueCapacity
    BY BoundAssumption DEF TypeOK
  <1> USE DEF TypeOK, FaultTypes
  <1>1. ASSUME NEW e \in Events, Record(e)
        PROVE  TypeOK' /\ FaultTypes'
    <2>1. queue' \in Seq(Events) /\ Len(queue') <= QueueCapacity
      BY <1>1, BoundAssumption DEF Record
    <2>2. pc' = "write" => queue' # <<>>
      <3>1. Append(queue, e) # <<>>
        BY <1>1
      <3> QED BY <1>1, <3>1 DEF Record
    <2> QED BY <1>1, <2>1, <2>2 DEF Record, disk, faults
  <1>2. CASE DropEvent
    BY <1>0, <1>2 DEF DropEvent, disk, faults
  <1>3. CASE ReceiveEvent
    BY <1>3 DEF ReceiveEvent, disk, faults
  <1>4. CASE WriteEvent
    BY <1>0, <1>4 DEF WriteEvent, faults
  <1>5. CASE RollupTriggered \/ Tick
    BY <1>5, FileAssumption DEF RollupTriggered, Tick, BeginRollup, faults
  <1>6. ASSUME NEW e \in Events, MoveEvent(e)
        PROVE  TypeOK' /\ FaultTypes'
    BY <1>6 DEF MoveEvent, BatchInHand, faults
  <1>7. ASSUME NEW e \in Events, MoveFails(e)
        PROVE  TypeOK' /\ FaultTypes'
    BY <1>7, BoundAssumption DEF MoveFails, disk
  <1>8. ASSUME NEW e \in Events, RemoveEvent(e)
        PROVE  TypeOK' /\ FaultTypes'
    BY <1>8 DEF RemoveEvent, BatchInHand, faults
  <1>9. CASE EnterBatch
    BY <1>9 DEF EnterBatch, disk, faults
  <1>10. CASE ProcessBatch
    <2>1. size' \in Nat
      BY <1>10, NamesAreFinite DEF ProcessBatch, BatchInHand
    <2> QED BY <1>10, <2>1 DEF ProcessBatch, BatchInHand, faults
  <1>11. CASE WriteDelta
    BY <1>11 DEF WriteDelta, BatchInHand, faults, DeltaNames
  <1>12. CASE RemoveBatch
    BY <1>12 DEF RemoveBatch, LeaveBatch, Without, faults
  <1>13. CASE Compact
    <2>1. counts' \in [Events -> 0..CounterMax]
      <3>1. ASSUME NEW e \in Events
            PROVE  Saturate(counts[e] + Cardinality({i \in Unmerged : e \in deltas[i]}))
                     \in 0..CounterMax
        <4>1. IsFiniteSet({i \in Unmerged : e \in deltas[i]}) /\ counts[e] \in Nat
          BY NamesAreFinite, BoundAssumption DEF Unmerged, DeltaFiles
        <4> QED BY <4>1, SomethingCounted
      <3> QED BY <1>13, <3>1 DEF Compact, Merged
    <2> QED BY <1>13, <2>1 DEF Compact, Unmerged, DeltaFiles, faults
  <1>14. ASSUME NEW b \in Batches, RemoveDelta(b)
         PROVE  TypeOK' /\ FaultTypes'
    BY <1>14 DEF RemoveDelta, faults
  <1>15. CASE ClearIncluded
    BY <1>15 DEF ClearIncluded, faults
  <1>16. CASE ActorError
    <2>1. queue' \in Seq(Events) /\ Len(queue') <= QueueCapacity
      BY <1>0, <1>16 DEF ActorError
    <2>2. spoiled' \subseteq Events
      BY <1>16, FileAssumption DEF ActorError, BatchInHand, DeltasCoverBatches, DeltaNames
    <2> QED BY <1>16, <2>1, <2>2, BoundAssumption DEF ActorError, LeaveBatch, disk
  <1>17. CASE Crash
    <2>1. queue' \in Seq(Events) /\ Len(queue') <= QueueCapacity
      BY <1>17, BoundAssumption DEF Crash
    <2>2. /\ eventFiles' \subseteq Events /\ torn' \subseteq Events /\ durable' \subseteq Events
          /\ spoiled' \subseteq Events
          /\ DOMAIN deltas' = DeltaNames
          /\ \A i \in DeltaNames : deltas'[i] \in {NoFile, Torn} \/ deltas'[i] \subseteq Events
      <3>1. CASE pc = "write"
        BY <1>0, <1>17, <3>1 DEF Crash, Leftover
      <3>2. CASE pc = "delta"
        BY <1>17, <3>2 DEF Crash, Leftover, BatchInHand
      <3>3. CASE pc \notin {"write", "delta"}
        BY <1>17, <3>3 DEF Crash, Leftover
      <3> QED BY <3>1, <3>2, <3>3
    <2> QED BY <1>17, <2>1, <2>2, BoundAssumption DEF Crash, LeaveBatch
  <1>18. CASE Start
    BY <1>18, NamesAreFinite DEF Start, disk, faults
  <1>19. ASSUME NEW b \in Batches, RecoverBatch(b)
         PROVE  TypeOK' /\ FaultTypes'
    BY <1>19 DEF RecoverBatch, disk, faults
  <1>20. CASE Recovered
    BY <1>20 DEF Recovered, disk, faults
  <1>21. CASE UNCHANGED vars
    BY <1>21 DEF vars, disk, faults
  <1> QED
    BY <1>1, <1>2, <1>3, <1>4, <1>5, <1>6, <1>7, <1>8, <1>9, <1>10, <1>11, <1>12, <1>13,
       <1>14, <1>15, <1>16, <1>17, <1>18, <1>19, <1>20, <1>21
    DEF Next, Work, Fault
(* What a compaction merges is counted, and the merged deltas are noted.     *)
LEMMA CompactCounts ==
  ASSUME TypeOK, FaultTypes, Compact, ~UNCHANGED <<counts, included>>
  PROVE  /\ included' = included \cup Unmerged /\ Unmerged \subseteq DeltaNames
         /\ \A i \in Unmerged : deltas[i] \subseteq Events
         /\ \A i \in Unmerged : deltas[i] # NoFile /\ deltas[i] # Torn
         /\ \A e \in Events :
              /\ counts'[e] = Saturate(counts[e] + Cardinality({i \in DeltaNames : InDelta(e, i)}))
              /\ counts'[e] > 0 <=> counts[e] > 0 \/ \E i \in DeltaNames : InDelta(e, i)
  <1>1. /\ counts' = Merged(Unmerged) /\ included' = included \cup Unmerged
        /\ \A i \in Unmerged : deltas[i] # Torn
    BY DEF Compact, Answerable
  <1>2. /\ Unmerged \subseteq DeltaNames
        /\ \A i \in Unmerged : deltas[i] \subseteq Events /\ deltas[i] # NoFile
    BY <1>1 DEF TypeOK, Unmerged, DeltaFiles
  <1>3. ASSUME NEW e \in Events
        PROVE  /\ counts'[e] = Saturate(counts[e] + Cardinality({i \in DeltaNames : InDelta(e, i)}))
               /\ counts'[e] > 0 <=> counts[e] > 0 \/ \E i \in DeltaNames : InDelta(e, i)
    <2>1. {i \in Unmerged : e \in deltas[i]} = {i \in DeltaNames : InDelta(e, i)}
      BY <1>1, <1>2 DEF InDelta, Unmerged, DeltaFiles
    <2>2. IsFiniteSet({i \in DeltaNames : InDelta(e, i)}) /\ counts[e] \in Nat
      BY NamesAreFinite, BoundAssumption DEF TypeOK
    <2>3. counts'[e] = Saturate(counts[e] + Cardinality({i \in DeltaNames : InDelta(e, i)}))
      BY <1>1, <2>1 DEF Merged
    <2>4. {i \in DeltaNames : InDelta(e, i)} # {} <=> \E i \in DeltaNames : InDelta(e, i)
      OBVIOUS
    <2> QED BY <2>2, <2>3, <2>4, SomethingCounted
  <1> QED BY <1>1, <1>2, <1>3

LEMMA StepBatch ==
  ASSUME TypeOK, FaultTypes, BatchInHand, DeltasCoverBatches, [Next]_vars
  PROVE  BatchInHand'
  <1> USE FileAssumption DEF TypeOK, FaultTypes, BatchInHand
  <1>1. CASE \/ \E e \in Events : Record(e) \/ MoveFails(e)
             \/ DropEvent \/ ReceiveEvent \/ EnterBatch \/ Start \/ UNCHANGED vars
    BY <1>1 DEF Record, DropEvent, ReceiveEvent, MoveFails, EnterBatch, Start, vars, disk
  <1>2. CASE WriteEvent
    BY <1>2 DEF WriteEvent
  <1>3. CASE RollupTriggered \/ Tick
    <2>1. ~booting /\ booting' = booting /\ UNCHANGED <<deltas, included, eventFiles>>
      BY <1>3 DEF RollupTriggered, Tick, RollupDue
    <2>2. \/ pc' = "compact"
          \/ \E b \in Batches : /\ Unused(b) /\ batch' = b /\ todo' = eventFiles /\ pc' = "move"
                               /\ processing'[b] = {}
      BY <1>3 DEF RollupTriggered, Tick, BeginRollup
    <2>3. {} # NoFile
      OBVIOUS
    <2> QED BY <2>1, <2>2, <2>3 DEF Unused
  <1>4. CASE \E e \in Events : MoveEvent(e) \/ RemoveEvent(e)
    <2>1. PICK e \in Events : MoveEvent(e) \/ RemoveEvent(e)
      BY <1>4
    <2>2. processing[batch] \in SUBSET Events
      BY <2>1 DEF MoveEvent, RemoveEvent
    <2>3. processing'[batch] \in {processing[batch] \cup {e}, processing[batch] \ {e}}
      BY <2>1 DEF MoveEvent, RemoveEvent
    <2>4. processing'[batch] # NoFile
      BY <2>2, <2>3
    <2>5. /\ batch' = batch /\ pc' = pc /\ UNCHANGED <<booting, deltas, included>>
          /\ pc = "move" => todo' \subseteq eventFiles'
      BY <2>1 DEF MoveEvent, RemoveEvent
    <2> QED BY <2>4, <2>5
  <1>5. CASE ProcessBatch
    BY <1>5 DEF ProcessBatch, Processed
  <1>6. CASE WriteDelta
    BY <1>6 DEF WriteDelta, DeltaNames
  <1>7. CASE RemoveBatch
    BY <1>7 DEF RemoveBatch
  <1>8. CASE Compact \/ ClearIncluded
    BY <1>8 DEF Compact, ClearIncluded
  <1>9. CASE \E b \in Batches : RemoveDelta(b) \/ RecoverBatch(b)
    BY <1>9 DEF RemoveDelta, RecoverBatch, Open, disk
  <1>10. CASE ActorError \/ Crash
    BY <1>10 DEF ActorError, Crash
  <1>11. CASE Recovered
    <2>1. pc' \in {"idle", "clean"} /\ (pc' = "idle" => booting' = FALSE)
      BY <1>11 DEF Recovered
    <2> QED BY <2>1
  <1> QED
    BY <1>1, <1>2, <1>3, <1>4, <1>5, <1>6, <1>7, <1>8, <1>9, <1>10, <1>11 DEF Next, Work, Fault

LEMMA StepCovers ==
  ASSUME TypeOK, FaultTypes, BatchInHand, DeltasCoverBatches, [Next]_vars
  PROVE  DeltasCoverBatches'
  <1> USE FileAssumption DEF TypeOK, FaultTypes, BatchInHand, DeltasCoverBatches
  <1>1. CASE UNCHANGED <<processing, deltas, counts, included, crashes>>
    BY <1>1
  <1>2. CASE RollupTriggered \/ Tick
    <2>1. BeginRollup /\ UNCHANGED <<deltas, counts, included, crashes>>
      BY <1>2 DEF RollupTriggered, Tick, faults
    <2>2. CASE UNCHANGED processing
      BY <2>1, <2>2
    <2>3. CASE ~UNCHANGED processing
      <3>1. PICK b \in Batches : Unused(b) /\ processing' = [processing EXCEPT ![b] = {}]
        BY <2>1, <2>3 DEF BeginRollup
      <3>2. \A c \in Batches : processing'[c] = {} \/ processing'[c] = processing[c]
        BY <3>1
      <3> QED BY <2>1, <3>2
    <2> QED BY <2>2, <2>3
  <1>3. CASE \E e \in Events : MoveEvent(e) \/ RemoveEvent(e)
    <2>1. PICK e \in Events : MoveEvent(e) \/ RemoveEvent(e)
      BY <1>3
    <2>2. CASE MoveEvent(e)
      BY <2>2 DEF MoveEvent, faults
    <2>3. CASE RemoveEvent(e)
      BY <2>3 DEF RemoveEvent, faults
    <2> QED BY <2>1, <2>2, <2>3
  <1>4. CASE ProcessBatch
    BY <1>4 DEF ProcessBatch, Processed, faults
  <1>5. CASE WriteDelta
    BY <1>5 DEF WriteDelta, DeltaNames, TempNames, faults
  <1>6. CASE RemoveBatch
    BY <1>6 DEF RemoveBatch, faults
  <1>7. CASE Compact
    <2>1. CASE UNCHANGED <<counts, included>>
      BY <1>7, <2>1 DEF Compact, faults
    <2>2. CASE ~UNCHANGED <<counts, included>>
      <3>1. UNCHANGED <<processing, deltas, crashes>>
        BY <1>7 DEF Compact, faults
      <3>2. \A i \in included' : deltas[i] # NoFile => deltas[i] # Torn /\ \A e \in deltas[i] : counts'[e] > 0
        BY <1>7, <2>2, CompactCounts DEF InDelta
      <3>3. ASSUME NEW b \in Batches \cap included', processing[b] # NoFile
            PROVE  \A e \in processing[b] : counts'[e] > 0
        BY <1>7, <2>2, <3>3, CompactCounts DEF InDelta
      <3>4. \A n \in TempNames : n > crashes => n \notin included'
        BY <1>7, <2>2, CompactCounts
      <3> QED BY <3>1, <3>2, <3>3, <3>4
    <2> QED BY <2>1, <2>2
  <1>8. CASE \E b \in Batches : RemoveDelta(b)
    BY <1>8 DEF RemoveDelta, DeltaNames, TempNames, faults
  <1>9. CASE ClearIncluded
    BY <1>9 DEF ClearIncluded, faults
  <1>10. CASE Crash
    <2>1. CASE pc = "delta"
      <3>1. /\ crashes + 1 \in TempNames /\ crashes + 1 \notin Batches
            /\ crashes' = crashes + 1 /\ crashes + 1 \notin included
            /\ \A i \in DeltaNames \ {crashes + 1} : deltas'[i] = deltas[i]
            /\ UNCHANGED <<processing, counts, included>>
        BY <1>10, <2>1, BoundAssumption DEF Crash, Leftover, TempNames
      <3>2. \A n \in TempNames : n > crashes' => n > crashes /\ n # crashes + 1
        BY <3>1, BoundAssumption DEF TempNames
      <3>3. \A n \in TempNames : n > crashes' => deltas'[n] = NoFile /\ n \notin included'
        BY <3>1, <3>2 DEF DeltaNames
      <3>4. \A b \in Batches : b \in DeltaNames /\ deltas'[b] = deltas[b]
        BY <3>1 DEF DeltaNames
      <3>5. \A i \in included' : i \in DeltaNames /\ deltas'[i] = deltas[i]
        BY <3>1
      <3> QED BY <3>1, <3>3, <3>4, <3>5
    <2>2. CASE pc # "delta"
      <3>1. crashes' = crashes + 1 /\ UNCHANGED <<processing, deltas, counts, included>>
        BY <1>10, <2>2 DEF Crash, Leftover
      <3> QED BY <3>1, BoundAssumption DEF TempNames
    <2> QED BY <2>1, <2>2
  <1>11. CASE ActorError
    BY <1>11 DEF ActorError, disk
  <1> QED
    BY <1>1, <1>2, <1>3, <1>4, <1>5, <1>6, <1>7, <1>8, <1>9, <1>10, <1>11
    DEF Next, Work, Fault, Record, DropEvent, ReceiveEvent, WriteEvent, MoveFails, EnterBatch,
        Start, RecoverBatch, Recovered, vars, disk, faults
LEMMA StepSpoiled ==
  ASSUME TypeOK, FaultTypes, BatchInHand, DeltasCoverBatches, SpoiledIsKnown, [Next]_vars
  PROVE  SpoiledIsKnown'
  <1> USE FileAssumption DEF TypeOK, FaultTypes, BatchInHand, SpoiledIsKnown
  <1>1. CASE UNCHANGED <<processing, deltas, spoiled, pc, booting, batch>>
    BY <1>1
  <1>2. CASE RollupTriggered \/ Tick
    <2>1. UNCHANGED <<deltas, spoiled, booting>> /\ pc \in {"rollup", "idle"} /\ pc' # "clean"
      BY <1>2 DEF RollupTriggered, Tick, RollupDue, BeginRollup, faults
    <2>2. \A b \in Batches : processing'[b] = processing[b] \/ deltas[b] = NoFile
      BY <1>2 DEF RollupTriggered, Tick, BeginRollup, Unused
    <2>3. ~booting
      BY <2>1
    <2> QED BY <2>1, <2>2, <2>3
  <1>3. CASE \E e \in Events : MoveEvent(e) \/ RemoveEvent(e)
    BY <1>3 DEF MoveEvent, RemoveEvent, faults
  <1>4. CASE ProcessBatch
    BY <1>4 DEF ProcessBatch, Processed, faults
  <1>5. CASE WriteDelta
    BY <1>5 DEF WriteDelta, TempNames, DeltaNames, faults
  <1>6. CASE RemoveBatch
    BY <1>6 DEF RemoveBatch, faults
  <1>7. CASE Compact \/ ClearIncluded \/ Recovered
    BY <1>7 DEF Compact, ClearIncluded, Recovered, Open, disk, faults
  <1>8. CASE \E b \in Batches : RemoveDelta(b) \/ RecoverBatch(b)
    <2>1. PICK b \in Batches : RemoveDelta(b) \/ RecoverBatch(b)
      BY <1>8
    <2>2. CASE RemoveDelta(b)
      <3>1. UNCHANGED <<processing, spoiled, booting, pc, batch>> /\ pc = "clean"
        BY <2>2 DEF RemoveDelta, faults
      <3>2. \A i \in DeltaNames : deltas'[i] \in {NoFile, deltas[i]}
        BY <2>2 DEF RemoveDelta
      <3> QED BY <3>1, <3>2 DEF DeltaNames
    <2>3. CASE RecoverBatch(b)
      BY <2>3 DEF RecoverBatch, disk, faults
    <2> QED BY <2>1, <2>2, <2>3
  <1>9. CASE ActorError
    BY <1>9 DEF ActorError, DeltasCoverBatches, disk
  <1>10. CASE Crash
    <2>1. CASE pc = "delta"
      <3>1. /\ crashes + 1 \in TempNames
            /\ deltas'[crashes + 1] \in {NoFile, Torn, processing[batch]}
            /\ \A i \in DeltaNames \ {crashes + 1} : deltas'[i] = deltas[i]
            /\ spoiled' = spoiled \cup processing[batch]
            /\ booting' = TRUE /\ pc' = "down"
        BY <1>10, <2>1, BoundAssumption DEF Crash, Leftover, TempNames, DeltaNames
      <3> QED BY <3>1 DEF DeltaNames
    <2>2. CASE pc # "delta"
      BY <1>10, <2>2 DEF Crash, Leftover
    <2> QED BY <2>1, <2>2
  <1>11. CASE \/ DropEvent \/ ReceiveEvent \/ WriteEvent \/ EnterBatch \/ Start
    BY <1>11 DEF DropEvent, ReceiveEvent, WriteEvent, EnterBatch, Start, disk, faults
  <1> QED
    BY <1>1, <1>2, <1>3, <1>4, <1>5, <1>6, <1>7, <1>8, <1>9, <1>10, <1>11
    DEF Next, Work, Fault, Record, MoveFails, vars, disk, faults

-----------------------------------------------------------------------------
(* No event is lost                                                        *)

LEMMA StepKept ==
  ASSUME TypeOK, FaultTypes, BatchInHand, DeltasCoverBatches, Kept, [Next]_vars
  PROVE  Kept'
  <1> USE FileAssumption DEF TypeOK, FaultTypes, BatchInHand, Kept, InBatch, Processed, InDelta
  <1>1. CASE UNCHANGED <<eventFiles, torn, processing, deltas, counts, included, durable>>
    BY <1>1
  <1>2. CASE RollupTriggered \/ Tick
    BY <1>2 DEF RollupTriggered, Tick, BeginRollup, Unused
  <1>3. CASE WriteEvent
    BY <1>3 DEF WriteEvent
  <1>4. CASE \E e \in Events : MoveEvent(e) \/ RemoveEvent(e)
    <2>1. PICK e \in Events : MoveEvent(e) \/ RemoveEvent(e)
      BY <1>4
    <2>2. CASE MoveEvent(e)
      <3>1. /\ eventFiles' = eventFiles \ {e} /\ processing'[batch] = processing[batch] \cup {e}
            /\ \A b \in Batches \ {batch} : processing'[b] = processing[b]
            /\ UNCHANGED <<torn, deltas, counts, included, durable>>
        BY <2>2 DEF MoveEvent
      <3>2. batch \in Batches /\ deltas[batch] = NoFile /\ processing[batch] \in SUBSET Events
        BY <2>2 DEF MoveEvent
      <3>3. processing'[batch] # NoFile
        BY <3>1, <3>2
      <3> QED BY <3>1, <3>2, <3>3
    <2>3. CASE RemoveEvent(e)
      <3>1. /\ \A b \in Batches \ {batch} : processing'[b] = processing[b]
            /\ UNCHANGED <<eventFiles, torn, deltas, counts, included, durable>>
            /\ deltas[batch] # NoFile
        BY <2>3 DEF RemoveEvent
      <3> QED BY <3>1
    <2> QED BY <2>1, <2>2, <2>3
  <1>5. CASE ProcessBatch
    BY <1>5 DEF ProcessBatch
  <1>6. CASE WriteDelta
    <2>1. /\ batch \in Batches /\ batch \in DeltaNames /\ deltas[batch] = NoFile
          /\ processing[batch] \in SUBSET Events
          /\ deltas'[batch] = processing[batch]
          /\ \A i \in DeltaNames \ {batch} : deltas'[i] = deltas[i]
          /\ UNCHANGED <<eventFiles, torn, processing, counts, included, durable>>
      BY <1>6 DEF WriteDelta, DeltaNames
    <2>2. batch \in included => \A e \in processing[batch] : counts[e] > 0
      BY <2>1 DEF DeltasCoverBatches
    <2>3. deltas'[batch] # NoFile /\ deltas'[batch] # Torn
      BY <2>1
    <2>4. \A b \in Batches : b \in DeltaNames
      BY DEF DeltaNames
    <2> QED BY <2>1, <2>2, <2>3, <2>4
  <1>7. CASE RemoveBatch
    BY <1>7 DEF RemoveBatch
  <1>8. CASE Compact
    <2>1. UNCHANGED <<eventFiles, torn, processing, deltas, durable>>
      BY <1>8 DEF Compact
    <2>2. CASE UNCHANGED <<counts, included>>
      BY <2>1, <2>2
    <2>3. CASE ~UNCHANGED <<counts, included>>
      <3>1. \A b \in Batches : \A e : InBatch(e, b)' <=> InBatch(e, b)
        BY <2>1
      <3>2. \A e \in Events : counts'[e] > 0 <=> counts[e] > 0 \/ \E i \in DeltaNames : InDelta(e, i)
        BY <1>8, <2>3, CompactCounts
      <3>3. durable \subseteq Events
        OBVIOUS
      <3> HIDE DEF InBatch, InDelta
      <3> QED BY <2>1, <3>1, <3>2, <3>3
    <2> QED BY <2>2, <2>3
  <1>9. CASE ClearIncluded
    BY <1>9 DEF ClearIncluded
  <1>10. CASE \E b \in Batches : RemoveDelta(b)
    BY <1>10 DEF RemoveDelta
  <1>11. CASE Crash
    <2>1. CASE pc = "delta"
      <3>1. /\ crashes + 1 \in TempNames /\ crashes + 1 \in DeltaNames
            /\ crashes + 1 \notin Batches
            /\ deltas[crashes + 1] = NoFile
            /\ \A i \in DeltaNames \ {crashes + 1} : deltas'[i] = deltas[i]
            /\ UNCHANGED <<eventFiles, torn, processing, counts, included, durable>>
        <4>1. crashes + 1 \in TempNames /\ crashes + 1 > crashes
          BY <1>11, BoundAssumption DEF Crash, TempNames
        <4>2. crashes + 1 \in DeltaNames /\ crashes + 1 \notin Batches
          <5>1. Batches \cap TempNames = {}
            BY FileAssumption DEF TempNames
          <5> QED BY <4>1, <5>1 DEF DeltaNames
        <4>3. deltas[crashes + 1] = NoFile
          BY <4>1 DEF DeltasCoverBatches
        <4>4. /\ \A i \in DeltaNames \ {crashes + 1} : deltas'[i] = deltas[i]
              /\ UNCHANGED <<eventFiles, torn, processing, counts, included, durable>>
          BY <1>11, <2>1 DEF Crash, Leftover
        <4> QED BY <4>1, <4>2, <4>3, <4>4
      <3>2. \A b \in Batches : b \in DeltaNames /\ deltas'[b] = deltas[b]
        BY <3>1 DEF DeltaNames
      <3>3. \A i \in DeltaNames : \A e : InDelta(e, i) => InDelta(e, i)'
        BY <3>1
      <3>4. \A e : \A b \in Batches : InBatch(e, b)' <=> InBatch(e, b)
        BY <3>1, <3>2
      <3> QED BY <3>1, <3>3, <3>4
    <2>2. CASE pc = "write"
      BY <1>11, <2>2 DEF Crash, Leftover
    <2>3. CASE pc \notin {"write", "delta"}
      BY <1>11, <2>3 DEF Crash, Leftover
    <2> QED BY <2>1, <2>2, <2>3
  <1> QED
    BY <1>1, <1>2, <1>3, <1>4, <1>5, <1>6, <1>7, <1>8, <1>9, <1>10, <1>11
    DEF Next, Work, Fault, Record, DropEvent, ReceiveEvent, MoveFails, EnterBatch,
        ActorError, Start, RecoverBatch, Recovered, vars, disk, faults
-----------------------------------------------------------------------------
(* No event is counted twice                                               *)

(* What the queue's operations do to the place of an event.                *)
LEMMA QueueShrinks ==
  ASSUME TypeOK, NEW e \in Events, QueuedOnce(e),
         UNCHANGED queue \/ queue' = <<>> \/ (queue # <<>> /\ queue' = Tail(queue))
  PROVE  /\ Queued(e)' => Queued(e)
         /\ QueuedOnce(e)'
         /\ queue # <<>> /\ queue' = Tail(queue) /\ Head(queue) = e => Queued(e) /\ ~Queued(e)'
  <1> USE DEF TypeOK, Queued, QueuedOnce
  <1>1. CASE UNCHANGED queue /\ ~(queue # <<>> /\ queue' = Tail(queue))
    BY <1>1
  <1>2. CASE queue' = <<>> /\ ~(queue # <<>> /\ queue' = Tail(queue))
    BY <1>2
  <1>3. CASE queue # <<>> /\ queue' = Tail(queue)
    <2>1. /\ Len(queue') = Len(queue) - 1 /\ Head(queue) = queue[1]
          /\ \A i \in 1..Len(queue') : queue'[i] = queue[i + 1] /\ i + 1 \in 1..Len(queue)
          /\ 1 \in 1..Len(queue)
      BY <1>3
    <2>2. Queued(e)' => Queued(e)
      BY <2>1
    <2>3. QueuedOnce(e)'
      <3> SUFFICES ASSUME NEW i \in 1..Len(queue'), NEW j \in 1..Len(queue'),
                          queue'[i] = e, queue'[j] = e
                   PROVE  i = j
        OBVIOUS
      <3>1. /\ i + 1 \in 1..Len(queue) /\ queue[i + 1] = e
            /\ j + 1 \in 1..Len(queue) /\ queue[j + 1] = e
        BY <2>1
      <3>2. i + 1 = j + 1
        BY <3>1
      <3> QED BY <2>1, <3>2
    <2>4. Head(queue) = e => Queued(e) /\ ~Queued(e)'
      <3>1. ASSUME Head(queue) = e, NEW i \in 1..Len(queue'), queue'[i] = e
            PROVE  FALSE
        <4>1. i + 1 = 1
          BY <2>1, <3>1
        <4> QED BY <3>1, <4>1
      <3>2. Head(queue) = e => Queued(e)
        BY <2>1
      <3>3. Head(queue) = e => ~Queued(e)'
        BY <3>1 DEF Queued
      <3> QED BY <3>2, <3>3
    <2> QED BY <2>2, <2>3, <2>4
  <1> QED BY <1>1, <1>2, <1>3

LEMMA QueueGrows ==
  ASSUME TypeOK, NEW e \in Events, QueuedOnce(e), NEW f \in Events, queue' = Append(queue, f)
  PROVE  /\ Queued(e)' => Queued(e) \/ e = f
         /\ (e = f => ~Queued(e)) => QueuedOnce(e)'
  <1>1. /\ Len(queue') = Len(queue) + 1 /\ queue'[Len(queue) + 1] = f
        /\ \A i \in 1..Len(queue) : queue'[i] = queue[i]
        /\ 1..Len(queue') = 1..Len(queue) \cup {Len(queue) + 1}
    BY DEF TypeOK
  <1> QED BY <1>1 DEF Queued, QueuedOnce

(* An event that enters no place stays in one.                             *)
LEMMA NoPlaceEntered ==
  ASSUME NEW e \in Events, InOnePlace(e),
         fresh' \subseteq fresh, Queued(e)' => Queued(e), QueuedOnce(e)',
         e \in eventFiles' => e \in eventFiles,
         \A b \in Batches : InBatch(e, b)' => InBatch(e, b),
         \A i \in DeltaNames : InDelta(e, i)' => InDelta(e, i),
         counts'[e] = counts[e]
  PROVE  InOnePlace(e)'
  BY DEF InOnePlace
LEMMA StepOnePlace ==
  ASSUME TypeOK, FaultTypes, BatchInHand, DeltasCoverBatches, SpoiledIsKnown, OnePlace, [Next]_vars
  PROVE  OnePlace'
  <1>1. spoiled \subseteq spoiled'
    <2>1. CASE Crash
      BY <2>1 DEF Crash, Leftover
    <2>2. CASE ActorError
      BY <2>2 DEF ActorError
    <2>3. CASE UNCHANGED spoiled
      BY <2>3
    <2> QED
      BY <2>1, <2>2, <2>3
      DEF Next, Work, Fault, Record, DropEvent, ReceiveEvent, WriteEvent, RollupTriggered, Tick,
          MoveEvent, MoveFails, RemoveEvent, EnterBatch, ProcessBatch, WriteDelta, RemoveBatch,
          Compact, RemoveDelta, ClearIncluded, Start, RecoverBatch, Recovered, vars, faults
  <1> SUFFICES ASSUME NEW e \in Events, e \notin spoiled', e \notin spoiled, InOnePlace(e)
               PROVE  InOnePlace(e)'
    BY <1>1 DEF OnePlace
  <1>2. QueuedOnce(e)
    BY DEF InOnePlace
  <1>3. \A b \in Batches : b \in DeltaNames
    BY DEF DeltaNames
  <1>4. CASE UNCHANGED <<fresh, queue, eventFiles, processing, deltas, included, counts>>
    BY <1>4 DEF InOnePlace, Queued, QueuedOnce, InBatch, InDelta
  <1>5. ASSUME NEW f \in Events, Record(f)
        PROVE  InOnePlace(e)'
    <2>1. /\ f \in fresh /\ fresh' = fresh \ {f}
          /\ queue' = Append(queue, f) \/ UNCHANGED queue
          /\ UNCHANGED <<eventFiles, processing, deltas, included, counts>>
      BY <1>5 DEF Record, disk
    <2>2. CASE UNCHANGED queue
      BY <2>1, <2>2 DEF InOnePlace, Queued, QueuedOnce, InBatch, InDelta
    <2>3. CASE queue' = Append(queue, f)
      <3>1. e \in fresh => ~Queued(e)
        BY DEF InOnePlace
      <3>2. (Queued(e)' => Queued(e) \/ e = f) /\ QueuedOnce(e)'
        BY <1>2, <2>1, <2>3, <3>1, QueueGrows
      <3> QED BY <2>1, <3>1, <3>2 DEF InOnePlace, InBatch, InDelta
    <2> QED BY <2>1, <2>2, <2>3
  <1>6. CASE DropEvent
    <2>1. /\ queue # <<>> /\ queue' = Tail(queue)
          /\ UNCHANGED <<fresh, eventFiles, processing, deltas, included, counts>>
      BY <1>6 DEF DropEvent, disk
    <2> QED BY <1>2, <2>1, QueueShrinks, NoPlaceEntered DEF InBatch, InDelta
  <1>7. CASE WriteEvent
    <2>1. /\ queue # <<>> /\ queue' = Tail(queue) /\ eventFiles' = eventFiles \cup {Head(queue)}
          /\ UNCHANGED <<fresh, processing, deltas, included, counts>>
      BY <1>7 DEF WriteEvent, FaultTypes
    <2>2. /\ Queued(e)' => Queued(e)
          /\ QueuedOnce(e)'
          /\ Head(queue) = e => Queued(e) /\ ~Queued(e)'
      BY <1>2, <2>1, QueueShrinks
    <2> QED BY <2>1, <2>2 DEF InOnePlace, InBatch, InDelta
  <1>8. CASE RollupTriggered \/ Tick
    <2>1. UNCHANGED <<fresh, queue, eventFiles, deltas, included, counts>>
      BY <1>8 DEF RollupTriggered, Tick
    <2>2. \A b \in Batches : InBatch(e, b)' => InBatch(e, b)
      BY <1>8, <2>1 DEF RollupTriggered, Tick, BeginRollup, InBatch, FaultTypes
    <2> QED BY <1>2, <2>1, <2>2, QueueShrinks, NoPlaceEntered DEF InDelta
  <1>9. ASSUME NEW f \in Events, MoveEvent(f)
        PROVE  InOnePlace(e)'
    <2>1. /\ batch \in Batches /\ f \in eventFiles /\ eventFiles' = eventFiles \ {f}
          /\ \A b \in Batches : InBatch(e, b)' => InBatch(e, b) \/ (e = f /\ b = batch)
          /\ UNCHANGED <<fresh, queue, deltas, included, counts>>
      BY <1>9 DEF MoveEvent, BatchInHand, FaultTypes, InBatch
    <2>2. (Queued(e)' <=> Queued(e)) /\ QueuedOnce(e)'
      BY <1>2, <2>1 DEF Queued, QueuedOnce
    <2>3. \A i \in DeltaNames : InDelta(e, i)' <=> InDelta(e, i)
      BY <2>1 DEF InDelta
    <2> QED BY <2>1, <2>2, <2>3 DEF InOnePlace
  <1>10. ASSUME NEW f \in Events, RemoveEvent(f)
         PROVE  InOnePlace(e)'
    <2>1. /\ \A b \in Batches : InBatch(e, b)' => InBatch(e, b)
          /\ UNCHANGED <<fresh, queue, eventFiles, deltas, included, counts>>
      BY <1>10 DEF RemoveEvent, BatchInHand, FaultTypes, InBatch
    <2> QED BY <1>2, <2>1, QueueShrinks, NoPlaceEntered DEF InDelta
  <1>11. CASE ProcessBatch \/ RemoveBatch
    <2>1. UNCHANGED <<fresh, queue, eventFiles, deltas, included, counts>>
      BY <1>11 DEF ProcessBatch, RemoveBatch
    <2>2. \A b \in Batches : InBatch(e, b)' => InBatch(e, b)
      BY <1>11, <2>1 DEF ProcessBatch, RemoveBatch, InBatch, BatchInHand, FaultTypes
    <2> QED BY <1>2, <2>1, <2>2, QueueShrinks, NoPlaceEntered DEF InDelta
  <1>12. CASE WriteDelta
    <2>1. /\ batch \in Batches /\ processing[batch] # NoFile /\ deltas[batch] = NoFile
          /\ deltas'[batch] = processing[batch] /\ deltas'[batch] # NoFile
          /\ \A i \in DeltaNames \ {batch} : deltas'[i] = deltas[i]
          /\ UNCHANGED <<fresh, queue, eventFiles, processing, included, counts>>
      BY <1>3, <1>12 DEF WriteDelta, BatchInHand, FaultTypes
    <2>2. \A b \in Batches : InBatch(e, b)' => InBatch(e, b) /\ b # batch
      BY <1>3, <2>1 DEF InBatch
    <2>3. \A i \in DeltaNames : InDelta(e, i)' => InDelta(e, i) \/ (i = batch /\ InBatch(e, batch))
      BY <2>1 DEF InDelta, InBatch
    <2>4. (Queued(e)' <=> Queued(e)) /\ QueuedOnce(e)'
      BY <1>2, <2>1 DEF Queued, QueuedOnce
    <2> QED BY <2>1, <2>2, <2>3, <2>4 DEF InOnePlace
  <1>13. CASE Compact
    <2>1. UNCHANGED <<fresh, queue, eventFiles, processing, deltas>>
      BY <1>13 DEF Compact
    <2>2. CASE ~UNCHANGED <<counts, included>>
      <3>1. \A i \in DeltaNames : ~InDelta(e, i)'
        BY <1>13, <2>1, <2>2, CompactCounts DEF InDelta, Unmerged, DeltaFiles
      <3>2. counts'[e] = IF \E i \in DeltaNames : InDelta(e, i) THEN 1 ELSE counts[e]
        <4>1. counts'[e] = Saturate(counts[e] + Cardinality({i \in DeltaNames : InDelta(e, i)}))
          BY <1>13, <2>2, CompactCounts
        <4>2. CASE \E i \in DeltaNames : InDelta(e, i)
          <5>1. PICK i \in DeltaNames : InDelta(e, i)
            BY <4>2
          <5>2. {j \in DeltaNames : InDelta(e, j)} = {i} /\ counts[e] = 0
            BY <5>1 DEF InOnePlace
          <5> QED BY <4>1, <5>1, <5>2, FS_Singleton, BoundAssumption DEF Saturate
        <4>3. CASE ~\E i \in DeltaNames : InDelta(e, i)
          <5>1. {j \in DeltaNames : InDelta(e, j)} = {}
            BY <4>3
          <5>2. counts[e] \in 0..CounterMax
            BY DEF TypeOK
          <5> QED BY <4>1, <4>3, <5>1, <5>2, FS_EmptySet, BoundAssumption DEF Saturate
        <4> QED BY <4>2, <4>3
      <3>3. /\ (Queued(e)' <=> Queued(e)) /\ QueuedOnce(e)'
            /\ \A b \in Batches : InBatch(e, b)' <=> InBatch(e, b)
        BY <1>2, <2>1 DEF Queued, QueuedOnce, InBatch
      <3> QED BY <2>1, <3>1, <3>2, <3>3 DEF InOnePlace
    <2> QED BY <1>4, <2>1, <2>2
  <1>14. ASSUME NEW b \in Batches, RemoveDelta(b)
         PROVE  InOnePlace(e)'
    <2>1. /\ deltas[b] # NoFile /\ deltas'[b] = NoFile
          /\ \A i \in DeltaNames \ {b} : deltas'[i] = deltas[i]
          /\ UNCHANGED <<fresh, queue, eventFiles, processing, included, counts>>
      BY <1>3, <1>14 DEF RemoveDelta, FaultTypes
    <2>2. processing[b] # NoFile => e \notin processing[b]
      BY <1>14, <2>1 DEF RemoveDelta, SpoiledIsKnown, DeltasCoverBatches
    <2>3. \A c \in Batches : InBatch(e, c)' => InBatch(e, c)
      BY <1>3, <2>1, <2>2 DEF InBatch
    <2>4. \A i \in DeltaNames : InDelta(e, i)' => InDelta(e, i)
      BY <2>1 DEF InDelta
    <2> QED BY <1>2, <2>1, <2>3, <2>4, QueueShrinks, NoPlaceEntered
  <1>15. CASE ClearIncluded
    <2>1. /\ \A b \in Batches \cap included : deltas[b] = NoFile
          /\ UNCHANGED <<fresh, queue, eventFiles, processing, deltas, counts>>
      BY <1>15 DEF ClearIncluded, DeltasRemoved
    <2>2. \A i \in DeltaNames : InDelta(e, i)' => InDelta(e, i)
      BY <2>1 DEF InDelta, DeltaNames, SpoiledIsKnown
    <2> QED BY <1>2, <2>1, <2>2, QueueShrinks, NoPlaceEntered DEF InBatch
  <1>16. CASE ActorError
    <2>1. /\ UNCHANGED queue \/ (queue # <<>> /\ queue' = Tail(queue))
          /\ UNCHANGED <<fresh, eventFiles, processing, deltas, included, counts>>
      BY <1>16 DEF ActorError, FaultTypes, disk
    <2> QED BY <1>2, <2>1, QueueShrinks, NoPlaceEntered DEF InBatch, InDelta
  <1>17. CASE Crash
    <2>1. /\ queue' = <<>> /\ ~Queued(e)' /\ QueuedOnce(e)'
          /\ UNCHANGED <<fresh, processing, included, counts>>
      BY <1>17 DEF Crash, Queued, QueuedOnce
    <2>2. CASE pc = "write"
      <3>1. UNCHANGED deltas /\ eventFiles' \in {eventFiles, eventFiles \cup {Head(queue)}}
        BY <1>17, <2>2 DEF Crash, Leftover
      <3>2. Head(queue) = e => Queued(e)
        BY <2>2 DEF FaultTypes, TypeOK, Queued
      <3> QED BY <2>1, <3>1, <3>2 DEF InOnePlace, InBatch, InDelta
    <2>3. CASE pc = "delta"
      <3>1. /\ crashes + 1 \in TempNames /\ crashes + 1 \notin Batches
            /\ deltas'[crashes + 1] \in {NoFile, Torn, processing[batch]}
            /\ \A i \in DeltaNames \ {crashes + 1} : deltas'[i] = deltas[i]
            /\ spoiled' = spoiled \cup processing[batch]
            /\ UNCHANGED eventFiles
        BY <1>17, <2>3, BoundAssumption, FileAssumption
        DEF Crash, Leftover, TempNames, DeltaNames, FaultTypes
      <3>2. \A b \in Batches : InBatch(e, b)' => InBatch(e, b)
        BY <1>3, <2>1, <3>1 DEF InBatch
      <3>3. \A i \in DeltaNames : InDelta(e, i)' => InDelta(e, i)
        BY <2>1, <3>1 DEF InDelta
      <3> QED BY <2>1, <3>1, <3>2, <3>3, NoPlaceEntered
    <2>4. CASE pc \notin {"write", "delta"}
      <3>1. UNCHANGED <<eventFiles, deltas>>
        BY <1>17, <2>4 DEF Crash, Leftover
      <3> QED BY <2>1, <3>1, NoPlaceEntered DEF InBatch, InDelta
    <2> QED BY <2>2, <2>3, <2>4
  <1> QED
    BY <1>4, <1>5, <1>6, <1>7, <1>8, <1>9, <1>10, <1>11, <1>12, <1>13, <1>14, <1>15, <1>16, <1>17
    DEF Next, Work, Fault, ReceiveEvent, MoveFails, EnterBatch, Start, RecoverBatch, Recovered,
        vars, disk
-----------------------------------------------------------------------------
(* The invariant of every behaviour                                        *)

LEMMA InitStatsInv == Init => StatsInv
  <1> SUFFICES ASSUME Init
               PROVE  StatsInv
    OBVIOUS
  <1>1. TypeOK /\ FaultTypes
    BY BoundAssumption, FileAssumption DEF Init, TypeOK, FaultTypes
  <1>2. BatchInHand /\ DeltasCoverBatches /\ SpoiledIsKnown /\ Kept
    BY FileAssumption DEF Init, BatchInHand, DeltasCoverBatches, SpoiledIsKnown, Kept, DeltaNames
  <1>3. OnePlace
    BY BoundAssumption DEF Init, OnePlace, InOnePlace, Queued, QueuedOnce, InBatch, InDelta, DeltaNames
  <1> QED BY <1>1, <1>2, <1>3 DEF StatsInv

LEMMA StepStatsInv == StatsInv /\ [Next]_vars => StatsInv'
  BY StepTypes, StepBatch, StepCovers, StepSpoiled, StepKept, StepOnePlace DEF StatsInv

(* The inductive invariant: the actor's batch and delta, deltas that cover     *)
(* their batches, what faults have spoiled, and the place of every event.    *)
THEOREM StatsInvariant == Spec => []StatsInv
  BY InitStatsInv, StepStatsInv, PTL DEF Spec

(* Every variable of the recorder has its type, whatever fails.            *)
THEOREM RecorderTypeCorrect == Spec => []TypeOK
  <1>1. StatsInv => TypeOK
    BY DEF StatsInv
  <1> QED BY <1>1, StatsInvariant, PTL

-----------------------------------------------------------------------------
(* What is reported                                                        *)

(* The deltas that count an event towards its total.                       *)
LEMMA CountedSum ==
  ASSUME TypeOK, NEW e \in Events
  PROVE  /\ Counted(e) = Saturate(counts[e] + Cardinality({i \in DeltaNames : InDelta(e, i)}))
         /\ IsFiniteSet({i \in DeltaNames : InDelta(e, i)})
         /\ Cardinality({i \in DeltaNames : InDelta(e, i)}) \in Nat
         /\ counts[e] \in Nat /\ counts[e] <= CounterMax
  <1>1. {i \in Unmerged : deltas[i] # Torn /\ e \in deltas[i]} = {i \in DeltaNames : InDelta(e, i)}
    BY DEF Unmerged, DeltaFiles, InDelta
  <1>2. Counted(e) = Saturate(counts[e] + Cardinality({i \in DeltaNames : InDelta(e, i)}))
    BY <1>1 DEF Counted
  <1>3. {i \in DeltaNames : InDelta(e, i)} \in SUBSET DeltaNames
    OBVIOUS
  <1>4. counts[e] \in Nat /\ counts[e] <= CounterMax
    BY BoundAssumption DEF TypeOK
  <1> QED BY <1>2, <1>3, <1>4, NamesAreFinite

LEMMA WaitsSomewhere ==
  ASSUME NEW e
  PROVE  e \in Waiting <=> e \in eventFiles \/ \E b \in Batches : InBatch(e, b)
  BY DEF Waiting, Open, Processed, InBatch

(* An event whose file was completely written is never lost: no fault, in no  *)
(* order, keeps it from being reported later (stats.rs:274-438).           *)
THEOREM WrittenEventsStay == Spec => []WrittenEventsAreKept
  <1>1. ASSUME StatsInv
        PROVE  WrittenEventsAreKept
    <2> SUFFICES ASSUME NEW e \in durable \ torn, e \notin Waiting
                 PROVE  Counted(e) > 0
      BY DEF WrittenEventsAreKept
    <2>1. e \in Events /\ TypeOK
      BY <1>1 DEF StatsInv, FaultTypes
    <2>2. counts[e] > 0 \/ {i \in DeltaNames : InDelta(e, i)} # {}
      BY <1>1, WaitsSomewhere DEF StatsInv, Kept
    <2> QED BY <2>1, <2>2, CountedSum, SomethingCounted
  <1> QED BY <1>1, StatsInvariant, PTL

(* No crash between two file operations counts an event twice, except one    *)
(* that left a temporary delta or kept a batch (stats.rs:305-438).         *)
THEOREM NothingCountsTwice == Spec => []CountedAtMostOnce
  <1>1. ASSUME StatsInv
        PROVE  CountedAtMostOnce
    <2> SUFFICES ASSUME NEW e \in Events \ spoiled
                 PROVE  Counted(e) <= 1 /\ (Counted(e) = 1 => e \notin Waiting)
      BY DEF CountedAtMostOnce
    <2>1. TypeOK /\ InOnePlace(e)
      BY <1>1 DEF StatsInv, OnePlace
    <2>2. CASE \E i \in DeltaNames : InDelta(e, i)
      <3>1. PICK i \in DeltaNames : InDelta(e, i)
        BY <2>2
      <3>2. {j \in DeltaNames : InDelta(e, j)} = {i} /\ counts[e] = 0 /\ e \notin Waiting
        BY <2>1, <3>1, WaitsSomewhere DEF InOnePlace
      <3>3. Counted(e) = Saturate(0 + 1)
        BY <2>1, <3>2, CountedSum, FS_Singleton
      <3> QED BY <3>2, <3>3, BoundAssumption DEF Saturate
    <2>3. CASE ~\E i \in DeltaNames : InDelta(e, i)
      <3>1. {j \in DeltaNames : InDelta(e, j)} = {}
        BY <2>3
      <3>2. counts[e] <= 1 /\ (e \in Waiting => counts[e] = 0)
        BY <2>1, WaitsSomewhere DEF InOnePlace
      <3>3. Counted(e) = counts[e]
        BY <2>1, <3>1, CountedSum, FS_EmptySet, BoundAssumption DEF Saturate
      <3>4. counts[e] \in Nat
        BY <2>1, CountedSum
      <3> QED BY <3>2, <3>3, <3>4
    <2> QED BY <2>2, <2>3
  <1> QED BY <1>1, StatsInvariant, PTL
-----------------------------------------------------------------------------
(* No total ever shrinks                                                   *)

CountedIsSum ==
  \A e \in Events :
    /\ Counted(e) = Saturate(counts[e] + Cardinality({i \in DeltaNames : InDelta(e, i)}))
    /\ Cardinality({i \in DeltaNames : InDelta(e, i)}) \in Nat
    /\ counts[e] \in Nat /\ counts[e] <= CounterMax

LEMMA CountedAlways == TypeOK => CountedIsSum
  BY CountedSum DEF CountedIsSum

LEMMA CountedNext == TypeOK' => CountedIsSum'
  BY CountedAlways, PTL

(* A step that keeps the counters and the unmerged deltas of an event.      *)
LEMMA MoreDeltas ==
  ASSUME TypeOK, TypeOK', NEW e \in Events, counts'[e] = counts[e],
         \A i \in DeltaNames : InDelta(e, i) => InDelta(e, i)'
  PROVE  Counted(e)' >= Counted(e)
  <1> DEFINE D == {i \in DeltaNames : InDelta(e, i)}
  <1>1. D \subseteq D' /\ IsFiniteSet(D')
    BY NamesAreFinite
  <1>2. Cardinality(D) \in Nat /\ Cardinality(D') \in Nat /\ Cardinality(D) <= Cardinality(D')
    BY <1>1, FS_Subset, FS_CardinalityType
  <1>3. Counted(e) = Saturate(counts[e] + Cardinality(D)) /\ counts[e] \in Nat
    BY CountedSum
  <1>4. Counted(e)' = Saturate(counts'[e] + Cardinality(D'))
    BY CountedNext DEF CountedIsSum
  <1> HIDE DEF D
  <1> QED BY <1>2, <1>3, <1>4, BoundAssumption DEF Saturate

LEMMA StepReportsMore ==
  ASSUME StatsInv, StatsInv', [Next]_vars, NEW e \in Events
  PROVE  Counted(e)' >= Counted(e)
  <1> USE DEF StatsInv
  <1>1. \A b \in Batches : b \in DeltaNames
    BY DEF DeltaNames
  <1>2. CASE UNCHANGED <<deltas, counts, included>>
    <2>1. \A i \in DeltaNames : InDelta(e, i) => InDelta(e, i)'
      BY <1>2 DEF InDelta
    <2> QED BY <1>2, <2>1, MoreDeltas
  <1>3. CASE WriteDelta
    <2>1. /\ deltas[batch] = NoFile /\ \A i \in DeltaNames \ {batch} : deltas'[i] = deltas[i]
          /\ UNCHANGED <<counts, included>>
      BY <1>1, <1>3 DEF WriteDelta, BatchInHand, FaultTypes
    <2>2. \A i \in DeltaNames : InDelta(e, i) => InDelta(e, i)'
      BY <2>1 DEF InDelta
    <2> QED BY <2>1, <2>2, MoreDeltas
  <1>4. ASSUME NEW b \in Batches, RemoveDelta(b)
        PROVE  Counted(e)' >= Counted(e)
    <2>1. /\ b \in included /\ \A i \in DeltaNames \ {b} : deltas'[i] = deltas[i]
          /\ UNCHANGED <<counts, included>>
      BY <1>1, <1>4 DEF RemoveDelta, FaultTypes
    <2>2. \A i \in DeltaNames : InDelta(e, i) => InDelta(e, i)'
      BY <2>1 DEF InDelta
    <2> QED BY <2>1, <2>2, MoreDeltas
  <1>5. CASE ClearIncluded
    <2>1. included' = {} /\ UNCHANGED <<deltas, counts>>
      BY <1>5 DEF ClearIncluded
    <2>2. \A i \in DeltaNames : InDelta(e, i) => InDelta(e, i)'
      BY <2>1 DEF InDelta
    <2> QED BY <2>1, <2>2, MoreDeltas
  <1>6. CASE Crash
    <2>1. UNCHANGED <<counts, included>>
      BY <1>6 DEF Crash
    <2>2. \A i \in DeltaNames : InDelta(e, i) => InDelta(e, i)'
      <3>1. CASE pc = "delta"
        <4>1. crashes + 1 \in TempNames /\ deltas[crashes + 1] = NoFile
          BY <1>6, BoundAssumption DEF Crash, FaultTypes, TempNames, DeltasCoverBatches
        <4>2. \A i \in DeltaNames \ {crashes + 1} : deltas'[i] = deltas[i]
          BY <1>6, <3>1 DEF Crash, Leftover, FaultTypes
        <4> QED BY <2>1, <4>1, <4>2 DEF InDelta
      <3>2. CASE pc # "delta"
        BY <1>6, <2>1, <3>2 DEF Crash, Leftover, InDelta
      <3> QED BY <3>1, <3>2
    <2> QED BY <2>1, <2>2, MoreDeltas
  <1>7. CASE Compact /\ ~UNCHANGED <<counts, included>>
    <2>1. counts'[e] = Counted(e)
      BY <1>7, CompactCounts, CountedSum
    <2> DEFINE n == Cardinality({i \in DeltaNames : InDelta(e, i)})
    <2>2. Counted(e)' = Saturate(counts'[e] + n') /\ n' \in Nat /\ counts'[e] \in Nat
            /\ counts'[e] <= CounterMax
      BY CountedNext DEF CountedIsSum
    <2> HIDE DEF n
    <2> QED BY <2>1, <2>2, BoundAssumption DEF Saturate
  <1> QED
    BY <1>2, <1>3, <1>4, <1>5, <1>6, <1>7
    DEF Next, Work, Fault, Record, DropEvent, ReceiveEvent, WriteEvent, RollupTriggered, Tick,
        MoveEvent, MoveFails, RemoveEvent, EnterBatch, ProcessBatch, RemoveBatch, Compact,
        ActorError, Start, RecoverBatch, Recovered, vars, disk

(* Merging deltas, cleaning up after it, and every fault in between leave     *)
(* each reported total at least as it was (stats.rs:344-438).              *)
THEOREM TotalsOnlyGrow == Spec => TotalsNeverShrink
  <1>1. ASSUME StatsInv, StatsInv', [Next]_vars
        PROVE  [\A e \in Events : Counted(e)' >= Counted(e)]_vars
    BY <1>1, StepReportsMore
  <1> QED BY <1>1, StatsInvariant, PTL DEF Spec, TotalsNeverShrink
=============================================================================
