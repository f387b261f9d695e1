---------------------------- MODULE StatsRecorder ----------------------------
(***************************************************************************)
(* src/src/stats.rs: handlers put events on a bounded queue; one actor       *)
(* writes each to stats/events, moves them in batches to stats/processing,  *)
(* turns a batch into one delta under stats/rollups/deltas and merges       *)
(* deltas into stats/rollups/channels.json. The process may die between any *)
(* two file operations and finishes what it finds at the next start.        *)
(*                                                                         *)
(* An event is a model value; a delta is the set of events it counts. A     *)
(* file of the deltas directory is named by its batch, or is the temporary  *)
(* file that the n-th crash left behind while a delta was written.          *)
(***************************************************************************)
EXTENDS Naturals, Sequences, FiniteSets

CONSTANTS
  Events,         \* what the handlers record
  Batches,        \* batch names (UUIDs, reused once nothing on disk has them)
  QueueCapacity, MaxPending, Trigger,  \* the [stats] configuration
  CompactAt,      \* deltas that cause a compaction (96 in the code)
  CounterMax,     \* where the counters saturate (u64::MAX in the code)
  MaxCrashes, MaxErrors,               \* bounds on the faults explored
  NoFile, Torn    \* an absent file; a file cut short by a crash

ASSUME BoundAssumption ==
  /\ {QueueCapacity, MaxPending, Trigger, CompactAt, CounterMax} \subseteq Nat \ {0}
  /\ {MaxCrashes, MaxErrors} \subseteq Nat
  /\ Trigger <= MaxPending

(* File names are no numbers, and an absent or torn file holds no events.   *)
ASSUME FileAssumption ==
  /\ IsFiniteSet(Events) /\ IsFiniteSet(Batches)
  /\ Batches \cap (1..MaxCrashes) = {} /\ NoFile \notin Batches
  /\ NoFile # Torn /\ \A s \in SUBSET Events : s # NoFile /\ s # Torn

VARIABLES
  fresh,       \* events no handler has recorded yet
  queue,       \* the mpsc channel
  eventFiles,  \* stats/events
  torn,        \* event files cut short by a crash
  processing,  \* stats/processing: the events in each batch directory
  deltas,      \* stats/rollups/deltas
  counts,      \* channels.json: the merged counters, per event
  included,    \* channels.json: deltas merged but perhaps not yet removed
  pc, booting, batch, todo, size,  \* the actor
  pending,     \* StatsActor.pending_events
  crashes, errors,
  durable,     \* history: events whose file was completely written
  spoiled      \* history: events of a batch with a leftover temporary delta,
               \* or whose directory could not be removed

disk == <<eventFiles, torn, processing, deltas, counts, included>>
faults == <<crashes, errors, spoiled>>
vars == <<fresh, queue, disk, pc, booting, batch, todo, size, pending, durable, faults>>

TempNames == 1..MaxCrashes
DeltaNames == Batches \cup TempNames
DeltaFiles == {i \in DeltaNames : deltas[i] # NoFile}

Open == {b \in Batches : processing[b] # NoFile}

Unused(b) == deltas[b] = NoFile /\ processing[b] = NoFile /\ b \notin included

Saturate(n) == IF n > CounterMax THEN CounterMax ELSE n

(* merge_stats of a set of deltas into channels.json.                      *)
Merged_Overwrites(ids) ==
  [e \in Events |-> Saturate(Cardinality({i \in ids : e \in deltas[i]}))]

Merged(ids) ==
  [e \in Events |-> Saturate(counts[e] + Cardinality({i \in ids : e \in deltas[i]}))]

(* Deltas current_totals adds to channels.json, and compact merges into it. *)
Unmerged == DeltaFiles \ included

(* What the files that can be read count of an event.                      *)
Counted(e) ==
  Saturate(counts[e] + Cardinality({i \in Unmerged : deltas[i] # Torn /\ e \in deltas[i]}))

(* current_totals reads every file or fails: as long as a torn delta is     *)
(* there, a statistics query gets an error instead of what is counted.      *)
Answerable == \A i \in Unmerged : deltas[i] # Torn

Reported(e) == Answerable /\ Counted(e) > 0

-----------------------------------------------------------------------------
(* Request handlers                                                        *)

(* record: try_send, the event is dropped when the queue is full.          *)
Record(e) ==
  /\ ~booting
  /\ e \in fresh
  /\ fresh' = fresh \ {e}
  /\ queue' = IF Len(queue) < QueueCapacity THEN Append(queue, e) ELSE queue
  /\ UNCHANGED <<disk, pc, booting, batch, todo, size, pending, durable, faults>>

-----------------------------------------------------------------------------
(* The actor: receiving                                                    *)

BeginRollup ==
  IF eventFiles = {}
    THEN /\ pc' = "compact"
         /\ UNCHANGED <<batch, processing, todo>>
    ELSE \E b \in Batches :
           /\ Unused(b)
           /\ processing' = [processing EXCEPT ![b] = {}]
           /\ batch' = b
           /\ todo' = eventFiles
           /\ pc' = "move"

(* persist_event with the pending limit reached.                           *)
DropEvent ==
  /\ pc = "idle" /\ queue # <<>>
  /\ pending >= MaxPending
  /\ queue' = Tail(queue)
  /\ UNCHANGED <<fresh, disk, pc, booting, batch, todo, size, pending, durable, faults>>

ReceiveEvent ==
  /\ pc = "idle" /\ queue # <<>>
  /\ pending < MaxPending
  /\ pc' = "write"
  /\ UNCHANGED <<fresh, queue, disk, booting, batch, todo, size, pending, durable, faults>>

WriteEvent ==
  /\ pc = "write"
  /\ eventFiles' = eventFiles \cup {Head(queue)}
  /\ durable' = durable \cup {Head(queue)}
  /\ queue' = Tail(queue)
  /\ pending' = pending + 1
  /\ pc' = IF pending + 1 >= Trigger THEN "rollup" ELSE "idle"
  /\ UNCHANGED <<fresh, torn, processing, deltas, counts, included>>
  /\ UNCHANGED <<booting, batch, todo, size, faults>>

(* rollup_events, after the trigger.                                       *)
RollupTriggered ==
  /\ pc = "rollup"
  /\ BeginRollup
  /\ UNCHANGED <<fresh, queue, eventFiles, torn, deltas, counts, included>>
  /\ UNCHANGED <<booting, size, pending, durable, faults>>

(* Seeded fault: the interval and the statistics query roll up only once    *)
(* the trigger is reached.                                                 *)
RollupDue_Trigger == pc = "idle" /\ pending >= Trigger

(* rollup_events from the interval or a channel_stats query.               *)
RollupDue == pc = "idle"

Tick ==
  /\ RollupDue
  /\ BeginRollup
  /\ UNCHANGED <<fresh, queue, eventFiles, torn, deltas, counts, included>>
  /\ UNCHANGED <<booting, size, pending, durable, faults>>

-----------------------------------------------------------------------------
(* The actor: one batch                                                    *)

MoveEvent(e) ==
  /\ pc = "move" /\ e \in todo
  /\ eventFiles' = eventFiles \ {e}
  /\ processing' = [processing EXCEPT ![batch] = @ \cup {e}]
  /\ todo' = todo \ {e}
  /\ UNCHANGED <<fresh, queue, torn, deltas, counts, included>>
  /\ UNCHANGED <<pc, booting, batch, size, pending, durable, faults>>

(* A failed rename is only logged: the event waits for the next batch.     *)
MoveFails(e) ==
  /\ pc = "move" /\ e \in todo
  /\ errors < MaxErrors
  /\ todo' = todo \ {e}
  /\ errors' = errors + 1
  /\ UNCHANGED <<fresh, queue, disk, pc, booting, batch, size, pending, durable, crashes, spoiled>>

EnterBatch ==
  /\ pc = "move" /\ todo = {}
  /\ pc' = "batch"
  /\ UNCHANGED <<fresh, queue, disk, booting, batch, todo, size, pending, durable, faults>>

(* Seeded fault: a batch directory found at startup counts as processed.   *)
Processed_Assumed(b) == booting \/ deltas[b] # NoFile

Processed(b) == deltas[b] # NoFile

(* process_batch: an existing delta means only the removal is left; else    *)
(* the events are read and malformed ones quarantined under stats/rejected. *)
ProcessBatch ==
  /\ pc = "batch"
  /\ size' = Cardinality(processing[batch])
  /\ IF Processed(batch)
       THEN pc' = "remove" /\ UNCHANGED processing
       ELSE /\ processing' = [processing EXCEPT ![batch] = @ \ torn]
            /\ pc' = "delta"
  /\ UNCHANGED <<fresh, queue, eventFiles, torn, deltas, counts, included>>
  /\ UNCHANGED <<booting, batch, todo, pending, durable, faults>>

(* atomic_write_json of the delta.                                         *)
WriteDelta ==
  /\ pc = "delta"
  /\ deltas' = [deltas EXCEPT ![batch] = processing[batch]]
  /\ pc' = "remove"
  /\ UNCHANGED <<fresh, queue, eventFiles, torn, processing, counts, included>>
  /\ UNCHANGED <<booting, batch, todo, size, pending, durable, faults>>

LeaveBatch == batch' = NoFile /\ todo' = {} /\ size' = 0

(* remove_dir_all, file by file.                                           *)
RemoveEvent(e) ==
  /\ pc = "remove" /\ e \in processing[batch]
  /\ processing' = [processing EXCEPT ![batch] = @ \ {e}]
  /\ UNCHANGED <<fresh, queue, eventFiles, torn, deltas, counts, included>>
  /\ UNCHANGED <<pc, booting, batch, todo, size, pending, durable, faults>>

(* Seeded fault: a subtraction that does not saturate.                     *)
Without_Unchecked(n) == pending - n

Without(n) == IF n > pending THEN 0 ELSE pending - n

RemoveBatch ==
  /\ pc = "remove" /\ processing[batch] = {}
  /\ processing' = [processing EXCEPT ![batch] = NoFile]
  /\ pending' = Without(size)
  /\ pc' = IF booting THEN "recover" ELSE "compact"
  /\ LeaveBatch
  /\ UNCHANGED <<fresh, queue, eventFiles, torn, deltas, counts, included>>
  /\ UNCHANGED <<booting, durable, faults>>

-----------------------------------------------------------------------------
(* The actor: compaction                                                   *)

(* compact_if_needed and compact up to the replacement of channels.json.   *)
Compact ==
  /\ pc = "compact"
  /\ IF Cardinality(DeltaFiles) < CompactAt \/ Unmerged = {}
            \/ ~Answerable
       THEN pc' = "idle" /\ UNCHANGED <<counts, included>>
       ELSE /\ counts' = Merged(Unmerged)
            /\ included' = included \cup Unmerged
            /\ pc' = "clean"
  /\ UNCHANGED <<fresh, queue, eventFiles, torn, processing, deltas>>
  /\ UNCHANGED <<booting, batch, todo, size, pending, durable, faults>>

(* finish_interrupted_compaction removes <id>.json of every included delta: *)
(* a temporary file is not called that and stays.                          *)
RemoveDelta(b) ==
  /\ pc = "clean"
  /\ b \in included
  /\ deltas[b] # NoFile
  /\ deltas' = [deltas EXCEPT ![b] = NoFile]
  /\ UNCHANGED <<fresh, queue, eventFiles, torn, processing, counts, included>>
  /\ UNCHANGED <<pc, booting, batch, todo, size, pending, durable, faults>>

(* Seeded fault: included_deltas is cleared before the files are removed.  *)
DeltasRemoved_Early == TRUE

DeltasRemoved == \A b \in Batches \cap included : deltas[b] = NoFile

ClearIncluded ==
  /\ pc = "clean"
  /\ DeltasRemoved
  /\ included' = {}
  /\ pc' = "idle"
  /\ booting' = FALSE
  /\ UNCHANGED <<fresh, queue, eventFiles, torn, processing, deltas, counts>>
  /\ UNCHANGED <<batch, todo, size, pending, durable, faults>>

-----------------------------------------------------------------------------
(* Faults and restarts                                                     *)

(* A file operation fails and the rollup is given up until the next one;    *)
(* writing an event drops it; while booting, the server does not start.    *)
ActorError ==
  /\ pc \in {"write", "rollup", "batch", "delta", "remove", "compact", "clean", "recover"}
  /\ errors < MaxErrors
  /\ errors' = errors + 1
  /\ queue' = IF pc = "write" THEN Tail(queue) ELSE queue
  /\ pc' = IF booting THEN "down" ELSE "idle"
  /\ spoiled' = IF pc = "remove" THEN spoiled \cup deltas[batch] ELSE spoiled
  /\ LeaveBatch
  /\ UNCHANGED <<fresh, disk, booting, pending, durable, crashes>>

(* An event or delta being written leaves its temporary file in the same    *)
(* directory, complete or cut short; events/ accepts any file name.        *)
Leftover ==
  CASE pc = "write" ->
         /\ \/ UNCHANGED <<eventFiles, torn, durable>>
            \/ /\ eventFiles' = eventFiles \cup {Head(queue)}
               /\ \/ durable' = durable \cup {Head(queue)} /\ UNCHANGED torn
                  \/ torn' = torn \cup {Head(queue)} /\ UNCHANGED durable
         /\ UNCHANGED <<deltas, spoiled>>
    [] pc = "delta" ->
         /\ \E content \in {NoFile, Torn, processing[batch]} :
              deltas' = [deltas EXCEPT ![crashes + 1] = content]
         /\ spoiled' = spoiled \cup processing[batch]
         /\ UNCHANGED <<eventFiles, torn, durable>>
    [] OTHER -> UNCHANGED <<eventFiles, torn, durable, deltas, spoiled>>

Crash ==
  /\ pc # "down"
  /\ crashes < MaxCrashes
  /\ crashes' = crashes + 1
  /\ Leftover
  /\ pc' = "down"
  /\ queue' = <<>>
  /\ pending' = 0
  /\ booting' = TRUE
  /\ LeaveBatch
  /\ UNCHANGED <<fresh, processing, counts, included, errors>>

(* StatsActor::new: pending_events counts stats/events.                    *)
Start ==
  /\ pc = "down"
  /\ pc' = "recover"
  /\ pending' = Cardinality(eventFiles)
  /\ UNCHANGED <<fresh, queue, disk, booting, batch, todo, size, durable, faults>>

(* recover_processing, one batch directory after the other ...             *)
RecoverBatch(b) ==
  /\ pc = "recover"
  /\ b \in Open
  /\ batch' = b
  /\ pc' = "batch"
  /\ UNCHANGED <<fresh, queue, disk, booting, todo, size, pending, durable, faults>>

(* ... then finish_interrupted_compaction, if channels.json asks for it.   *)
Recovered ==
  /\ pc = "recover"
  /\ Open = {}
  /\ pc' = IF included = {} THEN "idle" ELSE "clean"
  /\ booting' = (included # {})
  /\ UNCHANGED <<fresh, queue, disk, batch, todo, size, pending, durable, faults>>

-----------------------------------------------------------------------------
Init ==
  /\ fresh = Events
  /\ queue = <<>>
  /\ eventFiles = {}
  /\ torn = {}
  /\ processing = [b \in Batches |-> NoFile]
  /\ deltas = [i \in DeltaNames |-> NoFile]
  /\ counts = [e \in Events |-> 0]
  /\ included = {}
  /\ pc = "down" /\ booting = TRUE
  /\ batch = NoFile
  /\ todo = {} /\ size = 0
  /\ pending = 0
  /\ crashes = 0 /\ errors = 0
  /\ durable = {} /\ spoiled = {}

Work ==
  \/ DropEvent \/ ReceiveEvent \/ WriteEvent \/ RollupTriggered
  \/ \E e \in Events : MoveEvent(e) \/ RemoveEvent(e)
  \/ EnterBatch \/ ProcessBatch \/ WriteDelta \/ RemoveBatch
  \/ Compact \/ ClearIncluded
  \/ \E b \in Batches : RemoveDelta(b) \/ RecoverBatch(b)
  \/ Start \/ Recovered

Fault == ActorError \/ Crash \/ \E e \in Events : MoveFails(e)

Next == Work \/ Tick \/ Fault \/ \E e \in Events : Record(e)

Spec == Init /\ [][Next]_vars

(* The actor runs, the interval fires, and systemd restarts the service.   *)
FairSpec == Spec /\ WF_vars(Work) /\ SF_vars(Tick)

-----------------------------------------------------------------------------
(* Every variable has its type.                                            *)
TypeOK ==
  /\ fresh \subseteq Events
  /\ queue \in Seq(Events) /\ Len(queue) <= QueueCapacity
  /\ eventFiles \subseteq Events /\ torn \subseteq Events
  /\ \A b \in Batches : processing[b] = NoFile \/ processing[b] \subseteq Events
  /\ \A i \in DeltaNames : deltas[i] \in {NoFile, Torn} \/ deltas[i] \subseteq Events
  /\ counts \in [Events -> 0..CounterMax]
  /\ included \subseteq DeltaNames
  /\ pc \in {"down", "recover", "idle", "write", "rollup", "move", "batch", "delta",
             "remove", "compact", "clean"}
  /\ booting \in BOOLEAN
  /\ batch \in Batches \cup {NoFile} /\ todo \subseteq Events
  /\ size \in Nat /\ pending \in Nat

Waiting == eventFiles \cup UNION {processing[b] : b \in {o \in Open : ~Processed(o)}}

(* An event whose file was completely written is never lost: until it is    *)
(* counted it is still waiting to be (README.md:515, stats.rs:274-438).    *)
WrittenEventsAreKept ==
  \A e \in durable \ torn : e \in Waiting \/ Counted(e) > 0

(* A crash between any two file operations counts no event twice, unless it *)
(* left a temporary delta behind or a batch could not be removed.          *)
CountedAtMostOnce ==
  \A e \in Events \ spoiled : Counted(e) <= 1 /\ (Counted(e) = 1 => e \notin Waiting)

(* What an administrator was once told is never taken back: merging deltas, *)
(* interrupted anywhere, leaves every total at least as it was, for the      *)
(* queries that are answered.                                              *)
TotalsNeverShrink == [][\A e \in Events : Counted(e)' >= Counted(e)]_vars

(* An error left the event in a batch directory that only a start looks at.  *)
Stranded(e) ==
  ~booting /\ \E b \in Open \ {batch} : e \in processing[b] /\ ~Processed(b)

(* Every event on disk is eventually in the answers, one whose move failed   *)
(* too, unless an error strands its batch until the next start or a crash    *)
(* left a torn delta, after which no query is answered.                    *)
EventsAreEventuallyReported ==
  \A e \in Events : e \in durable \ torn ~> Reported(e) \/ Stranded(e) \/ ~Answerable

(* Batches are compacted in a crash-recoverable way (README.md:515): no     *)
(* event is counted twice, whatever file operation a crash interrupts.     *)
CrashesCountNothingTwice == errors = 0 => \A e \in Events : Counted(e) <= 1
=============================================================================
