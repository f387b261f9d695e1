----------------------------- MODULE ShutdownDrain -----------------------------
(***************************************************************************)
(* How a UDS node stops (run_server after the first signal, ShutdownState): *)
(* new requests are refused, the listeners close once their connections are *)
(* done, a deadline or a second signal cuts the rest, and the process leaves *)
(* after the last transfer, the statistics queue and a summary.             *)
(* The main task, the connection tasks and the statistics actor run on      *)
(* several threads; a step is what no other thread can come between.        *)
(***************************************************************************)
EXTENDS Naturals, Sequences, FiniteSets

CONSTANTS Downloads,      \* download_artifact requests, on the public listener
          Uploads,        \* upload_release requests, on the admin listener
          LogStreams,     \* stream_logs requests, on the admin listener
          QueueCapacity,  \* stats.queue_capacity
          Flush           \* the StatsCommand::Flush message

ASSUME DrainAssumption ==
  /\ QueueCapacity \in Nat \ {0}
  /\ Flush \notin Downloads
  /\ Downloads \cap Uploads = {}
  /\ LogStreams \cap (Downloads \cup Uploads) = {}

Transfers == Downloads \cup Uploads
Requests == Transfers \cup LogStreams
Listeners == {"public", "admin"}
ListenerOf(r) == IF r \in Downloads THEN "public" ELSE "admin"

VARIABLES
  request,    \* per request, how far it got
  listener,   \* per listener: "binding", "serving", "graceful", "shutdown", "ended"
  main,       \* the program counter of run_server
  forced,     \* run_server's local of that name
  draining,   \* ShutdownState.draining
  active,     \* the keys of ShutdownState.active
  marked,     \* the transfers whose forced flag was set
  completed,  \* ShutdownState.completed
  aborted,    \* ShutdownState.aborted
  woken,      \* the changed.notified() future of run_server was notified
  statsQueue, \* the channel of the statistics actor
  written,    \* the downloads whose event the actor persisted
  unsaved,    \* history: the downloads whose event the actor dropped
  report,     \* totals_before, then the totals of "shutdown finished"
  delivered,  \* history: downloads sent to their last byte
  overloaded, \* history: downloads whose event found the queue full
  late        \* history: transfers that started after the others were marked

trackerVars == <<draining, active, marked, completed, aborted>>
eventVars == <<written, unsaved>>
historyVars == <<delivered, overloaded, late>>
drainVars == <<request, listener, main, forced, woken, statsQueue, eventVars, report,
               trackerVars, historyVars>>

Waiting == main \in {"check", "sleep"}

(* The connection of a request in one of these states is open.             *)
Open == {"passed", "active", "recorded", "removed",
         "looping", "unregistered", "registered", "waiting", "woken", "blocked"}

Move(r, state) == request' = [request EXCEPT ![r] = state]

-----------------------------------------------------------------------------
(* Requests.                                                               *)

(* reject_during_shutdown lets a request through or answers 503.           *)
Arrive(r) ==
  /\ request[r] = "new"
  /\ listener[ListenerOf(r)] \in {"serving", "graceful"}
  /\ Move(r, IF draining THEN "rejected"
             ELSE IF r \in LogStreams THEN "looping" ELSE "passed")
  /\ UNCHANGED <<listener, main, forced, woken, statsQueue, eventVars, report,
                 trackerVars, historyVars>>

(* The handler refuses the request before it tracks a transfer.            *)
RefuseRequest(r) ==
  /\ request[r] = "passed"
  /\ Move(r, "rejected")
  /\ UNCHANGED <<listener, main, forced, woken, statsQueue, eventVars, report,
                 trackerVars, historyVars>>

StartTransfer(r) ==
  /\ request[r] = "passed"
  /\ Move(r, "active")
  /\ active' = active \cup {r}
  /\ woken' = (woken \/ Waiting)
  /\ late' = IF forced THEN late \cup {r} ELSE late
  /\ UNCHANGED <<listener, main, forced, statsQueue, eventVars, report, draining,
                 marked, completed, aborted, delivered, overloaded>>

(* Seeded fault: one event more than the channel holds.                    *)
HasRoom_OneMore == Len(statsQueue) <= QueueCapacity

(* try_send on the bounded channel.                                        *)
HasRoom == Len(statsQueue) < QueueCapacity

(* The download stream ends: its event is recorded, and the guard lives on. *)
Deliver(r) ==
  /\ r \in Downloads
  /\ request[r] = "active"
  /\ Move(r, "recorded")
  /\ delivered' = delivered \cup {r}
  /\ IF HasRoom
       THEN /\ statsQueue' = Append(statsQueue, r)
            /\ UNCHANGED overloaded
       ELSE /\ overloaded' = overloaded \cup {r}
            /\ UNCHANGED statsQueue
  /\ UNCHANGED <<listener, main, forced, woken, eventVars, report, trackerVars, late>>

(* TransferGuard::drop, first half: finish takes the entry under the lock. *)
TakeEntry(r) ==
  /\ Move(r, "removed")
  /\ active' = active \ {r}
  /\ UNCHANGED <<listener, main, forced, woken, statsQueue, eventVars, report,
                 draining, marked, completed, aborted, historyVars>>

(* The stream has nothing left and drops its guard.                        *)
DropGuard(r) == request[r] = "recorded" /\ TakeEntry(r)

(* An upload is answered, the client of a transfer leaves, a read fails.   *)
EndTransfer(r) == r \in Transfers /\ request[r] = "active" /\ TakeEntry(r)

(* TransferGuard::drop, second half, outside the lock.                     *)
Count(r) ==
  /\ request[r] = "removed"
  /\ Move(r, "ended")
  /\ IF r \in marked THEN aborted' = aborted + 1 /\ UNCHANGED completed
                     ELSE completed' = completed + 1 /\ UNCHANGED aborted
  /\ woken' = (woken \/ Waiting)
  /\ UNCHANGED <<listener, main, forced, statsQueue, eventVars, report,
                 draining, active, marked, historyVars>>

(* After Handle::shutdown the connection task is dropped at its next poll.  *)
Cut(r) ==
  /\ forced
  /\ listener[ListenerOf(r)] \in {"shutdown", "ended"}
  /\ \/ /\ request[r] = "active"
        /\ TakeEntry(r)
     \/ /\ request[r] \in Open \ {"active", "recorded", "removed"}
        /\ Move(r, IF r \in LogStreams THEN "ended" ELSE "rejected")
        /\ UNCHANGED <<listener, main, forced, woken, statsQueue, eventVars, report,
                       trackerVars, historyVars>>

-----------------------------------------------------------------------------
(* Log streams: the select loop of stream_events over draining_notified.   *)

StreamStep(r, from, to) ==
  /\ r \in LogStreams
  /\ request[r] \in from
  /\ Move(r, to)
  /\ UNCHANGED <<listener, main, forced, woken, statsQueue, eventVars, report,
                 trackerVars, historyVars>>

(* Looks at draining, then creates the notification future, then looks     *)
(* again: a drain that begins in between is seen by one of the two looks.   *)
FirstLook(r) == StreamStep(r, {"looping"}, IF draining THEN "ended" ELSE "unregistered")
RegisterStream(r) == StreamStep(r, {"unregistered"}, "registered")

(* Seeded fault: the second look is missing.                               *)
SecondLook_Missing(r) == StreamStep(r, {"registered"}, "waiting")

SecondLook(r) == StreamStep(r, {"registered"}, IF draining THEN "ended" ELSE "waiting")
EndStream(r) == StreamStep(r, {"woken"}, "ended")

(* An event or the keep-alive line is yielded; the body is not polled again *)
(* before the client has taken it.                                         *)
YieldLine(r) == StreamStep(r, {"waiting"}, "blocked")
TakeLine(r) == StreamStep(r, {"blocked"}, "looping")
LeaveStream(r) == StreamStep(r, Open, "ended")

-----------------------------------------------------------------------------
(* Listeners and the statistics actor.                                     *)

ListenerStep(l, from, to) ==
  /\ listener[l] = from
  /\ listener' = [listener EXCEPT ![l] = to]
  /\ UNCHANGED <<request, main, forced, woken, statsQueue, eventVars, report,
                 trackerVars, historyVars>>

Bind(l) == ListenerStep(l, "binding", "serving")
FailToBind(l) == ListenerStep(l, "binding", "ended")

(* A graceful listener waits for its connections, a forced one does not.   *)
ListenerEnds(l) ==
  \/ /\ \A r \in Requests : ListenerOf(r) = l => request[r] \notin Open
     /\ ListenerStep(l, "graceful", "ended")
  \/ ListenerStep(l, "shutdown", "ended")

(* The actor takes the next message.  persist_event drops an event at the    *)
(* pending limit or when its file cannot be written, and a flush is answered *)
(* whatever became of the events before it.                                *)
Persist(r) == written' = written \cup {r} /\ UNCHANGED unsaved
DropEvent(r) == unsaved' = unsaved \cup {r} /\ UNCHANGED written

ActorStep ==
  /\ statsQueue # <<>>
  /\ statsQueue' = Tail(statsQueue)
  /\ IF Head(statsQueue) = Flush
       THEN main' = "report" /\ UNCHANGED eventVars
       ELSE (Persist(Head(statsQueue)) \/ DropEvent(Head(statsQueue))) /\ UNCHANGED main
  /\ UNCHANGED <<request, listener, forced, woken, report, trackerVars, historyVars>>

-----------------------------------------------------------------------------
(* run_server.                                                             *)

MainStep(from, to) == main = from /\ main' = to

(* A signal came or a listener ended: the totals are noted, draining is set. *)
BeginDraining ==
  /\ MainStep("serving", "notify")
  /\ draining' = TRUE
  /\ report' = [completed |-> completed, aborted |-> aborted]
  /\ UNCHANGED <<request, listener, forced, woken, statsQueue, eventVars, active,
                 marked, completed, aborted, historyVars>>

(* drain_started.notify_waiters() reaches the futures that exist.          *)
NotifyWaiters ==
  /\ MainStep("notify", "graceful")
  /\ request' = [r \in Requests |->
       IF request[r] \in {"registered", "waiting"} THEN "woken" ELSE request[r]]
  /\ UNCHANGED <<listener, forced, woken, statsQueue, eventVars, report,
                 trackerVars, historyVars>>

SetListeners(state) ==
  listener' = [l \in Listeners |-> IF listener[l] = "ended" THEN "ended" ELSE state]

GracefulShutdown ==
  /\ MainStep("graceful", "loop")
  /\ SetListeners("graceful")
  /\ UNCHANGED <<request, forced, woken, statsQueue, eventVars, report,
                 trackerVars, historyVars>>

(* The deadline, or a second signal that meets a waiting signal future.    *)
ForceShutdown ==
  /\ MainStep("loop", "cut")
  /\ ~forced
  /\ forced' = TRUE
  /\ marked' = marked \cup active
  /\ UNCHANGED <<request, listener, woken, statsQueue, eventVars, report, draining,
                 active, completed, aborted, historyVars>>

(* Seeded fault: the deadline asks for another graceful shutdown.          *)
CutTo_Graceful == "graceful"

CutTo == "shutdown"

ShutdownHandles ==
  /\ MainStep("cut", "loop")
  /\ SetListeners(CutTo)
  /\ UNCHANGED <<request, forced, woken, statsQueue, eventVars, report,
                 trackerVars, historyVars>>

ListenersJoined ==
  /\ \A l \in Listeners : listener[l] = "ended"
  /\ MainStep("loop", "register")
  /\ UNCHANGED <<request, listener, forced, woken, statsQueue, eventVars, report,
                 trackerVars, historyVars>>

(* wait_for_no_transfers: the future first, then the count, then the await. *)
RegisterChanged ==
  /\ MainStep("register", "check")
  /\ woken' = FALSE
  /\ UNCHANGED <<request, listener, forced, statsQueue, eventVars, report,
                 trackerVars, historyVars>>

(* Seeded fault: only the transfers that were not cut are waited for.      *)
NoTransfers_Unforced == active \ marked = {}

NoTransfers == active = {}

(* Seeded fault: the statistics queue is left as it is.                    *)
AfterWait_Unflushed == "report"

AfterWait == "flush"

CheckTransfers ==
  /\ MainStep("check", IF NoTransfers THEN AfterWait ELSE "sleep")
  /\ UNCHANGED <<request, listener, forced, woken, statsQueue, eventVars, report,
                 trackerVars, historyVars>>

WakeUp ==
  /\ woken
  /\ MainStep("sleep", "register")
  /\ UNCHANGED <<request, listener, forced, woken, statsQueue, eventVars, report,
                 trackerVars, historyVars>>

SendFlush ==
  /\ Len(statsQueue) < QueueCapacity
  /\ MainStep("flush", "flushing")
  /\ statsQueue' = Append(statsQueue, Flush)
  /\ UNCHANGED <<request, listener, forced, woken, eventVars, report,
                 trackerVars, historyVars>>

(* The summary counts what ended since the drain began.                    *)
Report ==
  /\ MainStep("report", "exited")
  /\ report' = [completed |-> completed - report.completed,
                aborted |-> aborted - report.aborted]
  /\ UNCHANGED <<request, listener, forced, woken, statsQueue, eventVars,
                 trackerVars, historyVars>>

DrainInit ==
  /\ request = [r \in Requests |-> "new"]
  /\ listener = [l \in Listeners |-> "binding"]
  /\ main = "serving"
  /\ forced = FALSE
  /\ draining = FALSE
  /\ active = {} /\ marked = {}
  /\ completed = 0 /\ aborted = 0
  /\ woken = FALSE
  /\ statsQueue = <<>> /\ written = {} /\ unsaved = {}
  /\ report = [completed |-> 0, aborted |-> 0]
  /\ delivered = {} /\ overloaded = {} /\ late = {}

(* What the server does on its own, and what clients and signals decide.   *)
RequestProgress(r) ==
  \/ StartTransfer(r) \/ RefuseRequest(r) \/ DropGuard(r) \/ Count(r) \/ Cut(r)
  \/ FirstLook(r) \/ RegisterStream(r) \/ SecondLook(r) \/ EndStream(r)

ClientStep(r) ==
  Arrive(r) \/ Deliver(r) \/ EndTransfer(r) \/ YieldLine(r) \/ TakeLine(r) \/ LeaveStream(r)

MainProgress ==
  \/ NotifyWaiters \/ GracefulShutdown \/ ShutdownHandles \/ ListenersJoined
  \/ RegisterChanged \/ CheckTransfers \/ WakeUp \/ SendFlush \/ Report

(* When run_server returns the process is gone, and its tasks with it.     *)
DrainNext ==
  /\ main # "exited"
  /\ \/ BeginDraining \/ ForceShutdown \/ MainProgress \/ ActorStep
     \/ \E r \in Requests : RequestProgress(r) \/ ClientStep(r)
     \/ \E l \in Listeners : Bind(l) \/ FailToBind(l) \/ ListenerEnds(l)

(* Every task the runtime can run is run; clients and signals owe nothing. *)
DrainFairness ==
  /\ WF_drainVars(MainProgress)
  /\ WF_drainVars(ActorStep)
  /\ \A r \in Requests : WF_drainVars(RequestProgress(r))
  /\ \A l \in Listeners : WF_drainVars(ListenerEnds(l))

DrainSpec == DrainInit /\ [][DrainNext]_drainVars /\ DrainFairness

-----------------------------------------------------------------------------
(* Every variable has its type.                                            *)
DrainTypeOK ==
  /\ request \in [Requests -> Open \cup {"new", "rejected", "ended"}]
  /\ listener \in [Listeners -> {"binding", "serving", "graceful", "shutdown", "ended"}]
  /\ main \in {"serving", "notify", "graceful", "loop", "cut", "register", "check",
               "sleep", "flush", "flushing", "report", "exited"}
  /\ forced \in BOOLEAN /\ draining \in BOOLEAN /\ woken \in BOOLEAN
  /\ active \subseteq Transfers /\ marked \subseteq Transfers
  /\ completed \in Nat /\ aborted \in Nat
  /\ statsQueue \in Seq(Downloads \cup {Flush}) /\ Len(statsQueue) <= QueueCapacity
  /\ written \subseteq Downloads /\ unsaved \subseteq Downloads
  /\ report \in [completed : Nat, aborted : Nat]
  /\ delivered \subseteq Downloads /\ overloaded \subseteq Downloads
  /\ late \subseteq Transfers

(* The event of a download that was served to its end is not forgotten in    *)
(* the shutdown (download_artifact records before its guard drops,          *)
(* run_server flushes after the last guard): when the process leaves, it is  *)
(* on disk, unless the queue was full, the actor could not take it (pending  *)
(* limit, write error) or the transfer began after the cut.                *)
FinishedDownloadsAreFlushed ==
  main = "exited" => delivered \ late \subseteq written \cup unsaved \cup overloaded

(* Nothing is left behind and nothing is counted twice. The totals are the  *)
(* transfers that ended, split by what the cut had marked, and at the exit  *)
(* every transfer that began before the cut is among them, but for one that *)
(* another thread has taken from the map and not yet counted (finish counts *)
(* after it releases the lock).                                            *)
Ended(S) == {r \in S : request[r] = "ended"}

EveryTransferIsReported ==
  /\ aborted = Cardinality(Ended(marked))
  /\ completed = Cardinality(Ended(Transfers \ marked))
  /\ main = "exited" =>
       /\ report.aborted = aborted
       /\ \A r \in Transfers \ late : request[r] \in {"new", "rejected", "removed", "ended", "passed"}

(* A drain without a deadline waits for nothing but clients: it ends unless *)
(* a transfer or a log stream whose client does not read is still there. A  *)
(* log stream notices every drain, whenever it asked (draining_notified).   *)
DrainWaitsOnlyForClients ==
  draining ~> \/ main = "exited"
              \/ \E r \in Transfers : request[r] = "active"
              \/ \E r \in LogStreams : request[r] = "blocked"

(* Once the rest is cut, the process leaves, whatever the clients do: the   *)
(* last guard always wakes wait_for_no_transfers.                          *)
ForcedDrainEnds == forced ~> main = "exited"
=============================================================================
