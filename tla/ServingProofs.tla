---------------------------- MODULE ServingProofs ----------------------------
(***************************************************************************)
(* Two conversations of a serving node, and the instance in which TLC      *)
(* checks them together with the log stream. For any requests and any size *)
(* of the statistics queue, a node that stops leaves no transfer behind,   *)
(* counts each once, and writes the statistics of every download that      *)
(* finished. For any limits, any requests and any word size, what a node   *)
(* has staged keeps to the limits of the operator, and what its own client *)
(* prepares it takes.                                                      *)
(***************************************************************************)
EXTENDS MCServing, LogStreamProofs
-----------------------------------------------------------------------------
(* How a node stops (ShutdownDrain).                                       *)

(* run_server once its listeners are joined, and once no transfer is left. *)
Joined == {"register", "check", "sleep", "flush", "flushing", "report", "exited"}
Emptied == {"flush", "flushing", "report", "exited"}

(* The select loop of stream_events.                                       *)
Looping == {"looping", "unregistered", "registered", "waiting", "woken", "blocked"}

(* Only a transfer is ever tracked, and exactly while its guard lives.     *)
TrackedWhileActive ==
  /\ \A r \in LogStreams : request[r] \notin {"passed", "active", "recorded", "removed"}
  /\ \A r \in Transfers : /\ request[r] \notin Looping
                          /\ request[r] \in {"active", "recorded"} <=> r \in active

(* What a deadline changes, and what holds as long as there was none.      *)
CutIsForced ==
  /\ main \in {"serving", "notify", "graceful"} => ~forced
  /\ main = "cut" => forced
  /\ ~forced => marked = {} /\ \A l \in Listeners : listener[l] # "shutdown"

(* Without a cut a closed listener has no connection, so nothing can start *)
(* once both are joined.                                                   *)
ListenersAreDone ==
  /\ main \in Joined => \A l \in Listeners : listener[l] = "ended"
  /\ ~forced => \A r \in Requests :
       request[r] \in Open => listener[ListenerOf(r)] \notin {"binding", "ended"}

(* After the last check only transfers that began after the cut are tracked.*)
OnlyLateLeft ==
  main \in Emptied => \A r \in Transfers \ late : request[r] \notin {"active", "recorded"}

(* A delivered download's event is on its way; behind the flush, and after it,*)
(* only events of late transfers are.                                      *)
EventsAreQueued ==
  /\ \A r \in delivered : \/ r \in written \cup unsaved \cup overloaded
                          \/ \E i \in 1..Len(statsQueue) : statsQueue[i] = r
  /\ main = "flushing" => \E k \in 1..Len(statsQueue) :
       /\ statsQueue[k] = Flush
       /\ \A i \in 1..Len(statsQueue) : /\ i # k => statsQueue[i] # Flush
                                        /\ i > k => statsQueue[i] \in late
  /\ main # "flushing" => \A i \in 1..Len(statsQueue) : statsQueue[i] # Flush
  /\ main \in {"report", "exited"} => \A i \in 1..Len(statsQueue) : statsQueue[i] \in late

(* The totals, and what run_server noted of them.                          *)
TotalsAreExact ==
  /\ IsFiniteSet(Ended(Transfers))
  /\ aborted = Cardinality(Ended(marked))
  /\ completed = Cardinality(Ended(Transfers \ marked))
  /\ main # "exited" => report.completed <= completed /\ report.aborted = 0
  /\ main = "exited" => report.aborted = aborted

DrainInv ==
  /\ DrainTypeOK /\ TrackedWhileActive /\ CutIsForced /\ ListenersAreDone
  /\ OnlyLateLeft /\ EventsAreQueued /\ TotalsAreExact
-----------------------------------------------------------------------------
(* The steps of a request, by what they touch                              *)

States == Open \cup {"new", "rejected", "ended"}
Tracked == {"active", "recorded"}

(* The step moves r on and touches no transfer's accounts.                 *)
Quiet(r, to) ==
  /\ Move(r, to) /\ UNCHANGED <<active, completed, aborted, statsQueue, historyVars>>
  /\ request[r] \notin Tracked \cup {"removed", "ended"} \/ r \in LogStreams
  /\ to \in States \ {"active", "recorded", "removed"}
  /\ r \in LogStreams => to # "passed"
  /\ r \in Transfers => to \in {"passed", "rejected"}
  /\ to \in Open => \/ request[r] \in Open
                    \/ listener[ListenerOf(r)] \in {"serving", "graceful"}

LEMMA RequestsAreSplit ==
  /\ Requests = Transfers \cup LogStreams /\ Transfers \cap LogStreams = {}
  /\ Flush \notin Downloads /\ Downloads \subseteq Transfers
  /\ \A r \in Requests : ListenerOf(r) \in Listeners
  BY DrainAssumption DEF Requests, Transfers, ListenerOf, Listeners

LEMMA RequestSteps ==
  ASSUME DrainTypeOK, TrackedWhileActive, NEW r \in Requests, RequestProgress(r) \/ ClientStep(r)
  PROVE  /\ UNCHANGED <<listener, main, forced, eventVars, report, draining, marked>>
         /\ woken' \in BOOLEAN
         /\ \/ \E to \in States : Quiet(r, to)
            \/ StartTransfer(r) /\ r \in Transfers
            \/ Deliver(r)
            \/ TakeEntry(r) /\ r \in Transfers /\ request[r] \in Tracked
            \/ Count(r) /\ r \in Transfers
  <1> USE RequestsAreSplit
  <1>1. CASE StartTransfer(r) \/ Deliver(r) \/ DropGuard(r) \/ EndTransfer(r) \/ Count(r)
    <2>1. r \in Transfers
      BY <1>1 DEF TrackedWhileActive, StartTransfer, Deliver, DropGuard, EndTransfer, Count
    <2>2. request[r] \in Tracked \/ StartTransfer(r) \/ Deliver(r) \/ Count(r)
      BY <1>1 DEF DropGuard, EndTransfer, Tracked
    <2> QED BY <1>1, <2>1, <2>2 DEF StartTransfer, Deliver, DropGuard, EndTransfer, TakeEntry, Count,
               trackerVars, Waiting, DrainTypeOK
  <1>2. CASE Cut(r)
    <2>1. CASE request[r] = "active" /\ TakeEntry(r)
      <3>1. r \in Transfers
        BY <2>1 DEF TrackedWhileActive
      <3> QED BY <2>1, <3>1 DEF TakeEntry, Tracked, DrainTypeOK
    <2>2. CASE ~(request[r] = "active" /\ TakeEntry(r))
      <3>1. /\ request[r] \notin Tracked \cup {"removed", "ended"}
            /\ \/ r \in LogStreams /\ Move(r, "ended")
               \/ r \notin LogStreams /\ Move(r, "rejected")
            /\ UNCHANGED <<listener, main, forced, woken, statsQueue, eventVars, report,
                           trackerVars, historyVars>>
        BY <1>2, <2>2 DEF Cut, Open, Tracked
      <3> QED BY <3>1 DEF Quiet, trackerVars, States, Open, DrainTypeOK
    <2> QED BY <2>1, <2>2
  <1>3. CASE Arrive(r) \/ RefuseRequest(r)
    <2>1. PICK to \in {"rejected", "looping", "passed"} :
            /\ Move(r, to)
            /\ UNCHANGED <<listener, main, forced, woken, statsQueue, eventVars, report,
                           trackerVars, historyVars>>
            /\ request[r] \in {"new", "passed"}
            /\ r \in LogStreams => to # "passed"
            /\ r \in Transfers => to # "looping"
            /\ to \in Open => listener[ListenerOf(r)] \in {"serving", "graceful"}
      BY <1>3 DEF Arrive, RefuseRequest, TrackedWhileActive, Open
    <2> QED BY <2>1 DEF Quiet, trackerVars, States, Open, Tracked, DrainTypeOK
  <1>4. CASE FirstLook(r) \/ RegisterStream(r) \/ SecondLook(r) \/ EndStream(r) \/ YieldLine(r)
             \/ TakeLine(r) \/ LeaveStream(r)
    <2>1. PICK from \in SUBSET Open, to \in {"ended", "unregistered", "registered", "waiting",
                                             "blocked", "looping"} : StreamStep(r, from, to)
      BY <1>4 DEF FirstLook, RegisterStream, SecondLook, EndStream, YieldLine, TakeLine, LeaveStream,
                  Open
    <2> QED BY <2>1 DEF StreamStep, Quiet, trackerVars, States, Open, DrainTypeOK
  <1> QED BY <1>1, <1>2, <1>3, <1>4 DEF RequestProgress, ClientStep

(* The main task, the listeners and the actor.                             *)
ServerStep ==
  \/ BeginDraining \/ ForceShutdown \/ MainProgress \/ ActorStep
  \/ \E l \in Listeners : Bind(l) \/ FailToBind(l) \/ ListenerEnds(l)

LEMMA NextSteps ==
  ASSUME [DrainNext]_drainVars
  PROVE  \/ UNCHANGED drainVars
         \/ main # "exited" /\ ServerStep
         \/ main # "exited" /\ \E r \in Requests : RequestProgress(r) \/ ClientStep(r)
  BY DEF DrainNext, ServerStep

(* What an Append and a Tail do to the messages of a queue.                *)
LEMMA QueueAppended ==
  ASSUME NEW S, NEW q \in Seq(S), NEW e \in S
  PROVE  /\ Append(q, e) \in Seq(S) /\ Len(Append(q, e)) = Len(q) + 1 /\ Len(q) \in Nat
         /\ Append(q, e)[Len(q) + 1] = e
         /\ \A i \in 1..Len(q) : Append(q, e)[i] = q[i]
  OBVIOUS

LEMMA QueueShortened ==
  ASSUME NEW S, NEW q \in Seq(S), q # <<>>
  PROVE  /\ Tail(q) \in Seq(S) /\ Len(Tail(q)) = Len(q) - 1 /\ Len(q) \in Nat \ {0}
         /\ Head(q) = q[1] /\ Head(q) \in S
         /\ \A i \in 1..Len(Tail(q)) : Tail(q)[i] = q[i + 1]
  OBVIOUS

LEMMA RequestTypes ==
  ASSUME DrainTypeOK, TrackedWhileActive, NEW r \in Requests, RequestProgress(r) \/ ClientStep(r)
  PROVE  DrainTypeOK'
  <1> USE RequestsAreSplit, RequestSteps DEF eventVars
  <1>1. ASSUME NEW to \in States, Quiet(r, to)
        PROVE  DrainTypeOK'
    BY <1>1 DEF Quiet, Move, States, DrainTypeOK, historyVars
  <1>2. CASE StartTransfer(r) /\ r \in Transfers
    BY <1>2 DEF StartTransfer, Move, Open, DrainTypeOK
  <1>3. CASE Deliver(r)
    <2>1. CASE HasRoom
      <3>1. statsQueue' \in Seq(Downloads \cup {Flush}) /\ Len(statsQueue') <= QueueCapacity
        BY <1>3, <2>1, QueueAppended, DrainAssumption DEF Deliver, HasRoom, DrainTypeOK
      <3> QED BY <1>3, <2>1, <3>1 DEF Deliver, Move, Open, DrainTypeOK, trackerVars
    <2>2. CASE ~HasRoom
      BY <1>3, <2>2 DEF Deliver, Move, Open, DrainTypeOK, trackerVars
    <2> QED BY <2>1, <2>2
  <1>4. CASE TakeEntry(r)
    BY <1>4 DEF TakeEntry, Move, Open, DrainTypeOK, historyVars
  <1>5. CASE Count(r)
    BY <1>5 DEF Count, Move, DrainTypeOK, historyVars
  <1> QED BY <1>1, <1>2, <1>3, <1>4, <1>5

LEMMA ServerTypes ==
  ASSUME DrainTypeOK, TotalsAreExact, main # "exited", ServerStep
  PROVE  DrainTypeOK'
  <1> USE DEF eventVars
  <1>0. CASE BeginDraining
    BY <1>0 DEF BeginDraining, MainStep, DrainTypeOK, historyVars
  <1>1. CASE ForceShutdown
    BY <1>1 DEF ForceShutdown, MainStep, DrainTypeOK, historyVars
  <1>2. CASE NotifyWaiters
    BY <1>2 DEF NotifyWaiters, MainStep, DrainTypeOK, historyVars, trackerVars, Open
  <1>3. CASE GracefulShutdown \/ ShutdownHandles
    BY <1>3 DEF GracefulShutdown, ShutdownHandles, SetListeners, CutTo, MainStep, DrainTypeOK,
                historyVars, trackerVars
  <1>4. CASE ListenersJoined \/ RegisterChanged \/ CheckTransfers \/ WakeUp
    BY <1>4 DEF ListenersJoined, RegisterChanged, CheckTransfers, WakeUp, MainStep, AfterWait,
                DrainTypeOK, historyVars, trackerVars
  <1>5. CASE SendFlush
    <2>1. statsQueue' \in Seq(Downloads \cup {Flush}) /\ Len(statsQueue') <= QueueCapacity
      BY <1>5, QueueAppended, DrainAssumption DEF SendFlush, DrainTypeOK
    <2> QED BY <1>5, <2>1 DEF SendFlush, MainStep, DrainTypeOK, historyVars, trackerVars
  <1>6. CASE Report
    <2>1. completed - report.completed \in Nat /\ aborted - report.aborted \in Nat
      BY DEF TotalsAreExact, DrainTypeOK
    <2> QED BY <1>6, <2>1 DEF Report, MainStep, DrainTypeOK, historyVars, trackerVars
  <1>7. CASE ActorStep
    <2>1. /\ statsQueue' \in Seq(Downloads \cup {Flush}) /\ Len(statsQueue') <= QueueCapacity
          /\ Head(statsQueue) \in Downloads \cup {Flush}
      BY <1>7, QueueShortened, DrainAssumption DEF ActorStep, DrainTypeOK
    <2> QED BY <1>7, <2>1 DEF ActorStep, Persist, DropEvent, DrainTypeOK, historyVars, trackerVars
  <1>8. ASSUME NEW l \in Listeners, Bind(l) \/ FailToBind(l) \/ ListenerEnds(l)
        PROVE  DrainTypeOK'
    BY <1>8 DEF Bind, FailToBind, ListenerEnds, ListenerStep, DrainTypeOK, historyVars, trackerVars
  <1> QED BY <1>0, <1>1, <1>2, <1>3, <1>4, <1>5, <1>6, <1>7, <1>8 DEF ServerStep, MainProgress

LEMMA StepTypes ==
  ASSUME DrainTypeOK, TrackedWhileActive, TotalsAreExact, [DrainNext]_drainVars
  PROVE  DrainTypeOK'
  <1>1. CASE UNCHANGED drainVars
    BY <1>1 DEF drainVars, eventVars, trackerVars, historyVars, DrainTypeOK
  <1> QED BY <1>1, NextSteps, RequestTypes, ServerTypes
-----------------------------------------------------------------------------
(* Transfers, the cut and the listeners                                    *)

(* No step of the server changes what a transfer does.                     *)
LEMMA ServerLeavesTransfers ==
  ASSUME DrainTypeOK, TrackedWhileActive, ServerStep
  PROVE  /\ UNCHANGED <<active, completed, aborted, historyVars>>
         /\ \A r \in Transfers : request'[r] = request[r]
         /\ \A r \in LogStreams : request'[r] = request[r] \/ request'[r] = "woken"
         /\ \A r \in Requests : request'[r] \in Open => request[r] \in Open
  <1> USE RequestsAreSplit
  <1>1. CASE NotifyWaiters
    <2>1. \A r \in Transfers : request[r] \notin {"registered", "waiting"}
      BY DEF TrackedWhileActive, Looping
    <2> QED BY <1>1, <2>1 DEF NotifyWaiters, trackerVars, Open
  <1>2. CASE ~NotifyWaiters
    BY <1>2 DEF ServerStep, MainProgress, BeginDraining, ForceShutdown, ActorStep, Bind, FailToBind,
                ListenerEnds, ListenerStep, GracefulShutdown, ShutdownHandles, ListenersJoined,
                RegisterChanged, CheckTransfers, WakeUp, SendFlush, Report, trackerVars
  <1> QED BY <1>1, <1>2

LEMMA StepTracked ==
  ASSUME DrainTypeOK, TrackedWhileActive, [DrainNext]_drainVars
  PROVE  TrackedWhileActive'
  <1> USE RequestsAreSplit DEF Looping
  <1>1. CASE UNCHANGED drainVars
    BY <1>1 DEF drainVars, trackerVars, TrackedWhileActive
  <1>2. CASE ServerStep
    BY <1>2, ServerLeavesTransfers DEF TrackedWhileActive
  <1>3. ASSUME NEW r \in Requests, RequestProgress(r) \/ ClientStep(r)
        PROVE  TrackedWhileActive'
    <2>1. ASSUME NEW to \in States, Quiet(r, to)
          PROVE  TrackedWhileActive'
      BY <2>1 DEF Quiet, Move, DrainTypeOK, TrackedWhileActive, Tracked
    <2>2. CASE StartTransfer(r) /\ r \in Transfers
      BY <2>2 DEF StartTransfer, Move, DrainTypeOK, TrackedWhileActive
    <2>3. CASE Deliver(r)
      BY <2>3 DEF Deliver, Move, DrainTypeOK, TrackedWhileActive, trackerVars
    <2>4. CASE TakeEntry(r) /\ r \in Transfers
      BY <2>4 DEF TakeEntry, Move, DrainTypeOK, TrackedWhileActive
    <2>5. CASE Count(r) /\ r \in Transfers
      BY <2>5 DEF Count, Move, DrainTypeOK, TrackedWhileActive
    <2> QED BY <1>3, <2>1, <2>2, <2>3, <2>4, <2>5, RequestSteps
  <1> QED BY <1>1, <1>2, <1>3, NextSteps

LEMMA StepCut ==
  ASSUME DrainTypeOK, TrackedWhileActive, CutIsForced, [DrainNext]_drainVars
  PROVE  CutIsForced'
  <1>1. CASE UNCHANGED drainVars
    BY <1>1 DEF drainVars, trackerVars, CutIsForced
  <1>2. ASSUME NEW r \in Requests, RequestProgress(r) \/ ClientStep(r)
        PROVE  CutIsForced'
    BY <1>2, RequestSteps DEF CutIsForced
  <1>3. CASE ServerStep
    <2>1. CASE BeginDraining \/ ForceShutdown
      BY <2>1 DEF BeginDraining, ForceShutdown, MainStep, CutIsForced
    <2>2. CASE GracefulShutdown \/ ShutdownHandles
      BY <2>2 DEF GracefulShutdown, ShutdownHandles, SetListeners, CutTo, MainStep, CutIsForced,
                  trackerVars
    <2>3. CASE NotifyWaiters \/ ListenersJoined \/ RegisterChanged \/ CheckTransfers \/ WakeUp
               \/ SendFlush \/ Report
      BY <2>3 DEF NotifyWaiters, ListenersJoined, RegisterChanged, CheckTransfers, WakeUp, SendFlush,
                  Report, MainStep, AfterWait, CutIsForced, trackerVars
    <2>4. CASE ActorStep
      BY <2>4 DEF ActorStep, CutIsForced, trackerVars
    <2>5. ASSUME NEW l \in Listeners, Bind(l) \/ FailToBind(l) \/ ListenerEnds(l)
          PROVE  CutIsForced'
      BY <2>5 DEF Bind, FailToBind, ListenerEnds, ListenerStep, CutIsForced, trackerVars, DrainTypeOK
    <2> QED BY <1>3, <2>1, <2>2, <2>3, <2>4, <2>5 DEF ServerStep, MainProgress
  <1> QED BY <1>1, <1>2, <1>3, NextSteps

(* The actor meets the flush message only while run_server waits for it.   *)
LEMMA ActorSteps ==
  ASSUME DrainTypeOK, EventsAreQueued, ActorStep
  PROVE  /\ statsQueue # <<>> /\ statsQueue' = Tail(statsQueue)
         /\ \/ /\ statsQueue[1] = Flush /\ main = "flushing" /\ main' = "report"
               /\ UNCHANGED eventVars
            \/ /\ statsQueue[1] # Flush /\ UNCHANGED main
               /\ written' \cup unsaved' = written \cup unsaved \cup {statsQueue[1]}
  <1>1. 1 \in 1..Len(statsQueue) /\ Head(statsQueue) = statsQueue[1]
    BY QueueShortened DEF ActorStep, DrainTypeOK
  <1> QED BY <1>1 DEF ActorStep, Persist, DropEvent, EventsAreQueued, eventVars

LEMMA StepListeners ==
  ASSUME DrainTypeOK, TrackedWhileActive, CutIsForced, ListenersAreDone, EventsAreQueued,
         [DrainNext]_drainVars
  PROVE  ListenersAreDone'
  <1> USE RequestsAreSplit
  <1>1. CASE UNCHANGED drainVars
    BY <1>1 DEF drainVars, ListenersAreDone
  <1>2. ASSUME NEW r \in Requests, RequestProgress(r) \/ ClientStep(r)
        PROVE  ListenersAreDone'
    <2>1. UNCHANGED <<listener, main, forced>>
      BY <1>2, RequestSteps
    <2>2. \A x \in Requests \ {r} : request'[x] = request[x]
      BY <1>2, RequestSteps DEF Quiet, StartTransfer, Deliver, TakeEntry, Count, Move, DrainTypeOK
    <2>3. request'[r] \in Open =>
            request[r] \in Open \/ listener[ListenerOf(r)] \in {"serving", "graceful"}
      <3>1. ASSUME NEW to \in States, Quiet(r, to)
            PROVE  request'[r] = to
        BY <3>1 DEF Quiet, Move, DrainTypeOK
      <3>2. CASE StartTransfer(r) \/ Deliver(r) \/ request[r] \in Tracked \/ Count(r)
        BY <3>2 DEF StartTransfer, Deliver, Count, Tracked, Open
      <3> QED BY <1>2, <3>1, <3>2, RequestSteps DEF Quiet
    <2> QED BY <2>1, <2>2, <2>3 DEF ListenersAreDone
  <1>3. CASE ServerStep
    <2>0. \A r \in Requests : request'[r] \in Open => request[r] \in Open
      BY <1>3, ServerLeavesTransfers
    <2> USE DEF ListenersAreDone, Joined
    <2>1. CASE BeginDraining \/ ForceShutdown \/ NotifyWaiters
      BY <2>0, <2>1 DEF BeginDraining, ForceShutdown, NotifyWaiters, MainStep, CutIsForced
    <2>2. CASE GracefulShutdown \/ ShutdownHandles
      <3>1. \A l \in Listeners : listener'[l] \in {"binding", "ended"} => listener[l] = "ended"
        BY <2>2 DEF GracefulShutdown, ShutdownHandles, SetListeners, CutTo
      <3>2. main' = "loop" /\ UNCHANGED <<forced, request>>
        BY <2>2 DEF GracefulShutdown, ShutdownHandles, MainStep
      <3> QED BY <3>1, <3>2
    <2>3. CASE ListenersJoined \/ RegisterChanged \/ CheckTransfers \/ WakeUp \/ SendFlush \/ Report
               \/ ActorStep
      <3>1. UNCHANGED <<listener, forced, request>>
        BY <2>3 DEF ListenersJoined, RegisterChanged, CheckTransfers, WakeUp, SendFlush, Report, ActorStep
      <3>2. main' \in Joined => main \in Joined \/ \A l \in Listeners : listener[l] = "ended"
        BY <2>3, ActorSteps DEF ListenersJoined, RegisterChanged, CheckTransfers, WakeUp, SendFlush, Report,
                    MainStep
      <3> QED BY <3>1, <3>2
    <2>4. ASSUME NEW l \in Listeners, Bind(l) \/ FailToBind(l) \/ ListenerEnds(l)
          PROVE  ListenersAreDone'
      <3>1. /\ UNCHANGED <<main, forced, request>> /\ listener[l] # "ended"
            /\ \A x \in Listeners \ {l} : listener'[x] = listener[x]
        BY <2>4 DEF Bind, FailToBind, ListenerEnds, ListenerStep, DrainTypeOK
      <3>2. ~forced /\ listener'[l] \in {"binding", "ended"} =>
              \A r \in Requests : ListenerOf(r) = l => request[r] \notin Open
        BY <2>4 DEF Bind, FailToBind, ListenerEnds, ListenerStep, DrainTypeOK, CutIsForced
      <3> QED BY <3>1, <3>2
    <2> QED BY <1>3, <2>1, <2>2, <2>3, <2>4 DEF ServerStep, MainProgress
  <1> QED BY <1>1, <1>2, <1>3, NextSteps

(* Once no transfer is left only the cut lets one begin, and it is late.   *)
LEMMA StepOnlyLate ==
  ASSUME DrainTypeOK, TrackedWhileActive, ListenersAreDone, OnlyLateLeft, EventsAreQueued,
         [DrainNext]_drainVars
  PROVE  OnlyLateLeft'
  <1> USE RequestsAreSplit
  <1>1. CASE UNCHANGED drainVars
    BY <1>1 DEF drainVars, historyVars, OnlyLateLeft
  <1>2. ASSUME NEW r \in Requests, RequestProgress(r) \/ ClientStep(r)
        PROVE  OnlyLateLeft'
    <2> USE DEF OnlyLateLeft, Tracked
    <2>0. UNCHANGED main
      BY <1>2, RequestSteps
    <2>1. ASSUME NEW to \in States, Quiet(r, to)
          PROVE  OnlyLateLeft'
      BY <2>0, <2>1 DEF Quiet, Move, DrainTypeOK, historyVars
    <2>2. CASE StartTransfer(r) /\ r \in Transfers
      <3>1. main \in Emptied => forced
        BY <2>2 DEF StartTransfer, ListenersAreDone, Open, Emptied, Joined
      <3> QED BY <2>0, <2>2, <3>1 DEF StartTransfer, Move, DrainTypeOK
    <2>3. CASE Deliver(r)
      BY <2>0, <2>3 DEF Deliver, Move, DrainTypeOK
    <2>4. CASE TakeEntry(r)
      BY <2>0, <2>4 DEF TakeEntry, Move, DrainTypeOK, historyVars
    <2>5. CASE Count(r)
      BY <2>0, <2>5 DEF Count, Move, DrainTypeOK, historyVars
    <2> QED BY <1>2, <2>1, <2>2, <2>3, <2>4, <2>5, RequestSteps
  <1>3. CASE ServerStep
    <2>1. UNCHANGED late /\ \A r \in Transfers : request'[r] = request[r]
      BY <1>3, ServerLeavesTransfers DEF historyVars
    <2>2. CASE CheckTransfers
      <3>1. main' \in Emptied => \A r \in Transfers : request[r] \notin {"active", "recorded"}
        BY <2>2 DEF CheckTransfers, MainStep, NoTransfers, Emptied, TrackedWhileActive
      <3> QED BY <2>1, <3>1 DEF OnlyLateLeft
    <2>3. CASE ~CheckTransfers
      <3>1. main' \in Emptied => main \in Emptied
        BY <1>3, <2>3, ActorSteps
           DEF ServerStep, MainProgress, BeginDraining, ForceShutdown, NotifyWaiters, GracefulShutdown,
               ShutdownHandles, ListenersJoined, RegisterChanged, WakeUp, SendFlush, Report, Bind,
               FailToBind, ListenerEnds, ListenerStep, MainStep, Emptied
      <3> QED BY <2>1, <3>1 DEF OnlyLateLeft
    <2> QED BY <2>2, <2>3
  <1> QED BY <1>1, <1>2, <1>3, NextSteps
-----------------------------------------------------------------------------
(* The statistics queue                                                    *)

LEMMA StepEvents ==
  ASSUME DrainTypeOK, TrackedWhileActive, OnlyLateLeft, EventsAreQueued,
         [DrainNext]_drainVars
  PROVE  EventsAreQueued'
  <1> USE RequestsAreSplit DEF EventsAreQueued
  <1> DEFINE q == statsQueue
             n == Len(statsQueue)
  <1>0. q \in Seq(Downloads \cup {Flush}) /\ n \in Nat
    BY DEF DrainTypeOK
  <1>q. ASSUME UNCHANGED <<statsQueue, main, delivered>>, late \subseteq late',
               written \cup unsaved \subseteq written' \cup unsaved',
               overloaded \subseteq overloaded'
        PROVE  EventsAreQueued'
    BY <1>q
  <1>1. CASE UNCHANGED drainVars
    BY <1>1, <1>q DEF drainVars, eventVars, historyVars
  <1>2. ASSUME NEW r \in Requests, RequestProgress(r) \/ ClientStep(r)
        PROVE  EventsAreQueued'
    <2>0. UNCHANGED <<main, written, unsaved>>
      BY <1>2, RequestSteps DEF eventVars
    <2>1. CASE ~Deliver(r)
      <3>1. UNCHANGED <<statsQueue, delivered, overloaded>> /\ late \subseteq late'
        BY <1>2, <2>1, RequestSteps DEF Quiet, StartTransfer, TakeEntry, Count, historyVars
      <3> QED BY <1>q, <2>0, <3>1
    <2>2. CASE Deliver(r) /\ ~HasRoom
      BY <2>0, <2>2 DEF Deliver
    <2>3. CASE Deliver(r) /\ HasRoom
      <3>1. /\ r \in Downloads /\ r # Flush
            /\ delivered' = delivered \cup {r} /\ q' = Append(q, r)
            /\ UNCHANGED <<overloaded, late>>
        BY <2>3 DEF Deliver
      <3>2. /\ n' = n + 1 /\ q'[n + 1] = r
            /\ \A i \in 1..n : q'[i] = q[i]
        BY <1>0, <3>1, QueueAppended
      <3>3. main \in Emptied => r \in late
        BY <2>3 DEF Deliver, OnlyLateLeft
      <3>4. \A x \in delivered' : \/ x \in written' \cup unsaved' \cup overloaded'
                                  \/ \E i \in 1..n' : q'[i] = x
        BY <1>0, <2>0, <3>1, <3>2
      <3>5. main \in {"report", "exited"} => \A i \in 1..n' : q'[i] \in late
        BY <1>0, <3>2, <3>3 DEF Emptied
      <3>6. main # "flushing" => \A i \in 1..n' : q'[i] # Flush
        BY <1>0, <3>1, <3>2
      <3>7. CASE main = "flushing"
        <4>1. PICK k \in 1..n : /\ q[k] = Flush
                                /\ \A i \in 1..n : /\ i # k => q[i] # Flush
                                                   /\ i > k => q[i] \in late
          BY <3>7
        <4>2. /\ k \in 1..n' /\ q'[k] = Flush
              /\ \A i \in 1..n' : /\ i # k => q'[i] # Flush
                                  /\ i > k => q'[i] \in late'
          BY <1>0, <3>1, <3>2, <3>3, <3>7, <4>1 DEF Emptied
        <4> QED BY <2>0, <3>4, <3>7, <4>2
      <3> QED BY <2>0, <3>1, <3>4, <3>5, <3>6, <3>7
    <2> QED BY <2>1, <2>2, <2>3
  <1>3. CASE ActorStep
    <2>0. UNCHANGED historyVars
      BY <1>3 DEF ActorStep
    <2>1. /\ q' = Tail(q) /\ n' = n - 1 /\ n \in Nat \ {0}
          /\ \A i \in 1..n' : q'[i] = q[i + 1]
      BY <1>0, <1>3, ActorSteps, QueueShortened
    <2>2. \A i \in 1..n : i = 1 \/ (i - 1 \in 1..n' /\ q'[i - 1] = q[i])
      BY <1>0, <2>1
    <2>3. CASE q[1] = Flush
      <3>1. /\ main = "flushing" /\ main' = "report" /\ UNCHANGED <<written, unsaved>>
        BY <1>3, <2>3, ActorSteps DEF eventVars
      <3>2. \A i \in 2..n : q[i] # Flush /\ q[i] \in late
        BY <1>0, <2>3, <2>1, <3>1
      <3>3. \A i \in 1..n' : q'[i] # Flush /\ q'[i] \in late
        BY <1>0, <2>1, <3>2
      <3>4. \A x \in delivered' : \/ x \in written' \cup unsaved' \cup overloaded'
                                  \/ \E i \in 1..n' : q'[i] = x
        BY <1>0, <2>0, <2>2, <2>3, <3>1 DEF historyVars, DrainTypeOK
      <3> QED BY <2>0, <3>1, <3>3, <3>4 DEF historyVars
    <2>4. CASE q[1] # Flush
      <3>1. UNCHANGED main /\ written' \cup unsaved' = written \cup unsaved \cup {q[1]}
        BY <1>3, <2>4, ActorSteps
      <3>2. \A x \in delivered' : \/ x \in written' \cup unsaved' \cup overloaded'
                                  \/ \E i \in 1..n' : q'[i] = x
        BY <1>0, <2>0, <2>2, <3>1 DEF historyVars
      <3>3. /\ main # "flushing" => \A i \in 1..n' : q'[i] # Flush
            /\ main \in {"report", "exited"} => \A i \in 1..n' : q'[i] \in late
        BY <1>0, <2>1
      <3>4. CASE main = "flushing"
        <4>1. PICK k \in 1..n : /\ q[k] = Flush
                                /\ \A i \in 1..n : /\ i # k => q[i] # Flush
                                                   /\ i > k => q[i] \in late
          BY <3>4
        <4>2. /\ k - 1 \in 1..n' /\ q'[k - 1] = Flush
              /\ \A i \in 1..n' : /\ i # k - 1 => q'[i] # Flush
                                  /\ i > k - 1 => q'[i] \in late
          BY <1>0, <2>1, <2>2, <2>4, <4>1
        <4> QED BY <2>0, <3>1, <3>2, <3>4, <4>2 DEF historyVars
      <3> QED BY <2>0, <3>1, <3>2, <3>3, <3>4 DEF historyVars
    <2> QED BY <2>3, <2>4
  <1>4. CASE SendFlush
    <2>1. /\ main = "flush" /\ main' = "flushing" /\ q' = Append(q, Flush)
          /\ UNCHANGED <<written, unsaved, delivered, overloaded, late>>
      BY <1>4 DEF SendFlush, MainStep, eventVars, historyVars
    <2>2. /\ n' = n + 1 /\ q'[n + 1] = Flush
          /\ \A i \in 1..n : q'[i] = q[i]
      BY <1>0, <2>1, QueueAppended
    <2>3. \A x \in delivered' : \/ x \in written' \cup unsaved' \cup overloaded'
                                \/ \E i \in 1..n' : q'[i] = x
      BY <1>0, <2>1, <2>2
    <2>4. /\ n + 1 \in 1..n'
          /\ \A i \in 1..n' : /\ i # n + 1 => q'[i] # Flush
                              /\ i > n + 1 => q'[i] \in late'
      BY <1>0, <2>1, <2>2
    <2> QED BY <2>1, <2>2, <2>3, <2>4
  <1>5. CASE ServerStep /\ ~ActorStep /\ ~SendFlush
    <2>1. UNCHANGED <<statsQueue, written, unsaved, delivered, overloaded, late>>
      BY <1>5 DEF ServerStep, MainProgress, BeginDraining, ForceShutdown, NotifyWaiters,
               GracefulShutdown, ShutdownHandles, ListenersJoined, RegisterChanged, CheckTransfers,
               WakeUp, Report, Bind, FailToBind, ListenerEnds, ListenerStep, eventVars, historyVars
    <2>2. \/ main' = main \/ (main = "report" /\ main' = "exited")
          \/ {main, main'} \cap {"flushing", "report", "exited"} = {}
      BY <1>5 DEF ServerStep, MainProgress, BeginDraining, ForceShutdown, NotifyWaiters,
               GracefulShutdown, ShutdownHandles, ListenersJoined, RegisterChanged, CheckTransfers,
               WakeUp, Report, Bind, FailToBind, ListenerEnds, ListenerStep, MainStep, AfterWait
    <2> QED BY <2>1, <2>2
  <1> QED BY <1>1, <1>2, <1>3, <1>4, <1>5, NextSteps
-----------------------------------------------------------------------------
(* The totals                                                              *)

(* A step that ends no transfer and marks none that ended.                 *)
LEMMA NobodyEnds ==
  ASSUME DrainTypeOK, TotalsAreExact, UNCHANGED <<completed, aborted>>, marked' \subseteq Transfers,
         \A r \in Transfers : request'[r] = "ended" <=> request[r] = "ended",
         \A r \in Transfers : request[r] = "ended" => (r \in marked' <=> r \in marked)
  PROVE  /\ IsFiniteSet(Ended(Transfers))'
         /\ aborted' = Cardinality(Ended(marked))'
         /\ completed' = Cardinality(Ended(Transfers \ marked))'
  <1>1. Ended(Transfers)' = Ended(Transfers)
    BY DEF Ended
  <1>2. Ended(marked)' = Ended(marked)
    BY DEF Ended, DrainTypeOK
  <1>3. Ended(Transfers \ marked)' = Ended(Transfers \ marked)
    BY DEF Ended
  <1> QED BY <1>1, <1>2, <1>3 DEF TotalsAreExact

(* The guard that is counted was in neither total.                         *)
LEMMA OneEnds ==
  ASSUME DrainTypeOK, TotalsAreExact, NEW r \in Transfers, Count(r)
  PROVE  /\ IsFiniteSet(Ended(Transfers))'
         /\ aborted' = Cardinality(Ended(marked))'
         /\ completed' = Cardinality(Ended(Transfers \ marked))'
         /\ completed' >= completed
  <1>1. /\ UNCHANGED <<marked, report, main>> /\ request[r] = "removed" /\ r \in Requests
        /\ \A x \in Transfers : request'[x] = IF x = r THEN "ended" ELSE request[x]
    BY RequestsAreSplit DEF Count, Move, DrainTypeOK
  <1>2. Ended(Transfers)' = Ended(Transfers) \cup {r}
    BY <1>1 DEF Ended
  <1>3. /\ Ended(marked) \subseteq Ended(Transfers)
        /\ Ended(Transfers \ marked) \subseteq Ended(Transfers)
    BY DEF Ended, DrainTypeOK
  <1>4. /\ IsFiniteSet(Ended(marked)) /\ IsFiniteSet(Ended(Transfers \ marked))
        /\ IsFiniteSet(Ended(Transfers) \cup {r})
    BY <1>3, FS_Subset, FS_AddElement DEF TotalsAreExact
  <1>5. CASE r \in marked
    <2>1. /\ Ended(marked)' = Ended(marked) \cup {r} /\ r \notin Ended(marked)
          /\ Ended(Transfers \ marked)' = Ended(Transfers \ marked)
      BY <1>1, <1>5 DEF Ended, DrainTypeOK
    <2>2. Cardinality(Ended(marked) \cup {r}) = Cardinality(Ended(marked)) + 1
      BY <1>4, <2>1, FS_AddElement
    <2>3. aborted' = aborted + 1 /\ completed' = completed
      BY <1>5 DEF Count
    <2>4. completed \in Nat /\ completed' >= completed
      BY <2>3 DEF DrainTypeOK
    <2> QED BY <1>2, <1>4, <2>1, <2>2, <2>3, <2>4 DEF TotalsAreExact
  <1>6. CASE r \notin marked
    <2>1. /\ Ended(marked)' = Ended(marked)
          /\ r \notin Ended(Transfers \ marked)
          /\ Ended(Transfers \ marked)' = Ended(Transfers \ marked) \cup {r}
      BY <1>1, <1>6 DEF Ended, DrainTypeOK
    <2>2. Cardinality(Ended(Transfers \ marked) \cup {r}) = Cardinality(Ended(Transfers \ marked)) + 1
      BY <1>4, <2>1, FS_AddElement
    <2>3. completed' = completed + 1 /\ aborted' = aborted
      BY <1>6 DEF Count
    <2>4. completed \in Nat /\ completed' >= completed
      BY <2>3 DEF DrainTypeOK
    <2> QED BY <1>2, <1>4, <2>1, <2>2, <2>3, <2>4 DEF TotalsAreExact
  <1> QED BY <1>5, <1>6

LEMMA NothingAborted ==
  ASSUME DrainTypeOK, CutIsForced, TotalsAreExact, ~forced
  PROVE  aborted = 0
  <1>1. Ended(marked) = {}
    BY DEF CutIsForced, Ended
  <1> QED BY <1>1, FS_EmptySet DEF TotalsAreExact

LEMMA StepTotals ==
  ASSUME DrainTypeOK, TrackedWhileActive, CutIsForced, TotalsAreExact, [DrainNext]_drainVars
  PROVE  TotalsAreExact'
  <1> USE RequestsAreSplit
  <1>1. CASE UNCHANGED drainVars
    BY <1>1 DEF drainVars, trackerVars, TotalsAreExact, Ended
  <1>2. ASSUME NEW r \in Requests, RequestProgress(r) \/ ClientStep(r), main # "exited"
        PROVE  TotalsAreExact'
    <2>0. UNCHANGED <<main, report, marked>> /\ marked' \subseteq Transfers
      BY <1>2, RequestSteps DEF DrainTypeOK
    <2>1. CASE Count(r) /\ r \in Transfers
      <3>1. report.completed \in Nat /\ completed \in Nat /\ completed' >= completed
        BY <2>1, OneEnds DEF DrainTypeOK
      <3>2. completed' \in Nat
        BY <2>1 DEF Count, DrainTypeOK
      <3> QED BY <1>2, <2>0, <2>1, <3>1, <3>2, OneEnds DEF TotalsAreExact
    <2>2. CASE ~Count(r)
      <3>1. /\ UNCHANGED <<completed, aborted>>
            /\ \A x \in Transfers : request'[x] = "ended" <=> request[x] = "ended"
        <4>1. ASSUME NEW to \in States, Quiet(r, to)
              PROVE  <3>1
          BY <4>1 DEF Quiet, Move, DrainTypeOK
        <4>2. CASE StartTransfer(r) \/ Deliver(r)
          BY <4>2 DEF StartTransfer, Deliver, Move, DrainTypeOK, trackerVars
        <4>3. CASE TakeEntry(r) /\ request[r] \in Tracked
          BY <4>3 DEF TakeEntry, Move, DrainTypeOK, Tracked
        <4> QED BY <1>2, <2>2, <4>1, <4>2, <4>3, RequestSteps
      <3>2. /\ IsFiniteSet(Ended(Transfers))' /\ aborted' = Cardinality(Ended(marked))'
            /\ completed' = Cardinality(Ended(Transfers \ marked))'
        BY <2>0, <3>1, NobodyEnds
      <3> QED BY <2>0, <3>1, <3>2 DEF TotalsAreExact
    <2> QED BY <1>2, <2>1, <2>2, RequestSteps DEF TrackedWhileActive, Count
  <1>3. CASE ServerStep /\ main # "exited"
    <2>1. /\ UNCHANGED <<completed, aborted>>
          /\ \A x \in Transfers : request'[x] = request[x]
      BY <1>3, ServerLeavesTransfers
    <2>2. marked' = marked \/ marked' = marked \cup active
      BY <1>3 DEF ServerStep, MainProgress, BeginDraining, ForceShutdown, NotifyWaiters, GracefulShutdown,
               ShutdownHandles, ListenersJoined, RegisterChanged, CheckTransfers, WakeUp, SendFlush,
               Report, ActorStep, Bind, FailToBind, ListenerEnds, ListenerStep, trackerVars
    <2>3. /\ IsFiniteSet(Ended(Transfers))' /\ aborted' = Cardinality(Ended(marked))'
          /\ completed' = Cardinality(Ended(Transfers \ marked))'
      <3>1. \A r \in Transfers : request[r] = "ended" => r \notin active
        BY DEF TrackedWhileActive
      <3>2. \A r \in Transfers : request[r] = "ended" => (r \in marked' <=> r \in marked)
        BY <2>2, <3>1
      <3> QED BY <2>1, <2>2, <3>2, NobodyEnds DEF DrainTypeOK
    <2>4. CASE BeginDraining
      <3>1. main' = "notify" /\ report' = [completed |-> completed, aborted |-> aborted]
        BY <2>4 DEF BeginDraining, MainStep
      <3>2. aborted = 0
        BY <2>4, NothingAborted DEF BeginDraining, MainStep, CutIsForced
      <3> QED BY <2>1, <2>3, <3>1, <3>2 DEF TotalsAreExact, DrainTypeOK
    <2>5. CASE Report
      <3>1. main' = "exited" /\ report'.aborted = aborted - report.aborted
        BY <2>5 DEF Report, MainStep
      <3>2. report'.aborted = aborted
        BY <1>3, <3>1 DEF TotalsAreExact, DrainTypeOK
      <3> QED BY <2>1, <2>3, <3>1, <3>2 DEF TotalsAreExact
    <2>6. CASE ~BeginDraining /\ ~Report
      <3>1. UNCHANGED report /\ main' # "exited"
        BY <1>3, <2>6
           DEF ServerStep, MainProgress, ForceShutdown, NotifyWaiters, GracefulShutdown, ShutdownHandles,
               ListenersJoined, RegisterChanged, CheckTransfers, WakeUp, SendFlush, ActorStep, Bind,
               FailToBind, ListenerEnds, ListenerStep, MainStep, AfterWait
      <3> QED BY <1>3, <2>1, <2>3, <3>1 DEF TotalsAreExact
    <2> QED BY <2>4, <2>5, <2>6
  <1> QED BY <1>1, <1>2, <1>3, NextSteps
-----------------------------------------------------------------------------
(* The results                                                             *)

LEMMA InitDrainInv ==
  ASSUME DrainInit
  PROVE  DrainInv
  <1> USE DEF DrainInit
  <1>1. statsQueue \in Seq(Downloads \cup {Flush}) /\ Len(statsQueue) = 0
    OBVIOUS
  <1>2. DrainTypeOK
    <2>1. statsQueue \in Seq(Downloads \cup {Flush}) /\ Len(statsQueue) <= QueueCapacity
      BY <1>1, DrainAssumption
    <2>2. report \in [completed : Nat, aborted : Nat]
      OBVIOUS
    <2>3. request \in [Requests -> Open \cup {"new", "rejected", "ended"}]
      OBVIOUS
    <2>4. listener \in [Listeners -> {"binding", "serving", "graceful", "shutdown", "ended"}]
      OBVIOUS
    <2> QED BY <2>1, <2>2, <2>3, <2>4 DEF DrainTypeOK
  <1>3. TrackedWhileActive /\ CutIsForced /\ ListenersAreDone /\ OnlyLateLeft
    BY RequestsAreSplit DEF TrackedWhileActive, CutIsForced, ListenersAreDone, OnlyLateLeft, Joined,
                            Emptied, Open, Looping
  <1>4. EventsAreQueued
    BY <1>1 DEF EventsAreQueued
  <1>5. TotalsAreExact
    <2>1. Ended(Transfers) = {} /\ Ended(marked) = {} /\ Ended(Transfers \ marked) = {}
      BY RequestsAreSplit DEF Ended
    <2>2. report.completed = 0 /\ report.aborted = 0 /\ completed = 0 /\ aborted = 0
          /\ main = "serving"
      OBVIOUS
    <2> HIDE DEF DrainInit
    <2>3. /\ IsFiniteSet(Ended(Transfers)) /\ Cardinality(Ended(marked)) = 0
          /\ Cardinality(Ended(Transfers \ marked)) = 0
      BY <2>1, FS_EmptySet
    <2> QED BY <2>2, <2>3 DEF TotalsAreExact
  <1> QED BY <1>2, <1>3, <1>4, <1>5 DEF DrainInv

(* Every reachable state of a node that stops satisfies the invariant.     *)
THEOREM DrainInvariant == DrainSpec => []DrainInv
  <1>1. DrainInit => DrainInv
    BY InitDrainInv
  <1>2. DrainInv /\ [DrainNext]_drainVars => DrainInv'
    BY StepTypes, StepTracked, StepCut, StepListeners, StepOnlyLate, StepEvents, StepTotals
       DEF DrainInv
  <1> QED BY <1>1, <1>2, PTL DEF DrainSpec

(* Type correctness, the statistics queue within its capacity and the summary*)
(* of run_server never negative included.                                  *)
THEOREM DrainTypeCorrect == DrainSpec => []DrainTypeOK
  BY DrainInvariant, PTL DEF DrainInv

(* download_artifact records before its guard drops and run_server flushes *)
(* after the last guard: however requests, cut and actor interleave, when   *)
(* the process leaves the event of a finished download is on disk, or the   *)
(* queue was full, or the actor dropped it (pending limit, write error), or *)
(* the transfer began after the cut. None is left behind in the queue.      *)
THEOREM StatisticsAreFlushed == DrainSpec => []FinishedDownloadsAreFlushed
  <1>1. ASSUME DrainInv, main = "exited", NEW r \in delivered \ late
        PROVE  r \in written \cup unsaved \cup overloaded
    BY <1>1 DEF DrainInv, EventsAreQueued
  <1>2. DrainInv => FinishedDownloadsAreFlushed
    BY <1>1 DEF FinishedDownloadsAreFlushed
  <1> QED BY <1>2, DrainInvariant, PTL

(* TransferGuard::drop counts each transfer once, on the side the cut put it,*)
(* and the summary leaves out none that began before the cut and is over.  *)
THEOREM TransfersAreReported == DrainSpec => []EveryTransferIsReported
  <1>1. DrainInv => EveryTransferIsReported
    <2>1. SUFFICES ASSUME DrainInv PROVE EveryTransferIsReported
      OBVIOUS
    <2>2. ASSUME main = "exited", NEW r \in Transfers \ late
          PROVE  request[r] \in {"new", "rejected", "removed", "ended", "passed"}
      <3>1. r \in Requests /\ request[r] \notin Looping \cup Tracked
        BY <2>1, <2>2, RequestsAreSplit
           DEF DrainInv, TrackedWhileActive, OnlyLateLeft, Emptied, Tracked
      <3> QED BY <2>1, <3>1 DEF DrainInv, DrainTypeOK, Open, Looping, Tracked
    <2> QED BY <2>1, <2>2, <2>2 DEF DrainInv, TotalsAreExact, EveryTransferIsReported
  <1> QED BY <1>1, DrainInvariant, PTL
-----------------------------------------------------------------------------
(* How an upload gets in (UploadIntake).                                   *)

Reading == {"receiving", "accepted"}

(* The policy is the one of a valid configuration.                         *)
PolicyIsValid ==
  phase \in {"serving", "fetched"} \cup Reading => Valid(config) /\ policy = PolicyOf(config)

(* Before a request is read nothing of it has arrived.                     *)
NothingRead ==
  /\ phase \notin Reading \cup {"refused"} => part = 0 /\ unread = 0
  /\ phase \notin Reading => staged = 0 /\ largest = 0
  /\ part = 0 => size = 0 /\ total = 0 /\ staged = 0 /\ largest = 0 /\ unread = 0

(* The counters are exact: no addition has met the largest word.           *)
CountersAreExact ==
  phase \in Reading =>
    /\ staged = total /\ total <= policy.total
    /\ largest <= policy.artifact
    /\ part > 0 => size + unread = parts[part].size

IntakeInv == IntakeTypeOK /\ PolicyIsValid /\ NothingRead /\ CountersAreExact
-----------------------------------------------------------------------------
(* Words                                                                   *)

(* The largest word is no multiple of a unit, so no limit is the value that*)
(* a saturated sum has.                                                    *)
LEMMA NoLimitIsMaxWord ==
  ASSUME NEW c \in Nat, NEW unit \in {Mebi, Kibi}
  PROVE  c * unit # MaxWord
  <1>1. unit \in Nat /\ unit > 1 /\ MaxWord \in Nat /\ (MaxWord + 1) % unit = 0
    BY IntakeAssumption
  <1>2. MaxWord + 1 = unit * ((MaxWord + 1) \div unit)
    BY <1>1
  <1> DEFINE k == (MaxWord + 1) \div unit
  <1>3. k \in Nat
    BY <1>1
  <1>4. SUFFICES ASSUME c * unit = MaxWord PROVE FALSE
    OBVIOUS
  <1> HIDE DEF k
  <1>5. unit * k = c * unit + 1
    BY <1>2, <1>4 DEF k
  <1>6. CASE k <= c
    BY <1>1, <1>3, <1>5, <1>6
  <1>7. CASE k >= c + 1
    <2>1. unit * k >= unit * (c + 1)
      BY <1>1, <1>3, <1>7
    <2>2. unit * (c + 1) = c * unit + unit
      BY <1>1
    <2> QED BY <1>1, <1>5, <2>1, <2>2
  <1> QED BY <1>3, <1>6, <1>7

LEMMA SumsAreWords ==
  ASSUME NEW a \in Nat, NEW b \in Nat
  PROVE  /\ Add(a, b) \in 0..MaxWord
         /\ \A limit \in 0..(MaxWord - 1) : Add(a, b) <= limit => Add(a, b) = a + b
  BY IntakeAssumption DEF Add, Capped

(* What a valid section allows is below the largest word.                  *)
LEMMA LimitsAreWords ==
  ASSUME NEW c \in Configs, Valid(c)
  PROVE  LET p == PolicyOf(c)
         IN  /\ p \in [artifact : 1..MaxWord, total : 1..MaxWord, metadata : 1..MaxWord,
                       platforms : Nat]
             /\ {p.artifact, p.total, p.metadata} \subseteq 0..(MaxWord - 1)
  <1>1. /\ c.artifact \in Nat /\ c.total \in Nat /\ c.metadata \in Nat /\ c.platforms \in Nat
        /\ Mebi \in Nat /\ Mebi > 1 /\ Kibi \in Nat /\ Kibi > 1 /\ MaxWord \in Nat
    BY IntakeAssumption
  <1>2. ASSUME NEW a \in Nat, a > 0, NEW unit \in {Mebi, Kibi}, Fits(a, unit)
        PROVE  a * unit \in 1..(MaxWord - 1)
    <2>1. a * unit <= MaxWord /\ a * unit # MaxWord /\ a * unit \in Nat
      BY <1>1, <1>2, NoLimitIsMaxWord DEF Fits
    <2>2. a * unit >= 1
      BY <1>1, <1>2
    <2> QED BY <1>1, <2>1, <2>2
  <1>3. /\ c.artifact * Mebi \in 1..(MaxWord - 1) /\ c.total * Mebi \in 1..(MaxWord - 1)
        /\ c.metadata * Kibi \in 1..(MaxWord - 1)
    BY <1>1, <1>2 DEF Valid
  <1>4. 1..(MaxWord - 1) \subseteq 1..MaxWord /\ 1..(MaxWord - 1) \subseteq 0..(MaxWord - 1)
    BY <1>1
  <1> QED BY <1>1, <1>3, <1>4 DEF PolicyOf
-----------------------------------------------------------------------------
(* Requests                                                                *)

LEMMA RequestParts ==
  ASSUME NEW r \in AllRequests
  PROVE  /\ Len(r) \in Nat \ {0} /\ \A i \in 1..Len(r) : r[i] \in Artifacts \cup Metadata
  <1>1. PICK n \in 1..MaxParts : r \in [1..n -> Artifacts \cup Metadata]
    BY DEF AllRequests, RequestsOf
  <1>2. n \in Nat \ {0}
    BY <1>1, IntakeAssumption
  <1>3. r \in Seq(Artifacts \cup Metadata)
    BY <1>1, <1>2, SeqDef
  <1>4. Len(r) = n
    BY <1>1, <1>2, <1>3, LenProperties
  <1> QED BY <1>1, <1>2, <1>4

LEMMA PartTypes ==
  ASSUME NEW p \in Artifacts \cup Metadata
  PROVE  /\ p.size \in Nat
         /\ p.kind = "metadata" => p.needs \in SUBSET Names
         /\ p.kind # "metadata" => p.name \in Names
  BY IntakeAssumption DEF Artifacts, Metadata

(* The numbers of a state of the right types.                              *)
LEMMA NumbersOfState ==
  ASSUME IntakeTypeOK
  PROVE  /\ MaxWord \in Nat /\ Overhead \in Nat
         /\ Len(parts) \in Nat /\ part \in Nat /\ part <= Len(parts)
         /\ unread \in Nat /\ body \in Nat /\ staged \in Nat /\ largest \in Nat
         /\ size \in Nat /\ size <= MaxWord /\ total \in Nat /\ total <= MaxWord
         /\ tally \in Nat /\ tally <= MaxWord /\ picked \in Nat
         /\ parts \notin AllRequests => Len(parts) = 0
  <1>1. Len(<<>>) = 0
    OBVIOUS
  <1>2. Len(parts) \in Nat /\ (parts \notin AllRequests => Len(parts) = 0)
    BY <1>1, RequestParts DEF IntakeTypeOK
  <1>3. part \in 0..Len(parts) /\ size \in 0..MaxWord /\ total \in 0..MaxWord /\ tally \in 0..MaxWord
    BY DEF IntakeTypeOK
  <1>4. unread \in Nat /\ body \in Nat /\ staged \in Nat /\ largest \in Nat /\ picked \in Nat
    BY DEF IntakeTypeOK
  <1>5. MaxWord \in Nat /\ Overhead \in Nat
    BY IntakeAssumption
  <1> QED BY <1>2, <1>3, <1>4, <1>5

(* A request in the reader's hands has the part it is at.                  *)
LEMMA PartAtHand ==
  ASSUME IntakeTypeOK, part > 0 \/ part < Len(parts)
  PROVE  /\ parts \in AllRequests
         /\ part > 0 => parts[part] \in Artifacts \cup Metadata
         /\ part < Len(parts) => NextPart \in Artifacts \cup Metadata
  <1>1. /\ Len(parts) \in Nat /\ part \in Nat /\ part <= Len(parts)
        /\ parts \notin AllRequests => Len(parts) = 0
    BY NumbersOfState
  <1>2. parts \in AllRequests
    BY <1>1
  <1>3. \A i \in 1..Len(parts) : parts[i] \in Artifacts \cup Metadata
    BY <1>2, RequestParts
  <1>4. /\ part > 0 => part \in 1..Len(parts)
        /\ part < Len(parts) => part + 1 \in 1..Len(parts)
    BY <1>1
  <1> QED BY <1>2, <1>3, <1>4 DEF NextPart

(* Limits of a policy, as numbers.                                         *)
LEMMA LimitsInForce ==
  ASSUME IntakeInv, phase \in {"serving", "fetched"} \cup Reading
  PROVE  /\ policy.artifact \in Nat /\ policy.total \in Nat /\ policy.metadata \in Nat
         /\ policy.artifact < MaxWord /\ policy.total < MaxWord /\ policy.metadata < MaxWord
  <1>1. config \in Configs /\ Valid(config) /\ policy = PolicyOf(config)
    BY DEF IntakeInv, IntakeTypeOK, PolicyIsValid
  <1>2. {policy.artifact, policy.total, policy.metadata} \subseteq 0..(MaxWord - 1)
    BY <1>1, LimitsAreWords
  <1> QED BY <1>2, IntakeAssumption
-----------------------------------------------------------------------------
(* The steps                                                               *)

LEMMA RefuseKeeps ==
  ASSUME IntakeInv, RefuseUpload
  PROVE  IntakeInv'
  <1> USE DEF IntakeInv, RefuseUpload, limitVars, clientIntakeVars
  <1>1. IntakeTypeOK'
    BY DEF IntakeTypeOK
  <1>2. PolicyIsValid' /\ CountersAreExact'
    BY DEF PolicyIsValid, CountersAreExact, Reading
  <1>3. NothingRead'
    BY DEF NothingRead, Reading
  <1> QED BY <1>1, <1>2, <1>3

LEMMA ClientKeeps ==
  ASSUME IntakeInv,
         \/ LoadConfig \/ PickArtifact \/ Upload
         \/ \E r \in AllRequests : SendRequest(r) \/ FetchPolicy(r)
  PROVE  IntakeInv'
  <1> USE DEF IntakeInv
  <1>1. CASE LoadConfig
    <2>1. /\ UNCHANGED <<config, clientIntakeVars, readerVars>> /\ config \in Configs
          /\ \/ Valid(config) /\ phase' = "serving" /\ policy' = PolicyOf(config)
             \/ phase' = "refused config" /\ UNCHANGED policy
      BY <1>1 DEF LoadConfig, IntakeTypeOK
    <2>2. policy' = NoPolicy \/ policy' \in [artifact : 1..MaxWord, total : 1..MaxWord,
                                             metadata : 1..MaxWord, platforms : Nat]
      BY <2>1, LimitsAreWords DEF IntakeTypeOK
    <2>3. IntakeTypeOK'
      BY <2>1, <2>2 DEF IntakeTypeOK, clientIntakeVars, readerVars
    <2>4. PolicyIsValid'
      BY <2>1 DEF PolicyIsValid, Reading
    <2>5. NothingRead' /\ CountersAreExact'
      BY <1>1, <2>1 DEF LoadConfig, NothingRead, CountersAreExact, Reading, readerVars
    <2> QED BY <2>3, <2>4, <2>5
  <1>2. ASSUME NEW r \in AllRequests, SendRequest(r) \/ FetchPolicy(r)
        PROVE  IntakeInv'
    <2>1. /\ phase = "serving" /\ phase' \in {"receiving", "fetched", "gave up"} /\ parts' = r
          /\ UNCHANGED <<limitVars, prepared, picked, tally, readerVars>>
      BY <1>2 DEF SendRequest, FetchPolicy
    <2>2. part = 0 /\ unread = 0 /\ staged = 0 /\ largest = 0 /\ total = 0
      BY <2>1 DEF NothingRead, Reading
    <2>3. part' \in 0..Len(parts')
      <3>1. Len(parts') \in Nat /\ part' = 0
        BY <2>1, <2>2, RequestParts DEF readerVars
      <3> QED BY <3>1
    <2>4. IntakeTypeOK'
      <3> HIDE DEF IntakeInv
      <3>1. IntakeTypeOK
        BY DEF IntakeInv
      <3> QED BY <2>1, <2>3, <3>1 DEF IntakeTypeOK, limitVars, readerVars
    <2>5. PolicyIsValid'
      BY <2>1 DEF PolicyIsValid, Reading, limitVars
    <2>6. NothingRead'
      BY <2>1, <2>2 DEF NothingRead, Reading, readerVars
    <2>7. CountersAreExact'
      <3>0. policy.artifact \in Nat /\ policy.total \in Nat
        <4>1. phase \in {"serving", "fetched"} \cup Reading
          BY <2>1
        <4> HIDE DEF IntakeInv
        <4> QED BY <4>1, LimitsInForce
      <3>1. 0 <= policy.artifact /\ 0 <= policy.total
        BY <3>0
      <3>2. /\ staged' = 0 /\ total' = 0 /\ largest' = 0 /\ ~(part' > 0)
            /\ 0 <= policy'.artifact /\ 0 <= policy'.total
        <4>1. policy' = policy
          BY <2>1 DEF limitVars
        <4>2. staged' = staged /\ total' = total /\ largest' = largest /\ part' = part
          BY <2>1 DEF readerVars
        <4> HIDE DEF IntakeInv
        <4>3. part' = 0 /\ staged' = 0 /\ total' = 0 /\ largest' = 0
          BY <2>2, <4>2
        <4> QED BY <3>1, <4>1, <4>3
      <3> HIDE DEF IntakeInv
      <3> QED BY <3>2 DEF CountersAreExact
    <2> QED BY <2>4, <2>5, <2>6, <2>7
  <1>3. CASE PickArtifact \/ Upload
    <2>1. /\ phase = "fetched" /\ phase' \in {"fetched", "receiving", "gave up"}
          /\ UNCHANGED <<limitVars, parts, readerVars>>
      BY <1>3 DEF PickArtifact, Upload
    <2>2. prepared' \in BOOLEAN /\ picked' \in Nat /\ tally' \in 0..MaxWord
      <3>1. CASE Upload
        BY <3>1 DEF Upload, IntakeTypeOK
      <3>2. CASE PickArtifact
        <4> DEFINE next == parts[picked + 2].size
        <4>1. /\ picked < Len(parts) - 1 /\ tally' = Add(tally, next)
              /\ picked' = picked + 1 \/ picked' = picked
              /\ prepared' = prepared
          BY <3>2 DEF PickArtifact
        <4>2. /\ Len(parts) \in Nat /\ picked \in Nat /\ tally \in Nat
              /\ parts \notin AllRequests => Len(parts) = 0
          BY NumbersOfState
        <4>3. parts \in AllRequests /\ picked + 2 \in 1..Len(parts)
          BY <4>1, <4>2
        <4>4. next \in Nat
          BY <4>3, RequestParts, PartTypes
        <4> HIDE DEF next
        <4>5. tally' \in 0..MaxWord
          BY <4>1, <4>2, <4>4, SumsAreWords
        <4>6. picked' \in Nat
          BY <4>1, <4>2
        <4>7. prepared' \in BOOLEAN
          BY <4>1 DEF IntakeTypeOK
        <4> QED BY <4>5, <4>6, <4>7
      <3> QED BY <1>3, <3>1, <3>2
    <2>3. IntakeTypeOK'
      BY <2>1, <2>2 DEF IntakeTypeOK, limitVars, readerVars
    <2>4. PolicyIsValid'
      BY <2>1 DEF PolicyIsValid, Reading, limitVars
    <2>5. NothingRead'
      BY <2>1 DEF NothingRead, Reading, readerVars
    <2>6. CountersAreExact'
      <3>0. policy.artifact \in Nat /\ policy.total \in Nat
        <4>1. phase \in {"serving", "fetched"} \cup Reading
          BY <2>1
        <4> HIDE DEF IntakeInv
        <4> QED BY <4>1, LimitsInForce
      <3>1. 0 <= policy.artifact /\ 0 <= policy.total
        BY <3>0
      <3>2. part = 0 /\ total = 0 /\ staged = 0 /\ largest = 0
        BY <2>1 DEF NothingRead, Reading
      <3>3. /\ staged' = 0 /\ total' = 0 /\ largest' = 0 /\ ~(part' > 0)
            /\ 0 <= policy'.artifact /\ 0 <= policy'.total
        <4>1. policy' = policy
          BY <2>1 DEF limitVars
        <4>2. staged' = staged /\ total' = total /\ largest' = largest /\ part' = part
          BY <2>1 DEF readerVars
        <4> HIDE DEF IntakeInv
        <4>3. part' = 0 /\ staged' = 0 /\ total' = 0 /\ largest' = 0
          BY <3>2, <4>2
        <4> QED BY <3>1, <4>1, <4>3
      <3> HIDE DEF IntakeInv
      <3> QED BY <3>3 DEF CountersAreExact
    <2> QED BY <2>3, <2>4, <2>5, <2>6
  <1> QED BY <1>1, <1>2, <1>3

LEMMA BeginKeeps ==
  ASSUME IntakeInv, BeginPart
  PROVE  IntakeInv'
  <1> USE DEF IntakeInv
  <1>1. CASE RefuseUpload
    BY <1>1, RefuseKeeps
  <1>2. CASE ~RefuseUpload
    <2>1. /\ phase = "receiving" /\ part < Len(parts) /\ part' = part + 1
          /\ unread' = NextPart.size /\ size' = 0 /\ body' = body + Overhead
          /\ files' = IF NextPart.kind = "metadata" THEN files
                      ELSE [f \in DOMAIN files \cup {NextPart.name} |->
                              IF f \in DOMAIN files THEN files[f] ELSE 0]
          /\ needs' = IF NextPart.kind = "metadata" THEN <<NextPart.needs>> ELSE needs
          /\ UNCHANGED <<phase, config, policy, parts, prepared, picked, tally, total, staged, largest>>
      BY <1>2 DEF BeginPart, limitVars, clientIntakeVars
    <2>2. parts \in AllRequests /\ NextPart \in Artifacts \cup Metadata
      BY <2>1, PartAtHand
    <2>3. /\ Len(parts) \in Nat /\ NextPart.size \in Nat /\ MaxWord \in Nat /\ Overhead \in Nat
          /\ NextPart.kind = "metadata" => NextPart.needs \in SUBSET Names
          /\ NextPart.kind # "metadata" => NextPart.name \in Names
      BY <2>2, RequestParts, PartTypes, IntakeAssumption
    <2>4. \A f \in DOMAIN files' : f \in Names /\ files'[f] \in 0..MaxWord
      <3>1. \A f \in DOMAIN files : f \in Names /\ files[f] \in 0..MaxWord
        BY DEF IntakeTypeOK
      <3>2. 0 \in 0..MaxWord
        BY <2>3
      <3>3. CASE NextPart.kind = "metadata"
        BY <2>1, <3>1, <3>3
      <3>4. CASE NextPart.kind # "metadata"
        <4> DEFINE x == NextPart.name
        <4>1. /\ x \in Names
              /\ files' = [f \in DOMAIN files \cup {x} |-> IF f \in DOMAIN files THEN files[f] ELSE 0]
          BY <2>1, <2>3, <3>4
        <4> HIDE DEF x
        <4> QED BY <3>1, <3>2, <4>1
      <3> QED BY <3>3, <3>4
    <2>5. Len(needs') <= 1 /\ Range(needs') \subseteq SUBSET Names
      <3>1. Len(needs) <= 1 /\ Range(needs) \subseteq SUBSET Names
        BY DEF IntakeTypeOK
      <3> HIDE DEF IntakeInv
      <3>2. CASE NextPart.kind = "metadata"
        <4> DEFINE named == NextPart.needs
        <4>1. needs' = <<named>> /\ named \in SUBSET Names
          BY <2>1, <2>3, <3>2
        <4> HIDE DEF named
        <4>2. Len(<<named>>) = 1 /\ Range(<<named>>) = {named}
          BY DEF Range
        <4> QED BY <4>1, <4>2
      <3>3. CASE NextPart.kind # "metadata"
        BY <2>1, <3>1, <3>3
      <3> QED BY <3>2, <3>3
    <2>6. IntakeTypeOK'
      <3>1. part' \in 0..Len(parts') /\ unread' \in Nat /\ body' \in Nat /\ size' \in 0..MaxWord
        <4>1. part \in Nat /\ body \in Nat
          BY NumbersOfState
        <4> QED BY <2>1, <2>3, <4>1
      <3> HIDE DEF IntakeInv
      <3>2. IntakeTypeOK
        BY DEF IntakeInv
      <3> QED BY <2>1, <2>4, <2>5, <3>1, <3>2 DEF IntakeTypeOK
    <2>7. PolicyIsValid' /\ NothingRead'
      BY <2>1 DEF PolicyIsValid, NothingRead, Reading, IntakeTypeOK
    <2>8. CountersAreExact'
      <3>1. staged = total /\ total <= policy.total /\ largest <= policy.artifact
        BY <2>1 DEF CountersAreExact, Reading
      <3> HIDE DEF IntakeInv
      <3>2. NextPart.size = parts'[part'].size
        BY <2>1 DEF NextPart
      <3>3. size' + unread' = parts'[part'].size
        BY <2>1, <2>3, <3>2
      <3> QED BY <2>1, <3>1, <3>3 DEF CountersAreExact
    <2> QED BY <2>6, <2>7, <2>8
  <1> QED BY <1>1, <1>2

(* Every chunk is counted exactly and looked at before it is written.      *)
LEMMA ReadKeeps ==
  ASSUME IntakeInv, NEW n \in Chunks, ReadChunk(n)
  PROVE  IntakeInv'
  <1> USE DEF IntakeInv
  <1>1. CASE RefuseUpload
    BY <1>1, RefuseKeeps
  <1>2. CASE ~RefuseUpload
    <2>1. /\ phase = "receiving" /\ part > 0 /\ n <= unread /\ ~TooLarge(n)
          /\ unread' = unread - n /\ body' = body + n /\ size' = Add(size, n)
          /\ UNCHANGED <<phase, config, policy, parts, prepared, picked, tally, part, needs>>
      BY <1>2 DEF ReadChunk, Stops, limitVars, clientIntakeVars
    <2>2. parts \in AllRequests /\ parts[part] \in Artifacts \cup Metadata
      BY <2>1, PartAtHand
    <2>3. /\ n \in Nat /\ size \in Nat /\ total \in Nat /\ MaxWord \in Nat /\ unread \in Nat
          /\ body \in Nat /\ staged \in Nat /\ largest \in Nat
      BY NumbersOfState, IntakeAssumption
    <2>4. /\ policy.artifact \in Nat /\ policy.total \in Nat /\ policy.metadata \in Nat
          /\ policy.artifact < MaxWord /\ policy.total < MaxWord /\ policy.metadata < MaxWord
      BY <2>1, LimitsInForce DEF Reading
    <2>a. Add(size, n) \in 0..MaxWord /\ Add(total, n) \in 0..MaxWord
      BY <2>3, SumsAreWords
    <2>b. \A limit \in Nat : limit < MaxWord =>
            /\ Add(size, n) <= limit => Add(size, n) = size + n
            /\ Add(total, n) <= limit => Add(total, n) = total + n
      <3>1. \A limit \in Nat : limit < MaxWord => limit \in 0..(MaxWord - 1)
        BY <2>3
      <3> HIDE DEF IntakeInv
      <3> QED BY <2>3, <3>1, SumsAreWords
    <2>c. unread' \in Nat /\ body' \in Nat /\ size' \in 0..MaxWord
      BY <2>1, <2>3, <2>a
    <2>5. /\ staged = total /\ total <= policy.total /\ largest <= policy.artifact
          /\ size + unread = parts[part].size
      BY <2>1 DEF CountersAreExact, Reading
    <2>6. size' = size + n
      <3>1. Add(size, n) <= policy.metadata \/ Add(size, n) <= policy.artifact
        BY <2>1, <2>3, <2>4, <2>a DEF TooLarge
      <3> QED BY <2>1, <2>4, <2>b, <3>1
    <2>7. CASE parts[part].kind = "metadata"
      <3>1. UNCHANGED <<total, files, staged, largest>>
        BY <1>2, <2>7 DEF ReadChunk
      <3>2. IntakeTypeOK'
        <4> HIDE DEF IntakeInv
        <4>1. IntakeTypeOK
          BY DEF IntakeInv
        <4> QED BY <2>1, <2>c, <3>1, <4>1 DEF IntakeTypeOK
      <3>3. PolicyIsValid' /\ NothingRead'
        BY <2>1, <3>1 DEF PolicyIsValid, NothingRead, Reading
      <3>4. CountersAreExact'
        BY <2>1, <2>3, <2>5, <2>6, <3>1 DEF CountersAreExact
      <3> QED BY <3>2, <3>3, <3>4
    <2>8. CASE parts[part].kind # "metadata"
      <3>1. /\ total' = Add(total, n) /\ staged' = staged + n
            /\ files' = [files EXCEPT ![parts[part].name] = Add(size, n)]
            /\ largest' = Larger(largest, parts[part].size - unread')
        BY <1>2, <2>8 DEF ReadChunk
      <3>2. /\ Add(size, n) <= policy.artifact /\ Add(total, n) <= policy.total
        BY <2>1, <2>3, <2>4, <2>8, <2>a DEF TooLarge
      <3>3. total' = total + n
        BY <2>4, <2>b, <3>1, <3>2
      <3>4. parts[part].size - unread' = size'
        BY <2>1, <2>2, <2>3, <2>5, <2>6, PartTypes
      <3>5. largest' \in Nat /\ largest' <= policy.artifact
        BY <2>1, <2>3, <2>4, <2>5, <2>6, <3>1, <3>2, <3>4 DEF Larger
      <3>6. \A f \in DOMAIN files' : f \in Names /\ files'[f] \in 0..MaxWord
        BY <2>a, <3>1 DEF IntakeTypeOK
      <3>7. IntakeTypeOK'
        <4>1. staged' \in Nat /\ total' \in 0..MaxWord
          BY <2>3, <2>a, <3>1
        <4> HIDE DEF IntakeInv
        <4>2. IntakeTypeOK
          BY DEF IntakeInv
        <4> QED BY <2>1, <2>c, <3>5, <3>6, <4>1, <4>2 DEF IntakeTypeOK
      <3>8. PolicyIsValid' /\ NothingRead'
        BY <2>1 DEF PolicyIsValid, NothingRead, Reading
      <3>9. CountersAreExact'
        BY <2>1, <2>3, <2>5, <2>6, <3>1, <3>2, <3>3, <3>5 DEF CountersAreExact
      <3> QED BY <3>7, <3>8, <3>9
    <2> QED BY <2>7, <2>8
  <1> QED BY <1>1, <1>2

LEMMA EndKeeps ==
  ASSUME IntakeInv, EndOfBody
  PROVE  IntakeInv'
  <1>1. CASE RefuseUpload
    BY <1>1, RefuseKeeps
  <1>2. CASE ~RefuseUpload
    <2>1. /\ phase = "receiving" /\ phase' = "accepted"
          /\ UNCHANGED <<limitVars, clientIntakeVars, readerVars>>
      BY <1>2 DEF EndOfBody
    <2> QED BY <2>1 DEF IntakeInv, IntakeTypeOK, PolicyIsValid, NothingRead, CountersAreExact, Reading,
               limitVars, clientIntakeVars, readerVars
  <1> QED BY <1>1, <1>2
-----------------------------------------------------------------------------
(* The results                                                             *)

(* Every reachable state of an intake satisfies the invariant.             *)
THEOREM IntakeInvariant == IntakeSpec => []IntakeInv
  <1>1. IntakeInit => IntakeInv
    <2>1. SUFFICES ASSUME IntakeInit PROVE IntakeInv
      OBVIOUS
    <2> USE DEF IntakeInit
    <2>2. IntakeTypeOK
      <3>1. Len(<<>>) = 0 /\ DOMAIN <<>> = {}
        OBVIOUS
      <3>2. Range(<<>>) = {}
        BY <3>1 DEF Range
      <3>3. 0 \in 0..MaxWord /\ 0 \in 0..Len(<<>>) /\ 0 \in Nat
        BY <3>1, IntakeAssumption
      <3>4. Len(needs) <= 1 /\ Range(needs) \subseteq SUBSET Names
        BY <2>1, <3>1, <3>2
      <3>5. \A f \in DOMAIN files : f \in Names /\ files[f] \in 0..MaxWord
        BY <2>1, <3>1
      <3>6. /\ part \in 0..Len(parts) /\ unread \in Nat /\ size \in 0..MaxWord
            /\ total \in 0..MaxWord /\ picked \in Nat /\ tally \in 0..MaxWord
            /\ body \in Nat /\ staged \in Nat /\ largest \in Nat
        BY <2>1, <3>3
      <3>7. phase = "configured" /\ config \in Configs /\ policy = NoPolicy /\ parts = <<>> /\ prepared = FALSE
        BY <2>1
      <3> HIDE DEF IntakeInit
      <3> QED BY <3>4, <3>5, <3>6, <3>7 DEF IntakeTypeOK
    <2> QED BY <2>1, <2>2 DEF IntakeInv, PolicyIsValid, NothingRead, CountersAreExact, Reading
  <1>2. IntakeInv /\ [IntakeNext]_intakeVars => IntakeInv'
    <2>1. SUFFICES ASSUME IntakeInv, [IntakeNext]_intakeVars PROVE IntakeInv'
      OBVIOUS
    <2>2. CASE UNCHANGED intakeVars
      BY <2>1, <2>2 DEF IntakeInv, IntakeTypeOK, PolicyIsValid, NothingRead, CountersAreExact,
                        intakeVars, limitVars, clientIntakeVars, readerVars
    <2> QED BY <2>1, <2>2, ClientKeeps, BeginKeeps, ReadKeeps, EndKeeps DEF IntakeNext
  <1> QED BY <1>1, <1>2, PTL DEF IntakeSpec

(* Type correctness of policy, client and reader, every counter a word.    *)
THEOREM IntakeTypeCorrect == IntakeSpec => []IntakeTypeOK
  BY IntakeInvariant, PTL DEF IntakeInv

(* Whatever limits the operator chose and whatever a client sends, no sum of*)
(* read_release_multipart wraps or saturates unseen: the staging directory *)
(* keeps to the limits of the configuration.                               *)
THEOREM StagingIsBounded == IntakeSpec => []StagedWithinLimits
  <1>1. IntakeInv => StagedWithinLimits
    <2>1. SUFFICES ASSUME IntakeInv PROVE StagedWithinLimits
      OBVIOUS
    <2>2. CASE phase \in Reading
      BY <2>1, <2>2 DEF IntakeInv, PolicyIsValid, CountersAreExact, StagedWithinLimits, PolicyOf
    <2>3. CASE phase \notin Reading
      BY <2>1, <2>3 DEF IntakeInv, NothingRead, StagedWithinLimits
    <2> QED BY <2>2, <2>3
  <1> QED BY <1>1, IntakeInvariant, PTL
-----------------------------------------------------------------------------
(* What the client and the server agree on.                                *)

(* What each part adds to the body.                                        *)
Framed(s) == [i \in DOMAIN s |-> s[i].size + Overhead]

(* What each part adds to the artifacts.                                   *)
Payload(s) == [i \in DOMAIN s |-> IF s[i].kind = "artifact" THEN s[i].size ELSE 0]

(* The request the client prepares: the metadata, then the artifacts it    *)
(* names.                                                                  *)
Orderly(s) ==
  /\ s[1].kind = "metadata"
  /\ \A i, j \in 2..Len(s) : s[i].kind = "artifact" /\ (s[i].name = s[j].name => i = j)
  /\ s[1].needs = {s[i].name : i \in 2..Len(s)}

(* Nothing is read before the first part, and no staged file is larger     *)
(* than the policy allows.                                                 *)
ReadSoFar ==
  /\ part = 0 => body = 0 /\ DOMAIN files = {} /\ needs = <<>>
  /\ phase \in Reading => \A f \in DOMAIN files : files[f] <= policy.artifact

(* The client has prepared an orderly request: its total is the sum of the *)
(* artifacts it has picked, and each keeps to the policy.                  *)
ClientCounts ==
  /\ phase \notin Reading \cup {"refused", "gave up"} => ~prepared
  /\ phase \in {"configured", "serving"} => picked = 0 /\ tally = 0
  /\ phase = "fetched" \/ (prepared /\ phase \in Reading) =>
       /\ parts \in AllRequests /\ Orderly(parts) /\ Len(parts) - 1 \in 1..policy.platforms
       /\ picked <= Len(parts) - 1
       /\ tally = FirstTotal(Payload(parts), picked + 1) /\ tally <= policy.total
       /\ \A i \in 2..(picked + 1) : parts[i].size <= policy.artifact
  /\ prepared /\ phase \in Reading => picked = Len(parts) - 1 /\ parts[1].size <= policy.metadata

(* What the server has counted of a prepared request: the body and the     *)
(* artifacts up to the part it reads, a file for each of these, and the    *)
(* fields the metadata names.                                              *)
ServerCounts ==
  prepared /\ phase \in Reading =>
    /\ body + unread = FirstTotal(Framed(parts), part)
    /\ total + (IF part > 1 THEN unread ELSE 0) = FirstTotal(Payload(parts), part)
    /\ DOMAIN files = {parts[i].name : i \in 2..part}
    /\ part > 0 => needs = <<parts[1].needs>>

(* The inductive invariant of client and server together.                  *)
AgreementInv == IntakeInv /\ ReadSoFar /\ ClientCounts /\ ServerCounts /\ PreparedUploadsFit
-----------------------------------------------------------------------------
(* Every step leaves them in agreement.                                    *)

(* The sums over the parts of a request.                                   *)
LEMMA PartsAdd ==
  ASSUME NEW s \in AllRequests
  PROVE  /\ Len(s) \in Nat \ {0} /\ DOMAIN s = 1..Len(s)
         /\ Framed(s) \in [1..Len(s) -> Nat] /\ Payload(s) \in [1..Len(s) -> Nat]
         /\ BytesOf(s) = FirstTotal(Framed(s), Len(s))
         /\ \A i \in 1..Len(s) : s[i].size \in Nat
         /\ FirstTotal(Framed(s), 0) = 0 /\ FirstTotal(Payload(s), 0) = 0
         /\ \A n \in 0..(Len(s) - 1) :
              /\ FirstTotal(Framed(s), n + 1) = FirstTotal(Framed(s), n) + s[n + 1].size + Overhead
              /\ FirstTotal(Payload(s), n + 1)
                   = FirstTotal(Payload(s), n) + (IF s[n + 1].kind = "artifact" THEN s[n + 1].size ELSE 0)
         /\ \A n \in 0..Len(s) :
              /\ FirstTotal(Framed(s), n) \in Nat /\ FirstTotal(Framed(s), n) <= BytesOf(s)
              /\ FirstTotal(Payload(s), n) \in Nat /\ FirstTotal(Payload(s), n) <= FirstTotal(Payload(s), Len(s))
  <1>1. Len(s) \in Nat \ {0} /\ DOMAIN s = 1..Len(s)
    <2>1. PICK n \in 1..MaxParts : s \in [1..n -> Artifacts \cup Metadata]
      BY DEF AllRequests, RequestsOf
    <2>2. n \in Nat \ {0}
      BY <2>1, IntakeAssumption
    <2>3. s \in Seq(Artifacts \cup Metadata)
      BY <2>1, <2>2, SeqDef
    <2> QED BY <2>1, <2>2, <2>3, LenProperties
  <1>2. \A i \in 1..Len(s) : s[i].size \in Nat
    BY RequestParts, PartTypes
  <1>3. Overhead \in Nat
    BY IntakeAssumption
  <1> DEFINE N == Len(s)
             f == Framed(s)
             g == Payload(s)
  <1>4. /\ f \in [1..N -> Nat] /\ g \in [1..N -> Nat]
        /\ \A i \in 1..N : f[i] = s[i].size + Overhead /\ g[i] = IF s[i].kind = "artifact" THEN s[i].size ELSE 0
    BY <1>1, <1>2, <1>3 DEF Framed, Payload
  <1>5. BytesOf(s) = FirstTotal(f, N)
    <2>1. [i \in 1..N |-> f[i]] = [i \in DOMAIN s |-> s[i].size + Overhead]
      BY <1>1, <1>4
    <2> QED BY <2>1 DEF BytesOf, FirstTotal, Total
  <1>n. N \in Nat /\ \A n \in 0..(N - 1) : n + 1 \in 1..N
    BY <1>1
  <1> HIDE DEF f, g, N
  <1>6. /\ FirstTotal(f, 0) = 0
        /\ \A n \in 0..(N - 1) : FirstTotal(f, n + 1) = FirstTotal(f, n) + f[n + 1]
        /\ \A n \in 0..N : FirstTotal(f, n) \in Nat /\ FirstTotal(f, n) <= FirstTotal(f, N)
    BY <1>n, <1>4, FirstTotals
  <1>7. /\ FirstTotal(g, 0) = 0
        /\ \A n \in 0..(N - 1) : FirstTotal(g, n + 1) = FirstTotal(g, n) + g[n + 1]
        /\ \A n \in 0..N : FirstTotal(g, n) \in Nat /\ FirstTotal(g, n) <= FirstTotal(g, N)
    BY <1>n, <1>4, FirstTotals
  <1>8. ASSUME NEW n \in 0..(N - 1)
        PROVE  /\ FirstTotal(f, n + 1) = FirstTotal(f, n) + s[n + 1].size + Overhead
               /\ FirstTotal(g, n + 1) = FirstTotal(g, n) + (IF s[n + 1].kind = "artifact" THEN s[n + 1].size ELSE 0)
    <2>1. n + 1 \in 1..N /\ n \in 0..N
      BY <1>n
    <2>2. FirstTotal(f, n) \in Nat /\ s[n + 1].size \in Nat
      BY <1>2, <1>6, <2>1 DEF N
    <2> QED BY <1>3, <1>4, <1>6, <1>7, <2>1, <2>2
  <1> QED BY <1>1, <1>2, <1>4, <1>5, <1>6, <1>7, <1>8 DEF f, g, N

(* All of a prepared request.                                              *)
LEMMA OrderlyBytes ==
  ASSUME NEW s \in AllRequests, Orderly(s)
  PROVE  /\ BytesOf(s) = s[1].size + FirstTotal(Payload(s), Len(s)) + Len(s) * Overhead
         /\ FirstTotal(Payload(s), 1) = 0
  <1> DEFINE F(n) == FirstTotal(Framed(s), n)
             G(n) == FirstTotal(Payload(s), n)
             N == Len(s)
  <1>1. /\ N \in Nat \ {0} /\ F(0) = 0 /\ G(0) = 0 /\ BytesOf(s) = F(N)
        /\ \A i \in 1..N : s[i].size \in Nat
        /\ \A n \in 0..(N - 1) :
             /\ F(n + 1) = F(n) + s[n + 1].size + Overhead
             /\ G(n + 1) = G(n) + (IF s[n + 1].kind = "artifact" THEN s[n + 1].size ELSE 0)
        /\ \A n \in 0..N : F(n) \in Nat /\ G(n) \in Nat
    BY PartsAdd
  <1>2. Overhead \in Nat
    BY IntakeAssumption
  <1>3. s[1].kind = "metadata" /\ \A i \in 2..N : s[i].kind = "artifact"
    BY DEF Orderly
  <1> HIDE DEF F, G, N
  <1>4. G(1) = 0 /\ F(1) = s[1].size + Overhead
    <2>1. 0 \in 0..(N - 1) /\ 0 + 1 = 1 /\ 1 \in 1..N
      BY <1>1
    <2>2. /\ F(0 + 1) = F(0) + s[0 + 1].size + Overhead
          /\ G(0 + 1) = G(0) + (IF s[0 + 1].kind = "artifact" THEN s[0 + 1].size ELSE 0)
      BY <1>1, <2>1
    <2>3. s[1].size \in Nat
      BY <1>1, <2>1
    <2> QED BY <1>1, <1>2, <1>3, <2>1, <2>2, <2>3
  <1> DEFINE S == {n \in 0..(N - 1) : F(n + 1) = s[1].size + G(n + 1) + (n + 1) * Overhead}
  <1>5. 0 \in S
    <2>1. s[1].size \in Nat /\ (0 + 1) * Overhead = Overhead /\ 0 \in 0..(N - 1)
      BY <1>1, <1>2
    <2> QED BY <1>2, <1>4, <2>1
  <1>6. ASSUME NEW n \in 0..((N - 1) - 1), n \in S PROVE n + 1 \in S
    <2>1. /\ n + 1 \in 0..(N - 1) /\ (n + 1) + 1 \in 2..N /\ n + 1 \in 0..N /\ (n + 1) + 1 \in 1..N /\ 1 \in 1..N
          /\ (n + 1) + 1 \in 0..N
      BY <1>1
    <2>2. /\ F((n + 1) + 1) = F(n + 1) + s[(n + 1) + 1].size + Overhead
          /\ G((n + 1) + 1) = G(n + 1) + s[(n + 1) + 1].size
      BY <1>1, <1>3, <2>1
    <2>3. /\ F(n + 1) \in Nat /\ G(n + 1) \in Nat /\ s[(n + 1) + 1].size \in Nat /\ s[1].size \in Nat
      BY <1>1, <2>1
    <2>4. F(n + 1) = s[1].size + G(n + 1) + (n + 1) * Overhead
      BY <1>6
    <2>5. ((n + 1) + 1) * Overhead = (n + 1) * Overhead + Overhead /\ (n + 1) * Overhead \in Nat
      BY <1>2
    <2>6. F((n + 1) + 1) = s[1].size + G((n + 1) + 1) + ((n + 1) + 1) * Overhead
      BY <1>2, <2>2, <2>3, <2>4, <2>5
    <2> QED BY <2>1, <2>6
  <1> HIDE DEF S
  <1>7. N - 1 \in Nat
    BY <1>1
  <1>8. 0..(N - 1) \subseteq S
    BY <1>5, <1>6, <1>7, UpTo
  <1>9. N - 1 \in S /\ (N - 1) + 1 = N
    <2>1. N - 1 \in 0..(N - 1) /\ (N - 1) + 1 = N
      BY <1>1, <1>7
    <2> QED BY <1>8, <2>1
  <1>10. F(N) = s[1].size + G(N) + N * Overhead
    BY <1>9 DEF S
  <1> QED BY <1>1, <1>4, <1>10 DEF F, G, N

(* A refusal changes nothing that the client and the server agree on.      *)
LEMMA RefusalLeaves ==
  ASSUME AgreementInv, RefuseUpload, phase = "receiving",
         prepared => Len(parts) * Overhead > Mebi \/ BytesOf(parts) > MaxWord
  PROVE  ReadSoFar' /\ ClientCounts' /\ ServerCounts' /\ PreparedUploadsFit'
  <1>1. /\ phase' = "refused"
        /\ UNCHANGED <<config, policy, parts, prepared, picked, tally, part, unread, size, total, files, needs, body>>
    BY DEF RefuseUpload, limitVars, clientIntakeVars
  <1>2. ReadSoFar'
    BY <1>1 DEF AgreementInv, ReadSoFar, Reading
  <1>3. ClientCounts' /\ ServerCounts'
    BY <1>1 DEF ClientCounts, ServerCounts, Reading
  <1>4. PreparedUploadsFit'
    BY <1>1 DEF PreparedUploadsFit
  <1> QED BY <1>2, <1>3, <1>4

(* What a prepared request comes to, and that the body limit leaves room for it.*)
LEMMA PreparedNumbers ==
  ASSUME AgreementInv, prepared, phase = "receiving"
  PROVE  /\ parts \in AllRequests /\ Orderly(parts) /\ Len(parts) \in Nat /\ Len(parts) >= 2
         /\ Len(parts) - 1 <= policy.platforms /\ policy.platforms \in Nat
         /\ part \in Nat /\ part <= Len(parts) /\ body \in Nat /\ unread \in Nat /\ total \in Nat /\ size \in Nat
         /\ policy.artifact \in Nat /\ policy.total \in Nat /\ policy.metadata \in Nat /\ Overhead \in Nat
         /\ parts[1].size \in Nat /\ parts[1].size <= policy.metadata /\ parts[1].kind = "metadata"
         /\ \A i \in 2..Len(parts) : /\ parts[i].kind = "artifact" /\ parts[i].size \in Nat
                                     /\ parts[i].size <= policy.artifact
         /\ \A n \in 0..Len(parts) : FirstTotal(Payload(parts), n) <= policy.total
         /\ Len(parts) * Overhead <= Mebi /\ BytesOf(parts) <= MaxWord =>
              \A n \in 0..Len(parts) : FirstTotal(Framed(parts), n) <= BodyLimit
  <1>1. /\ parts \in AllRequests /\ Orderly(parts) /\ Len(parts) - 1 \in 1..policy.platforms
        /\ picked = Len(parts) - 1 /\ parts[1].size <= policy.metadata
        /\ tally = FirstTotal(Payload(parts), picked + 1) /\ tally <= policy.total
        /\ \A i \in 2..(picked + 1) : parts[i].size <= policy.artifact
    BY DEF AgreementInv, ClientCounts, Reading
  <1>2. IntakeTypeOK /\ IntakeInv
    BY DEF AgreementInv, IntakeInv
  <1>3. /\ policy.artifact \in Nat /\ policy.total \in Nat /\ policy.metadata \in Nat
        /\ policy.artifact < MaxWord /\ policy.total < MaxWord /\ policy.metadata < MaxWord
    BY <1>2, LimitsInForce DEF Reading
  <1>4. policy.platforms \in Nat
    <2>1. config \in Configs /\ policy = PolicyOf(config)
      BY <1>2 DEF IntakeInv, IntakeTypeOK, PolicyIsValid, Reading
    <2>2. config.platforms \in Nat
      BY <2>1, IntakeAssumption
    <2> QED BY <2>1, <2>2 DEF PolicyOf
  <1>5. /\ Len(parts) \in Nat \ {0} /\ \A i \in 1..Len(parts) : parts[i].size \in Nat
        /\ \A n \in 0..Len(parts) :
             /\ FirstTotal(Framed(parts), n) \in Nat /\ FirstTotal(Framed(parts), n) <= BytesOf(parts)
             /\ FirstTotal(Payload(parts), n) \in Nat
             /\ FirstTotal(Payload(parts), n) <= FirstTotal(Payload(parts), Len(parts))
    BY <1>1, PartsAdd
  <1>6. picked + 1 = Len(parts) /\ Len(parts) >= 2 /\ Len(parts) - 1 <= policy.platforms
    BY <1>1, <1>4, <1>5
  <1>7. \A i \in 2..Len(parts) : parts[i].kind = "artifact" /\ parts[i].size \in Nat
                                 /\ parts[i].size <= policy.artifact
    <2>1. \A i \in 2..Len(parts) : i \in 1..Len(parts)
      BY <1>5
    <2> QED BY <1>1, <1>5, <1>6, <2>1 DEF Orderly
  <1>8. FirstTotal(Payload(parts), Len(parts)) <= policy.total
    BY <1>1, <1>6
  <1>p. Len(parts) \in 0..Len(parts) /\ 1 \in 1..Len(parts)
    BY <1>5
  <1>9. \A n \in 0..Len(parts) : FirstTotal(Payload(parts), n) <= policy.total
    BY <1>3, <1>5, <1>8, <1>p
  <1>10. ASSUME Len(parts) * Overhead <= Mebi, BytesOf(parts) <= MaxWord,
                NEW n \in 0..Len(parts)
         PROVE  FirstTotal(Framed(parts), n) <= BodyLimit
    <2> DEFINE whole == BytesOf(parts)
               payload == FirstTotal(Payload(parts), Len(parts))
               framing == Len(parts) * Overhead
    <2>1. whole = parts[1].size + payload + framing
      BY <1>1, OrderlyBytes
    <2>2. /\ payload \in Nat /\ payload <= policy.total /\ framing \in Nat /\ framing <= Mebi
          /\ parts[1].size \in Nat /\ MaxWord \in Nat /\ Mebi \in Nat /\ whole <= MaxWord
      <3>1. Overhead \in Nat /\ MaxWord \in Nat /\ Mebi \in Nat
        BY IntakeAssumption
      <3>2. framing \in Nat
        BY <1>5, <3>1
      <3> QED BY <1>5, <1>8, <1>10, <1>p, <3>1, <3>2
    <2>f. FirstTotal(Framed(parts), n) <= whole /\ FirstTotal(Framed(parts), n) \in Nat
      BY <1>5
    <2> HIDE DEF whole, payload, framing
    <2>3. BodyLimit = Capped(Capped(policy.total + policy.metadata) + Mebi)
      BY DEF BodyLimit, Add
    <2>4. whole <= policy.total + policy.metadata + Mebi /\ whole \in Nat
      <3>1. parts[1].size <= policy.metadata
        BY <1>1
      <3>2. payload \in Nat /\ framing \in Nat /\ parts[1].size \in Nat /\ Mebi \in Nat
        BY <2>2
      <3>3. payload <= policy.total /\ framing <= Mebi
        BY <2>2
      <3>4. whole \in Nat
        BY <2>1, <3>2
      <3> DEFINE d == parts[1].size
                 t == policy.total
                 m == policy.metadata
      <3>5. /\ d \in Nat /\ t \in Nat /\ m \in Nat /\ d <= m /\ payload <= t
            /\ whole = d + payload + framing
        BY <1>3, <2>1, <3>1, <3>2, <3>3
      <3> HIDE DEF d, t, m
      <3>6. whole <= t + m + Mebi
        BY <3>2, <3>3, <3>5
      <3> QED BY <3>4, <3>6 DEF t, m
    <2>5. whole <= BodyLimit /\ BodyLimit \in Nat
      <3>1. CASE policy.total + policy.metadata > MaxWord
        BY <1>3, <2>2, <2>3, <2>4, <3>1 DEF Capped
      <3>2. CASE ~(policy.total + policy.metadata > MaxWord)
        BY <1>3, <2>2, <2>3, <2>4, <3>2 DEF Capped
      <3> QED BY <3>1, <3>2
    <2> QED BY <2>4, <2>5, <2>f
  <1>11. /\ part \in Nat /\ part <= Len(parts) /\ body \in Nat /\ unread \in Nat /\ total \in Nat /\ size \in Nat
         /\ Overhead \in Nat
    BY <1>2, NumbersOfState
  <1>12. parts[1].kind = "metadata" /\ parts[1].size \in Nat
    BY <1>1, <1>5, <1>p DEF Orderly
  <1> QED BY <1>1, <1>3, <1>4, <1>5, <1>6, <1>7, <1>9, <1>10, <1>11, <1>12

(* The steps of the client.                                                *)
LEMMA ClientAgrees ==
  ASSUME AgreementInv,
         \/ LoadConfig \/ PickArtifact \/ Upload
         \/ \E r \in AllRequests : SendRequest(r) \/ FetchPolicy(r)
  PROVE  ReadSoFar' /\ ClientCounts' /\ ServerCounts' /\ PreparedUploadsFit'
  <1>i. IntakeInv /\ IntakeTypeOK /\ ReadSoFar /\ ClientCounts /\ NothingRead
    BY DEF AgreementInv, IntakeInv
  <1>1. CASE LoadConfig
    <2>1. /\ phase = "configured" /\ phase' \in {"serving", "refused config"}
          /\ UNCHANGED <<prepared, picked, tally, part, body, files, needs>>
      BY <1>1 DEF LoadConfig, clientIntakeVars, readerVars
    <2> QED BY <1>i, <2>1 DEF ReadSoFar, ClientCounts, ServerCounts, PreparedUploadsFit, Reading
  <1>2. ASSUME NEW r \in AllRequests, SendRequest(r)
        PROVE  ReadSoFar' /\ ClientCounts' /\ ServerCounts' /\ PreparedUploadsFit'
    <2>1. /\ phase = "serving" /\ phase' = "receiving"
          /\ UNCHANGED <<prepared, picked, tally, part, body, files, needs>>
      BY <1>2 DEF SendRequest, readerVars
    <2>2. part = 0
      BY <1>i, <2>1 DEF NothingRead, Reading
    <2> QED BY <1>i, <2>1, <2>2 DEF ReadSoFar, ClientCounts, ServerCounts, PreparedUploadsFit, Reading
  <1>3. ASSUME NEW r \in AllRequests, FetchPolicy(r)
        PROVE  ReadSoFar' /\ ClientCounts' /\ ServerCounts' /\ PreparedUploadsFit'
    <2>1. /\ phase = "serving" /\ phase' \in {"fetched", "gave up"} /\ parts' = r
          /\ UNCHANGED <<policy, prepared, picked, tally, part, body, files, needs>>
          /\ phase' = "fetched" => Len(r) - 1 \in 1..policy.platforms
      BY <1>3 DEF FetchPolicy, readerVars, limitVars
    <2>2. part = 0 /\ ~prepared /\ picked = 0 /\ tally = 0
      BY <1>i, <2>1 DEF NothingRead, Reading, ClientCounts
    <2>3. Orderly(r) /\ Len(r) \in Nat
      <3>1. Len(r) \in Nat \ {0} /\ r \in Seq(Artifacts \cup Metadata)
        <4>1. PICK n \in 1..MaxParts : r \in [1..n -> Artifacts \cup Metadata]
          BY DEF AllRequests, RequestsOf
        <4>2. n \in Nat \ {0}
          BY <4>1, IntakeAssumption
        <4> QED BY <4>1, <4>2, SeqDef, RequestParts
      <3>2. Head(r) = r[1]
        BY <3>1
      <3> QED BY <1>3, <3>1, <3>2 DEF FetchPolicy, Orderly
    <2>4. FirstTotal(Payload(r), 0 + 1) = 0
      BY <2>3, OrderlyBytes
    <2>5. policy.total \in Nat /\ policy.platforms \in Nat
      <3>1. config \in Configs /\ policy = PolicyOf(config)
        BY <1>i, <2>1 DEF IntakeTypeOK, IntakeInv, PolicyIsValid
      <3>2. config.platforms \in Nat
        BY <3>1, IntakeAssumption
      <3> QED BY <1>i, <2>1, <3>1, <3>2, LimitsInForce DEF PolicyOf
    <2>6. ClientCounts'
      <3>1. CASE phase' = "gave up"
        BY <2>1, <2>2, <3>1 DEF ClientCounts, Reading
      <3>2. CASE phase' = "fetched"
        <4>1. /\ parts' \in AllRequests /\ Orderly(parts') /\ Len(parts') - 1 \in 1..policy'.platforms
              /\ picked' <= Len(parts') - 1 /\ ~prepared'
              /\ tally' = FirstTotal(Payload(parts'), picked' + 1) /\ tally' <= policy'.total
              /\ \A i \in 2..(picked' + 1) : parts'[i].size <= policy'.artifact
          BY <2>1, <2>2, <2>3, <2>4, <2>5, <3>2
        <4> QED BY <3>2, <4>1 DEF ClientCounts, Reading
      <3> QED BY <2>1, <3>1, <3>2
    <2> QED BY <1>i, <2>1, <2>2, <2>6 DEF ReadSoFar, ServerCounts, PreparedUploadsFit, Reading
  <1>4. CASE PickArtifact
    <2> DEFINE n == parts[picked + 2].size
    <2>1. /\ phase = "fetched" /\ picked < Len(parts) - 1 /\ tally' = Add(tally, n)
          /\ \/ phase' = "gave up" /\ picked' = picked
             \/ phase' = "fetched" /\ picked' = picked + 1 /\ n <= policy.artifact /\ tally' <= policy.total
          /\ UNCHANGED <<policy, parts, prepared, part, body, files, needs>>
      <3>1. /\ phase = "fetched" /\ picked < Len(parts) - 1 /\ tally' = Add(tally, n)
            /\ IF n > policy.artifact \/ tally' > policy.total
                 THEN phase' = "gave up" /\ UNCHANGED picked
                 ELSE picked' = picked + 1 /\ UNCHANGED phase
            /\ UNCHANGED <<policy, parts, prepared, part, body, files, needs>>
        BY <1>4 DEF PickArtifact, limitVars, readerVars
      <3>2. /\ parts \in AllRequests /\ picked \in Nat /\ tally \in Nat /\ Len(parts) \in Nat
        BY <1>i, <3>1, NumbersOfState DEF ClientCounts
      <3>3. picked + 2 \in 1..Len(parts)
        <4> DEFINE k == Len(parts)
        <4>1. picked < k - 1 /\ picked \in Nat /\ k \in Nat
          BY <3>1, <3>2
        <4> HIDE DEF k
        <4>2. picked + 2 \in 1..k
          BY <4>1
        <4> QED BY <4>2 DEF k
      <3>4. n \in Nat
        BY <3>2, <3>3, PartsAdd
      <3>5. tally' \in Nat
        <4> HIDE DEF n
        <4>1. tally' \in 0..MaxWord
          BY <3>1, <3>2, <3>4, SumsAreWords
        <4> QED BY <4>1
      <3>6. policy.artifact \in Nat /\ policy.total \in Nat
        BY <1>i, <3>1, LimitsInForce
      <3> HIDE DEF n
      <3>7. n \in Nat /\ (~(n > policy.artifact \/ tally' > policy.total) => n <= policy.artifact /\ tally' <= policy.total)
        BY <3>4, <3>5, <3>6
      <3>8. CASE n > policy.artifact \/ tally' > policy.total
        BY <3>1, <3>8
      <3>9. CASE ~(n > policy.artifact \/ tally' > policy.total)
        BY <3>1, <3>7, <3>9
      <3> QED BY <3>8, <3>9
    <2>2. /\ ~prepared /\ parts \in AllRequests /\ Orderly(parts) /\ Len(parts) - 1 \in 1..policy.platforms
          /\ tally = FirstTotal(Payload(parts), picked + 1) /\ tally <= policy.total
          /\ \A i \in 2..(picked + 1) : parts[i].size <= policy.artifact
      BY <1>i, <2>1 DEF ClientCounts, Reading
    <2>3. ClientCounts'
      <3>1. CASE phase' = "gave up"
        BY <2>1, <2>2, <3>1 DEF ClientCounts, Reading
      <3>2. CASE phase' # "gave up"
        <4>1. /\ picked \in Nat /\ tally \in Nat /\ Len(parts) \in Nat
          BY <1>i, NumbersOfState
        <4>2. /\ picked + 2 \in 2..Len(parts) /\ picked + 2 \in 1..Len(parts) /\ (picked + 1) + 1 = picked + 2
              /\ picked + 1 \in 0..(Len(parts) - 1) /\ picked + 1 <= Len(parts) - 1
          <5> DEFINE k == Len(parts)
          <5>1. picked < k - 1 /\ picked \in Nat /\ k \in Nat
            BY <2>1, <4>1
          <5> HIDE DEF k
          <5>2. /\ picked + 2 \in 2..k /\ picked + 2 \in 1..k /\ (picked + 1) + 1 = picked + 2
                /\ picked + 1 \in 0..(k - 1) /\ picked + 1 <= k - 1
            BY <5>1
          <5> QED BY <5>2 DEF k
        <4>3. parts[picked + 2].kind = "artifact" /\ n \in Nat
          BY <2>2, <4>2, PartsAdd DEF Orderly
        <4>4. FirstTotal(Payload(parts), picked + 2) = FirstTotal(Payload(parts), picked + 1) + n
          <5>1. FirstTotal(Payload(parts), (picked + 1) + 1)
                  = FirstTotal(Payload(parts), picked + 1)
                    + (IF parts[(picked + 1) + 1].kind = "artifact" THEN parts[(picked + 1) + 1].size ELSE 0)
            BY <2>2, <4>2, PartsAdd
          <5> QED BY <4>2, <4>3, <5>1
        <4> HIDE DEF n
        <4>5. tally' = tally + n
          <5>1. policy.total \in 0..(MaxWord - 1)
            <6>1. policy.total \in Nat /\ policy.total < MaxWord /\ MaxWord \in Nat
              BY <1>i, <2>1, LimitsInForce, IntakeAssumption
            <6> QED BY <6>1
          <5>2. Add(tally, n) <= policy.total
            BY <2>1, <3>2
          <5> QED BY <2>1, <4>1, <4>3, <5>1, <5>2, SumsAreWords
        <4>6. \A i \in 2..(picked + 2) : parts[i].size <= policy.artifact
          <5>1. \A i \in 2..(picked + 2) : i \in 2..(picked + 1) \/ i = picked + 2
            BY <4>1
          <5> QED BY <2>1, <2>2, <3>2, <5>1 DEF n
        <4>7. /\ picked' = picked + 1 /\ picked' + 1 = picked + 2 /\ picked' <= Len(parts) - 1
              /\ phase' = "fetched" /\ tally' <= policy.total /\ ~prepared'
          <5>1. /\ picked' = picked + 1 /\ phase' = "fetched" /\ tally' <= policy.total /\ ~prepared'
            BY <2>1, <2>2, <3>2
          <5> QED BY <4>2, <5>1
        <4>8. tally' = FirstTotal(Payload(parts), picked' + 1)
          BY <2>2, <4>4, <4>5, <4>7
        <4> QED BY <2>1, <2>2, <4>6, <4>7, <4>8 DEF ClientCounts, Reading
      <3> QED BY <3>1, <3>2
    <2> QED BY <1>i, <2>1, <2>2, <2>3 DEF ReadSoFar, ServerCounts, PreparedUploadsFit, Reading
  <1>5. CASE Upload
    <2>1. /\ phase = "fetched" /\ picked = Len(parts) - 1 /\ phase' \in {"gave up", "receiving"}
          /\ UNCHANGED <<policy, parts, picked, tally, part, unread, total, body, files, needs>>
          /\ phase' = "gave up" => prepared' = prepared
          /\ phase' = "receiving" => ~(Head(parts).size > policy.metadata)
      BY <1>5 DEF Upload, limitVars, readerVars
    <2>2. /\ ~prepared /\ parts \in AllRequests /\ Orderly(parts) /\ Len(parts) - 1 \in 1..policy.platforms
          /\ picked <= Len(parts) - 1
          /\ tally = FirstTotal(Payload(parts), picked + 1) /\ tally <= policy.total
          /\ \A i \in 2..(picked + 1) : parts[i].size <= policy.artifact
          /\ part = 0 /\ unread = 0 /\ total = 0
      BY <1>i, <2>1 DEF ClientCounts, Reading, NothingRead
    <2>3. ClientCounts'
      <3>1. phase' = "receiving" => parts[1].size <= policy.metadata
        <4>1. Len(parts) \in Nat \ {0} /\ parts \in Seq(Artifacts \cup Metadata)
          <5>1. PICK n \in 1..MaxParts : parts \in [1..n -> Artifacts \cup Metadata]
            BY <2>2 DEF AllRequests, RequestsOf
          <5>2. n \in Nat \ {0}
            BY <5>1, IntakeAssumption
          <5> QED BY <2>2, <5>1, <5>2, SeqDef, RequestParts
        <4>2. Head(parts) = parts[1] /\ parts[1].size \in Nat
          BY <2>2, <4>1, PartsAdd
        <4>3. policy.metadata \in Nat
          BY <1>i, <2>1, LimitsInForce
        <4> QED BY <2>1, <4>2, <4>3
      <3> QED BY <2>1, <2>2, <3>1 DEF ClientCounts, Reading
    <2>4. ServerCounts'
      <3>1. body = 0 /\ DOMAIN files = {}
        BY <1>i, <2>2 DEF ReadSoFar
      <3>2. FirstTotal(Framed(parts), 0) = 0 /\ FirstTotal(Payload(parts), 0) = 0
        BY <2>2, PartsAdd
      <3>3. {parts[i].name : i \in 2..0} = {}
        OBVIOUS
      <3>e. parts' = parts /\ part' = 0 /\ unread' = 0 /\ total' = 0 /\ body' = 0 /\ files' = files
        BY <2>1, <2>2, <3>1
      <3>4. body' + unread' = FirstTotal(Framed(parts'), part')
        BY <3>e, <3>2
      <3>5. total' + (IF part' > 1 THEN unread' ELSE 0) = FirstTotal(Payload(parts'), part')
        BY <3>e, <3>2
      <3>6. DOMAIN files' = {parts'[i].name : i \in 2..part'} /\ ~(part' > 0)
        BY <3>e, <3>1, <3>3
      <3> QED BY <3>4, <3>5, <3>6 DEF ServerCounts
    <2> QED BY <1>i, <2>1, <2>2, <2>3, <2>4 DEF ReadSoFar, PreparedUploadsFit, Reading
  <1> QED BY <1>1, <1>2, <1>3, <1>4, <1>5

(* The names of the first parts are no more than the parts.                *)
LEMMA NamesOfParts ==
  ASSUME NEW s, NEW k \in Nat \ {0}
  PROVE  LET N == {s[i].name : i \in 2..k}
         IN  IsFiniteSet(N) /\ Cardinality(N) \in Nat /\ Cardinality(N) <= k - 1
  <1> DEFINE I == 2..k
             N == {s[i].name : i \in I}
             f == [i \in I |-> s[i].name]
  <1>1. IsFiniteSet(I) /\ Cardinality(I) = k - 1
    <2>1. CASE 2 <= k
      BY <2>1, FS_Interval
    <2>2. CASE k = 1
      <3>1. I = {}
        BY <2>2
      <3>2. IsFiniteSet({}) /\ Cardinality({}) = 0
        BY FS_EmptySet
      <3> QED BY <2>2, <3>1, <3>2
    <2> QED BY <2>1, <2>2
  <1> HIDE DEF I
  <1>2. f \in Surjection(I, N)
    BY DEF Surjection
  <1> HIDE DEF f, N
  <1>3. IsFiniteSet(N) /\ Cardinality(N) <= Cardinality(I)
    BY <1>1, <1>2, FS_Surjection
  <1>4. Cardinality(N) \in Nat /\ Cardinality(N) <= k - 1
    BY <1>1, <1>3, FS_CardinalityType
  <1> QED BY <1>3, <1>4 DEF N, I

(* The exception that PreparedUploadsFit makes, the other way round.       *)
LEMMA RoomForAll ==
  ASSUME AgreementInv, prepared, phase = "receiving",
         ~(Len(parts) * Overhead > Mebi \/ BytesOf(parts) > MaxWord)
  PROVE  Len(parts) * Overhead <= Mebi /\ BytesOf(parts) <= MaxWord
  <1>1. parts \in AllRequests /\ Len(parts) \in Nat /\ Overhead \in Nat
    BY PreparedNumbers
  <1>2. Len(parts) * Overhead \in Nat /\ Mebi \in Nat /\ MaxWord \in Nat
    BY <1>1, IntakeAssumption
  <1>3. BytesOf(parts) \in Nat
    <2>1. BytesOf(parts) = FirstTotal(Framed(parts), Len(parts)) /\ Len(parts) \in 0..Len(parts)
      BY <1>1, PartsAdd
    <2> QED BY <1>1, <2>1, PartsAdd
  <1> DEFINE k == Len(parts) * Overhead
             b == BytesOf(parts)
  <1>4. k \in Nat /\ b \in Nat /\ ~(k > Mebi \/ b > MaxWord)
    BY <1>2, <1>3
  <1> HIDE DEF k, b
  <1>5. k <= Mebi /\ b <= MaxWord
    BY <1>2, <1>4
  <1> QED BY <1>5 DEF k, b

(* No part of a prepared request is out of place, and the body limit       *)
(* leaves room for its framing.                                            *)
LEMMA BeginAgrees ==
  ASSUME AgreementInv, BeginPart
  PROVE  ReadSoFar' /\ ClientCounts' /\ ServerCounts' /\ PreparedUploadsFit'
  <1>i. IntakeInv /\ IntakeTypeOK /\ ReadSoFar /\ ClientCounts /\ ServerCounts /\ NothingRead
    BY DEF AgreementInv, IntakeInv
  <1>1. phase = "receiving" /\ unread = 0 /\ part < Len(parts) /\ part \in Nat /\ Len(parts) \in Nat
    BY <1>i, NumbersOfState DEF BeginPart
  <1>a. part + 1 \in 1..Len(parts) /\ part \in 0..(Len(parts) - 1) /\ part + 1 \in 0..Len(parts)
        /\ part \in 0..Len(parts) /\ (part + 1 = 1 <=> part = 0) /\ (part # 0 => part + 1 \in 2..Len(parts))
    <2> DEFINE k == Len(parts)
    <2>1. k \in Nat /\ part < k /\ part \in Nat
      BY <1>1
    <2> HIDE DEF k
    <2>2. part + 1 \in 1..k /\ part \in 0..(k - 1) /\ part + 1 \in 0..k
          /\ part \in 0..k /\ (part + 1 = 1 <=> part = 0) /\ (part # 0 => part + 1 \in 2..k)
      BY <2>1
    <2> QED BY <2>2 DEF k
  <1>s. ASSUME prepared
        PROVE  /\ parts \in AllRequests /\ Orderly(parts) /\ NextPart.size \in Nat
               /\ part = 0 => NextPart.kind = "metadata"
               /\ part # 0 => NextPart.kind = "artifact"
               /\ body = FirstTotal(Framed(parts), part) /\ total = FirstTotal(Payload(parts), part)
               /\ DOMAIN files = {parts[i].name : i \in 2..part}
               /\ part > 0 => needs = <<parts[1].needs>>
               /\ FirstTotal(Framed(parts), part + 1) = body + NextPart.size + Overhead
               /\ FirstTotal(Payload(parts), part + 1)
                    = total + (IF NextPart.kind = "artifact" THEN NextPart.size ELSE 0)
    <2>1. /\ parts \in AllRequests /\ Orderly(parts) /\ parts[1].kind = "metadata"
          /\ \A i \in 2..Len(parts) : parts[i].kind = "artifact"
          /\ body \in Nat /\ total \in Nat
      BY <1>1, <1>s, <1>i, PreparedNumbers
    <2>2. /\ body + unread = FirstTotal(Framed(parts), part)
          /\ total + (IF part > 1 THEN unread ELSE 0) = FirstTotal(Payload(parts), part)
          /\ DOMAIN files = {parts[i].name : i \in 2..part}
          /\ part > 0 => needs = <<parts[1].needs>>
      BY <1>1, <1>s, <1>i DEF ServerCounts, Reading
    <2>3. body = FirstTotal(Framed(parts), part) /\ total = FirstTotal(Payload(parts), part)
      <3>1. body + 0 = body /\ total + (IF part > 1 THEN 0 ELSE 0) = total
        BY <2>1
      <3> QED BY <1>1, <2>2, <3>1
    <2>4. /\ FirstTotal(Framed(parts), part + 1) = FirstTotal(Framed(parts), part) + parts[part + 1].size + Overhead
          /\ FirstTotal(Payload(parts), part + 1)
               = FirstTotal(Payload(parts), part) + (IF parts[part + 1].kind = "artifact" THEN parts[part + 1].size ELSE 0)
          /\ parts[part + 1].size \in Nat
      BY <1>a, <2>1, PartsAdd
    <2>5. (part = 0 => NextPart.kind = "metadata") /\ (part # 0 => NextPart.kind = "artifact")
      BY <1>a, <2>1 DEF NextPart
    <2> QED BY <2>1, <2>2, <2>3, <2>4, <2>5 DEF NextPart
  <1>2. CASE body + Overhead > BodyLimit \/ Misplaced(NextPart)
    <2>1. RefuseUpload
      BY <1>2 DEF BeginPart
    <2>2. ASSUME prepared, ~(Len(parts) * Overhead > Mebi \/ BytesOf(parts) > MaxWord) PROVE FALSE
      <3>n. /\ Len(parts) - 1 <= policy.platforms /\ policy.platforms \in Nat /\ Overhead \in Nat /\ body \in Nat
        BY <1>1, <2>2, PreparedNumbers
      <3>f. Len(parts) * Overhead <= Mebi /\ BytesOf(parts) <= MaxWord
        BY <1>1, <2>2, RoomForAll
      <3>1. ~(body + Overhead > BodyLimit)
        <4>1. FirstTotal(Framed(parts), part + 1) <= BodyLimit
          BY <1>1, <1>a, <2>2, <3>f, PreparedNumbers
        <4>2. body + NextPart.size + Overhead <= BodyLimit /\ NextPart.size \in Nat
          BY <1>s, <2>2, <4>1
        <4>3. BodyLimit \in Nat
          <5>1. policy.total \in Nat /\ policy.metadata \in Nat /\ Mebi \in Nat /\ MaxWord \in Nat
            BY <1>1, <2>2, PreparedNumbers, IntakeAssumption
          <5> QED BY <5>1 DEF BodyLimit, Add, Capped
        <4> QED BY <3>n, <4>2, <4>3
      <3>2. ~Misplaced(NextPart)
        <4>1. CASE part = 0
          BY <1>i, <1>s, <2>2, <4>1 DEF Misplaced, ReadSoFar
        <4>2. CASE part # 0
          <5>1. NextPart.kind = "artifact"
            BY <1>s, <2>2, <4>2
          <5>2. NextPart.name \notin DOMAIN files
            <6>1. \A i \in 2..part : i \in 2..Len(parts) /\ i # part + 1
              BY <1>1
            <6>2. \A i \in 2..part : parts[i].name # parts[part + 1].name
              BY <1>a, <1>s, <2>2, <4>2, <6>1 DEF Orderly
            <6> QED BY <1>s, <2>2, <6>2 DEF NextPart
          <5>3. ~(Cardinality(DOMAIN files) >= policy.platforms)
            <6>1. Cardinality(DOMAIN files) <= part - 1 /\ Cardinality(DOMAIN files) \in Nat
              BY <1>1, <1>s, <2>2, <4>2, NamesOfParts
            <6> QED BY <1>1, <3>n, <6>1
          <5> QED BY <5>1, <5>2, <5>3 DEF Misplaced
        <4> QED BY <4>1, <4>2
      <3> QED BY <1>2, <3>1, <3>2
    <2>3. prepared => Len(parts) * Overhead > Mebi \/ BytesOf(parts) > MaxWord
      BY <2>2
    <2> QED BY <1>1, <2>1, <2>3, RefusalLeaves
  <1>3. CASE ~(body + Overhead > BodyLimit \/ Misplaced(NextPart))
    <2>1. /\ part' = part + 1 /\ unread' = NextPart.size /\ body' = body + Overhead
          /\ files' = IF NextPart.kind = "metadata" THEN files
                      ELSE [f \in DOMAIN files \cup {NextPart.name} |->
                              IF f \in DOMAIN files THEN files[f] ELSE 0]
          /\ needs' = IF NextPart.kind = "metadata" THEN <<NextPart.needs>> ELSE needs
          /\ UNCHANGED <<phase, config, policy, parts, prepared, picked, tally, total>>
      BY <1>3 DEF BeginPart, limitVars, clientIntakeVars
    <2>2. policy.artifact \in Nat
      BY <1>i, <1>1, LimitsInForce DEF Reading
    <2>3. ReadSoFar'
      <3>1. \A f \in DOMAIN files' : files'[f] <= policy.artifact
        <4>1. \A f \in DOMAIN files : files[f] <= policy.artifact
          BY <1>i, <1>1 DEF ReadSoFar, Reading
        <4>2. CASE NextPart.kind = "metadata"
          BY <2>1, <4>1, <4>2
        <4>3. CASE NextPart.kind # "metadata"
          <5>1. \A f \in DOMAIN files' : files'[f] = IF f \in DOMAIN files THEN files[f] ELSE 0
            BY <2>1, <4>3
          <5>2. 0 <= policy.artifact
            BY <2>2
          <5> QED BY <4>1, <5>1, <5>2
        <4> QED BY <4>2, <4>3
      <3>2. part' # 0
        BY <1>1, <2>1
      <3> QED BY <2>1, <3>1, <3>2 DEF ReadSoFar
    <2>4. ClientCounts'
      BY <1>i, <2>1 DEF ClientCounts
    <2>5. ServerCounts'
      <3> SUFFICES ASSUME prepared
                   PROVE  /\ body' + unread' = FirstTotal(Framed(parts), part + 1)
                          /\ total + (IF part + 1 > 1 THEN unread' ELSE 0) = FirstTotal(Payload(parts), part + 1)
                          /\ DOMAIN files' = {parts[i].name : i \in 2..(part + 1)}
                          /\ needs' = <<parts[1].needs>>
        BY <2>1 DEF ServerCounts
      <3>n. body \in Nat /\ Overhead \in Nat /\ NextPart.size \in Nat /\ total \in Nat
        BY <1>1, <1>s, PreparedNumbers
      <3>1. body' + unread' = FirstTotal(Framed(parts), part + 1)
        <4>1. FirstTotal(Framed(parts), part + 1) = body + NextPart.size + Overhead
          BY <1>s
        <4> QED BY <2>1, <3>n, <4>1
      <3>2. CASE part = 0
        <4>1. NextPart.kind = "metadata" /\ NextPart.needs = parts[1].needs
          <5>1. part + 1 = 1
            BY <3>2
          <5> QED BY <1>s, <3>2, <5>1 DEF NextPart
        <4>2. FirstTotal(Payload(parts), part + 1) = total + 0
          BY <1>s, <4>1
        <4>3. {parts[i].name : i \in 2..(part + 1)} = {} /\ {parts[i].name : i \in 2..part} = {} /\ ~(part + 1 > 1)
          BY <3>2
        <4>4. files' = files /\ needs' = <<parts[1].needs>>
          BY <2>1, <4>1
        <4>5. DOMAIN files' = {parts[i].name : i \in 2..(part + 1)}
          BY <1>s, <4>3, <4>4
        <4> QED BY <3>1, <4>2, <4>3, <4>4, <4>5
      <3>3. CASE part # 0
        <4>1. NextPart.kind = "artifact" /\ NextPart.kind # "metadata"
          BY <1>s, <3>3
        <4>2. FirstTotal(Payload(parts), part + 1) = total + NextPart.size
          BY <1>s, <4>1
        <4>3. part + 1 > 1 /\ part > 0
          BY <1>1, <3>3
        <4>4. needs' = <<parts[1].needs>>
          BY <1>s, <2>1, <4>1, <4>3
        <4>5. DOMAIN files' = {parts[i].name : i \in 2..(part + 1)}
          <5>1. DOMAIN files' = {parts[i].name : i \in 2..part} \cup {parts[part + 1].name}
            BY <1>s, <2>1, <4>1 DEF NextPart
          <5>2. 2..(part + 1) = (2..part) \cup {part + 1}
            BY <1>1, <3>3
          <5> QED BY <5>1, <5>2
        <4> QED BY <2>1, <3>1, <4>2, <4>3, <4>4, <4>5
      <3> QED BY <3>2, <3>3
    <2>6. PreparedUploadsFit'
      BY <1>1, <2>1 DEF PreparedUploadsFit
    <2> QED BY <2>3, <2>4, <2>5, <2>6
  <1> QED BY <1>2, <1>3

(* No chunk of a prepared request is too large, neither for its file nor   *)
(* for the total nor for the body.                                         *)
LEMMA ReadAgrees ==
  ASSUME AgreementInv, NEW n \in Chunks, ReadChunk(n)
  PROVE  ReadSoFar' /\ ClientCounts' /\ ServerCounts' /\ PreparedUploadsFit'
  <1>i. IntakeInv /\ IntakeTypeOK /\ ReadSoFar /\ ClientCounts /\ ServerCounts /\ CountersAreExact
    BY DEF AgreementInv, IntakeInv
  <1>n. /\ phase = "receiving" /\ part \in Nat /\ part > 0 /\ Len(parts) \in Nat /\ part <= Len(parts)
        /\ n \in Nat /\ unread \in Nat /\ n <= unread /\ body \in Nat /\ size \in Nat /\ total \in Nat
        /\ MaxWord \in Nat
    BY <1>i, NumbersOfState, IntakeAssumption DEF ReadChunk
  <1>l. /\ policy.artifact \in Nat /\ policy.total \in Nat /\ policy.metadata \in Nat
        /\ policy.artifact < MaxWord /\ policy.total < MaxWord /\ policy.metadata < MaxWord
    BY <1>i, <1>n, LimitsInForce DEF Reading
  <1>a. part \in 0..Len(parts) /\ (part # 1 => part \in 2..Len(parts)) /\ part \in 1..Len(parts)
    BY <1>n
  <1>c. size + unread = parts[part].size
    BY <1>i, <1>n DEF CountersAreExact, Reading
  <1>w. /\ Add(size, n) \in 0..MaxWord /\ Add(size, n) <= size + n
        /\ Add(total, n) \in 0..MaxWord /\ Add(total, n) <= total + n
        /\ Add(total, n) <= policy.total => Add(total, n) = total + n
    BY <1>n, <1>l DEF Add, Capped
  <1>s. ASSUME prepared
        PROVE  /\ body + unread = FirstTotal(Framed(parts), part)
               /\ total + (IF part > 1 THEN unread ELSE 0) = FirstTotal(Payload(parts), part)
               /\ DOMAIN files = {parts[i].name : i \in 2..part}
               /\ needs = <<parts[1].needs>>
               /\ part = 1 => parts[part].kind = "metadata" /\ parts[part].size <= policy.metadata
               /\ part # 1 => parts[part].kind = "artifact" /\ parts[part].size <= policy.artifact
                              /\ parts[part].name \in DOMAIN files
    <2>1. /\ body + unread = FirstTotal(Framed(parts), part)
          /\ total + (IF part > 1 THEN unread ELSE 0) = FirstTotal(Payload(parts), part)
          /\ DOMAIN files = {parts[i].name : i \in 2..part}
          /\ needs = <<parts[1].needs>>
      BY <1>i, <1>n, <1>s DEF ServerCounts, Reading
    <2>2. /\ part = 1 => parts[part].kind = "metadata" /\ parts[part].size <= policy.metadata
          /\ part # 1 => parts[part].kind = "artifact" /\ parts[part].size <= policy.artifact
      BY <1>a, <1>n, <1>s, PreparedNumbers
    <2>3. part # 1 => part \in 2..part
      BY <1>n
    <2> QED BY <2>1, <2>2, <2>3
  <1>1. CASE body + n > BodyLimit \/ Stops(n)
    <2>1. RefuseUpload
      BY <1>1 DEF ReadChunk
    <2>2. ASSUME prepared, ~(Len(parts) * Overhead > Mebi \/ BytesOf(parts) > MaxWord) PROVE FALSE
      <3>1. Len(parts) * Overhead <= Mebi /\ BytesOf(parts) <= MaxWord
        BY <2>2, RoomForAll, <1>n
      <3>2. ~(body + n > BodyLimit)
        <4>1. body + unread <= BodyLimit
          BY <1>a, <1>n, <1>s, <2>2, <3>1, PreparedNumbers
        <4>2. BodyLimit \in Nat
          <5>1. policy.total \in Nat /\ policy.metadata \in Nat /\ Mebi \in Nat /\ MaxWord \in Nat
            <6>1. Mebi \in Nat /\ MaxWord \in Nat
              BY IntakeAssumption
            <6> QED BY <1>l, <6>1
          <5> DEFINE t == policy.total
                     m == policy.metadata
                     x == Add(t, m)
          <5>2. BodyLimit = Add(x, Mebi) /\ t \in Nat /\ m \in Nat
            BY <5>1 DEF BodyLimit
          <5> HIDE DEF t, m
          <5>3. x \in Nat
            BY <5>1, <5>2 DEF Add, Capped
          <5> HIDE DEF x
          <5> QED BY <5>1, <5>2, <5>3 DEF Add, Capped
        <4> QED BY <1>n, <4>1, <4>2
      <3>3. ~Stops(n)
        <4>1. CASE part = 1
          <5>1. parts[part].kind = "metadata" /\ size + unread <= policy.metadata
            BY <1>c, <1>s, <2>2, <4>1
          <5>2. ~(Add(size, n) > policy.metadata)
            BY <1>n, <1>l, <1>w, <5>1
          <5> QED BY <5>1, <5>2 DEF Stops, TooLarge
        <4>2. CASE part # 1
          <5>1. parts[part].kind = "artifact" /\ size + unread <= policy.artifact
            BY <1>c, <1>s, <2>2, <4>2
          <5>2. total + unread <= policy.total
            <6>1. part > 1
              BY <1>n, <4>2
            <6>2. FirstTotal(Payload(parts), part) = total + unread
              BY <1>s, <2>2, <6>1
            <6> QED BY <1>a, <1>n, <2>2, <6>2, PreparedNumbers
          <5>3. ~(Add(size, n) > policy.artifact) /\ ~(Add(total, n) > policy.total)
            BY <1>n, <1>l, <1>w, <5>1, <5>2
          <5> QED BY <5>1, <5>3 DEF Stops, TooLarge
        <4> QED BY <4>1, <4>2
      <3> QED BY <1>1, <3>2, <3>3
    <2>3. prepared => Len(parts) * Overhead > Mebi \/ BytesOf(parts) > MaxWord
      BY <2>2
    <2> QED BY <1>n, <2>1, <2>3, RefusalLeaves
  <1>2. CASE ~(body + n > BodyLimit \/ Stops(n))
    <2>1. /\ unread' = unread - n /\ body' = body + n
          /\ IF parts[part].kind = "metadata" THEN total' = total /\ files' = files
             ELSE /\ total' = Add(total, n)
                  /\ files' = [files EXCEPT ![parts[part].name] = Add(size, n)]
          /\ UNCHANGED <<phase, config, policy, parts, prepared, picked, tally, part, needs>>
      BY <1>2 DEF ReadChunk, limitVars, clientIntakeVars
    <2>2. ~TooLarge(n)
      BY <1>2 DEF Stops
    <2>3. parts[part].kind # "metadata" => Add(size, n) <= policy.artifact /\ Add(total, n) <= policy.total
      BY <1>l, <1>n, <1>w, <2>2 DEF TooLarge
    <2>4. DOMAIN files' = DOMAIN files
      BY <2>1
    <2>5. ReadSoFar'
      <3>1. \A f \in DOMAIN files : files[f] <= policy.artifact
        BY <1>i, <1>n DEF ReadSoFar, Reading
      <3>2. \A f \in DOMAIN files' : files'[f] <= policy.artifact
        <4>1. CASE parts[part].kind = "metadata"
          BY <2>1, <3>1, <4>1
        <4>2. CASE parts[part].kind # "metadata"
          <5>1. \A f \in DOMAIN files' : f \in DOMAIN files /\ (files'[f] = files[f] \/ files'[f] = Add(size, n))
            BY <2>1, <4>2
          <5> QED BY <2>3, <3>1, <4>2, <5>1
        <4> QED BY <4>1, <4>2
      <3>3. part' # 0
        BY <1>n, <2>1
      <3> QED BY <2>1, <3>2, <3>3 DEF ReadSoFar
    <2>6. ClientCounts'
      BY <1>i, <2>1 DEF ClientCounts
    <2>7. ServerCounts'
      <3> SUFFICES ASSUME prepared
                   PROVE  /\ body' + unread' = FirstTotal(Framed(parts), part)
                          /\ total' + (IF part > 1 THEN unread' ELSE 0) = FirstTotal(Payload(parts), part)
                          /\ DOMAIN files' = {parts[i].name : i \in 2..part}
                          /\ needs' = <<parts[1].needs>>
        BY <2>1 DEF ServerCounts
      <3>1. body' + unread' = body + unread
        BY <1>n, <2>1
      <3>2. total' + (IF part > 1 THEN unread' ELSE 0) = total + (IF part > 1 THEN unread ELSE 0)
        <4>1. CASE part = 1
          <5>1. total' = total /\ ~(part > 1)
            BY <1>s, <2>1, <4>1
          <5> QED BY <5>1
        <4>2. CASE part # 1
          <5>1. total' = Add(total, n) /\ parts[part].kind # "metadata" /\ part > 1
            BY <1>n, <1>s, <2>1, <4>2
          <5>2. total' = total + n
            BY <1>w, <2>3, <5>1
          <5>3. unread' = unread - n
            BY <2>1
          <5> QED BY <1>n, <5>1, <5>2, <5>3
        <4> QED BY <4>1, <4>2
      <3>3. needs' = needs
        BY <2>1
      <3> QED BY <1>s, <2>4, <3>1, <3>2, <3>3
    <2>8. PreparedUploadsFit'
      BY <1>n, <2>1 DEF PreparedUploadsFit
    <2> QED BY <2>5, <2>6, <2>7, <2>8
  <1> QED BY <1>1, <1>2

(* At its end a prepared request is consistent.                            *)
LEMMA EndAgrees ==
  ASSUME AgreementInv, EndOfBody
  PROVE  ReadSoFar' /\ ClientCounts' /\ ServerCounts' /\ PreparedUploadsFit'
  <1>i. IntakeInv /\ IntakeTypeOK /\ ReadSoFar /\ ClientCounts /\ ServerCounts /\ CountersAreExact
    BY DEF AgreementInv, IntakeInv
  <1>1. phase = "receiving" /\ part = Len(parts) /\ unread = 0
    BY DEF EndOfBody
  <1>2. prepared => Consistent
    <2> SUFFICES ASSUME prepared PROVE Consistent
      OBVIOUS
    <2>1. /\ Len(parts) \in Nat /\ Len(parts) >= 2 /\ Len(parts) - 1 <= policy.platforms
          /\ policy.platforms \in Nat /\ Orderly(parts)
      BY <1>1, PreparedNumbers
    <2>2. needs = <<parts[1].needs>> /\ DOMAIN files = {parts[i].name : i \in 2..Len(parts)}
      BY <1>i, <1>1, <2>1 DEF ServerCounts, Reading
    <2> DEFINE N == {parts[i].name : i \in 2..Len(parts)}
    <2>3. parts[1].needs = N
      BY <2>1 DEF Orderly
    <2>4. IsFiniteSet(N) /\ Cardinality(N) \in Nat /\ Cardinality(N) <= Len(parts) - 1
      <3> DEFINE k == Len(parts)
      <3>1. k \in Nat \ {0}
        <4>1. Len(parts) \in Nat /\ Len(parts) >= 2
          BY <2>1
        <4> QED BY <4>1
      <3> DEFINE M == {parts[i].name : i \in 2..k}
      <3>2. M = N
        OBVIOUS
      <3> HIDE DEF k
      <3>3. IsFiniteSet(M) /\ Cardinality(M) \in Nat /\ Cardinality(M) <= k - 1
        BY <3>1, NamesOfParts
      <3> QED BY <3>2, <3>3 DEF k
    <2>5. parts[2].name \in N
      BY <2>1
    <2> HIDE DEF N
    <2>6. Cardinality(N) # 0
      BY <2>4, <2>5, FS_EmptySet
    <2>7. Cardinality(N) \in 1..policy.platforms
      BY <2>1, <2>4, <2>6
    <2>8. needs # <<>> /\ Head(needs) = N /\ N = DOMAIN files
      <3> DEFINE x == parts[1].needs
      <3>1. needs = <<x>> /\ x = N /\ DOMAIN files = N
        BY <2>2, <2>3 DEF N
      <3> HIDE DEF x
      <3>2. <<x>> # <<>> /\ Head(<<x>>) = x
        OBVIOUS
      <3> QED BY <3>1, <3>2
    <2>9. \A f \in DOMAIN files : files[f] <= policy.artifact
      BY <1>i, <1>1 DEF ReadSoFar, Reading
    <2>10. total <= policy.total
      BY <1>i, <1>1 DEF CountersAreExact, Reading
    <2> QED BY <2>7, <2>8, <2>9, <2>10 DEF Consistent
  <1>3. CASE RefuseUpload
    BY <1>1, <1>2, <1>3, RefusalLeaves DEF EndOfBody, RefuseUpload
  <1>4. CASE ~RefuseUpload
    <2>1. phase' = "accepted" /\ UNCHANGED <<limitVars, clientIntakeVars, readerVars>>
      BY <1>4 DEF EndOfBody
    <2>2. UNCHANGED <<policy, parts, prepared, picked, tally, part, unread, total, files, needs, body>>
      BY <2>1 DEF limitVars, clientIntakeVars, readerVars
    <2>3. ReadSoFar'
      BY <1>i, <1>1, <2>1, <2>2 DEF ReadSoFar, Reading
    <2>4. ClientCounts' /\ ServerCounts'
      BY <1>i, <1>1, <2>1, <2>2 DEF ClientCounts, ServerCounts, Reading
    <2>5. PreparedUploadsFit'
      BY <2>1 DEF PreparedUploadsFit
    <2> QED BY <2>3, <2>4, <2>5
  <1> QED BY <1>3, <1>4

(* Client and server agree about every prepared request                    *)
(* (prepare_from_remote, read_release_multipart).                          *)
THEOREM Agreement == IntakeSpec => []AgreementInv
  <1>1. IntakeInit => ReadSoFar /\ ClientCounts /\ ServerCounts /\ PreparedUploadsFit
    <2>1. DOMAIN <<>> = {}
      OBVIOUS
    <2> QED BY <2>1 DEF IntakeInit, ReadSoFar, ClientCounts, ServerCounts, PreparedUploadsFit, Reading
  <1>2. AgreementInv /\ [IntakeNext]_intakeVars => (ReadSoFar /\ ClientCounts /\ ServerCounts /\ PreparedUploadsFit)'
    <2> SUFFICES ASSUME AgreementInv, [IntakeNext]_intakeVars
                 PROVE  ReadSoFar' /\ ClientCounts' /\ ServerCounts' /\ PreparedUploadsFit'
      OBVIOUS
    <2>1. CASE UNCHANGED intakeVars
      BY <2>1 DEF AgreementInv, ReadSoFar, ClientCounts, ServerCounts, PreparedUploadsFit, Reading,
                  intakeVars, limitVars, clientIntakeVars, readerVars
    <2>2. CASE IntakeNext
      BY <2>2, ClientAgrees, BeginAgrees, ReadAgrees, EndAgrees DEF IntakeNext
    <2> QED BY <2>1, <2>2
  <1>3. AgreementInv <=> IntakeInv /\ ReadSoFar /\ ClientCounts /\ ServerCounts /\ PreparedUploadsFit
    BY DEF AgreementInv
  <1> QED BY <1>1, <1>2, <1>3, IntakeInvariant, PTL DEF IntakeSpec

(* What the client has prepared under the policy of the server, the server *)
(* does not refuse (read_release_multipart, validate_upload_metadata),     *)
(* unless the framing of its parts needs more than the mebibyte of         *)
(* build_admin_router or its bytes cannot be counted in a word.            *)
THEOREM PreparedUploadsAreTaken == IntakeSpec => []PreparedUploadsFit
  <1>1. AgreementInv => PreparedUploadsFit
    BY DEF AgreementInv
  <1> QED BY <1>1, Agreement, PTL
-----------------------------------------------------------------------------
(* The three conversations as TLC checks them.                             *)

(* Each conversation of the instance is the one that is specified alone: the*)
(* others stand still, FewRequests only leaves requests out, and a finished*)
(* scene stutters.  What is proved of each holds of what TLC runs.         *)
THEOREM ServingImplements == ServingSpec => DrainSpec /\ LogSpec /\ IntakeSpec
  <1>1. ServingInit => DrainInit /\ LogInit /\ IntakeInit
    BY DEF ServingInit
  <1>2. [ServingNext]_servingVars =>
          [DrainNext]_drainVars /\ [LogNext]_logVars /\ [IntakeNext]_intakeVars
    <2> SUFFICES ASSUME [ServingNext]_servingVars
                 PROVE  [DrainNext]_drainVars /\ [LogNext]_logVars /\ [IntakeNext]_intakeVars
      OBVIOUS
    <2>1. CASE UNCHANGED servingVars
      BY <2>1 DEF servingVars
    <2>2. CASE DrainNext /\ UNCHANGED <<scene, logVars, intakeVars>>
      BY <2>2
    <2>3. CASE LogNext /\ UNCHANGED <<scene, drainVars, intakeVars>>
      BY <2>3
    <2>4. CASE IntakeNext /\ UNCHANGED <<scene, drainVars, logVars>>
      BY <2>4
    <2> QED BY <2>1, <2>2, <2>3, <2>4 DEF ServingNext
  <1> QED BY <1>1, <1>2, PTL DEF ServingSpec, DrainSpec, LogSpec, IntakeSpec
=============================================================================
