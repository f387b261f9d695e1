-------------------------------- MODULE SelfUpdate --------------------------------
(***************************************************************************)
(* The manual update of a single node (self_update.rs): the unprivileged    *)
(* server accepts and stages one signed release (UpdateManager::start and    *)
(* stage), systemd starts a privileged helper when the operations directory  *)
(* changes (uds-update.path), and the helper replaces the executable,        *)
(* restarts the service, watches it and rolls back (apply_pending,           *)
(* apply_staged).  Server and helper share only the files; either may die    *)
(* between any two of them.  The administrator's client polls the record.    *)
(***************************************************************************)
EXTENDS Naturals, FiniteSets

CONSTANTS
  Ids,         \* operation identifiers
  Requests,    \* StartUpdateRequests: id, version, category
  Releases,    \* published releases; ineligible: the signed manifest or archive is unusable
  MaxMishaps   \* bound: deaths and disk errors of different kinds

Versions == {1} \cup {r.version : r \in Releases \cup Requests}

ASSUME UpdateAssumption ==
  /\ Requests \subseteq [id : Ids, version : Nat \ {0}, prerelease : BOOLEAN]
  /\ Releases \subseteq [version : Nat \ {0}, prerelease : BOOLEAN, eligible : BOOLEAN]
  /\ MaxMishaps \in Nat

(* Version 0 stands for a missing executable or a stopped service.          *)
Missing == 0

VARIABLES
  units,      \* uds-update units: "none", "written", "watching"
  status,     \* id -> status in operation.json, "none" without a record
  request,    \* id -> the requests that record holds: none or one
  files,      \* ids whose manifest, signature and archive are complete
  markers,    \* ids with an <id>.apply file
  running,    \* version of the server process
  checked,    \* requests that passed the checks of start and hold its lock
  late,       \* requests of dropped starts whose record is still to be renamed
  task,       \* id -> staging task of the server: "none" or its next step
  trigger,    \* systemd has seen a change and not started the helper yet
  helper,     \* the helper process
  binary, candidate, previous,  \* versions of uds, uds.new and uds.previous
  told,       \* id -> what the polling client reported
  base,       \* history: id -> binary when the helper took the operation up
  confirmed,  \* history: newest version an operation ended successfully with
  dropped,    \* history: ids whose directory was made by a start that was dropped
  mishaps     \* history: what went wrong outside the code

recordVars == <<status, request, files, markers>>
serverVars == <<running, checked, late, dropped, task>>
binaryVars == <<binary, candidate, previous>>
historyVars == <<base, confirmed>>
updateVars == <<units, recordVars, serverVars, trigger, helper, binaryVars, told,
                historyVars, mishaps>>

Terminal == {"succeeded", "rolled_back", "failed"}
Statuses == Terminal \cup {"queued", "downloading", "staged", "applying", "boot_confirmed"}
Active == {o \in Ids : status[o] \notin Terminal \cup {"none"}}

NoHelper == [pc |-> "off", id |-> "none", todo |-> {}, version |-> Missing, ok |-> TRUE]

UpdateInit ==
  /\ units \in {"none", "written", "watching"}
  /\ status = [o \in Ids |-> "none"] /\ request = [o \in Ids |-> {}]
  /\ files = {} /\ markers = {}
  /\ running = 1 /\ checked = {} /\ late = {} /\ task = [o \in Ids |-> "none"]
  /\ trigger = FALSE /\ helper = NoHelper
  /\ binary = 1 /\ candidate = Missing /\ previous = Missing
  /\ told = [o \in Ids |-> "nothing"]
  /\ base = [o \in Ids |-> Missing] /\ confirmed = 1
  /\ dropped = {} /\ mishaps = {}

(* A fault the model adds, once of each kind.                               *)
Mishap(kind) ==
  /\ kind \notin mishaps /\ Cardinality(mishaps) < MaxMishaps
  /\ mishaps' = mishaps \cup {kind}

(* A change in the operations directory: PathChanged starts the helper, and *)
(* is not watched for as long as the helper's unit is active.               *)
Touch == trigger' = (trigger \/ (units = "watching" /\ helper.pc = "off"))

(* validate_manifest compares with the version of the process that asks.    *)
(* Seeded fault: another version is enough.                                 *)
IsNewer_Different(version, current) == version # current

IsNewer(version, current) == version > current

-----------------------------------------------------------------------------
(* start takes the manager's lock, answers a known id from its record, and   *)
(* refuses when an operation is active ...                                  *)
(* Seeded fault: the checks and the write are not one critical section.     *)
LockFree_Absent == TRUE

LockFree == checked = {}

Check(r) ==
  /\ running # Missing /\ units # "none"
  /\ LockFree
  /\ status[r.id] = "none" /\ Active = {}
  /\ checked' = checked \cup {r}
  /\ UNCHANGED <<units, recordVars, running, late, dropped, task, trigger, helper, binaryVars, told,
                 historyVars, mishaps>>

(* ... then writes the record in the operation's directory, which a dropped  *)
(* start may have made already, and spawns stage.                           *)
MakeDirectory(o) == IF o \in dropped THEN UNCHANGED trigger ELSE Touch

Accept(r) ==
  /\ r \in checked
  /\ checked' = checked \ {r}
  /\ status' = [status EXCEPT ![r.id] = "queued"]
  /\ request' = [request EXCEPT ![r.id] = {r}]
  /\ task' = [task EXCEPT ![r.id] = "begin"]
  /\ MakeDirectory(r.id)
  /\ UNCHANGED <<units, files, markers, running, late, dropped, helper, binaryVars, told,
                 historyVars, mishaps>>

(* start runs inside the request: a client that goes away drops it at an     *)
(* await, with its lock.  Nothing was done yet, or the directory is there,    *)
(* and the rename of the record may be left to the blocking pool.            *)
DropStart(r) ==
  /\ r \in checked
  /\ checked' = checked \ {r}
  /\ \/ UNCHANGED <<late, dropped, trigger>>
     \/ /\ dropped' = dropped \cup {r.id} /\ late' \in {late, late \cup {r}}
        /\ MakeDirectory(r.id)
  /\ UNCHANGED <<units, recordVars, running, task, helper, binaryVars, told, historyVars, mishaps>>

(* The rename after the drop: a record without a staging task.  A start of   *)
(* the same id that went through has moved the one temporary file away.      *)
LateRecord(r) ==
  /\ r \in late /\ late' = late \ {r}
  /\ IF status[r.id] # "none" THEN UNCHANGED <<status, request>>
     ELSE /\ status' = [status EXCEPT ![r.id] = "queued"]
          /\ request' = [request EXCEPT ![r.id] = {r}]
  /\ UNCHANGED <<units, files, markers, running, checked, dropped, task, trigger, helper,
                 binaryVars, told, historyVars, mishaps>>

-----------------------------------------------------------------------------
(* stage, between its writes to the disk.                                   *)
(* Seeded fault: the record is staged before the files are saved.           *)
StageBegins_Staged(o) ==
  /\ task[o] = "begin"
  /\ status' = [status EXCEPT ![o] = "staged"]
  /\ task' = [task EXCEPT ![o] = "fetch"]
  /\ UNCHANGED <<request, files, markers, trigger, mishaps>>

StageBegins(o) ==
  /\ task[o] = "begin"
  /\ status' = [status EXCEPT ![o] = "downloading"]
  /\ task' = [task EXCEPT ![o] = "fetch"]
  /\ UNCHANGED <<request, files, markers, trigger, mishaps>>

(* The exact release of the chosen category, verified and newer.            *)
Offered(r) ==
  /\ [version |-> r.version, prerelease |-> r.prerelease, eligible |-> TRUE] \in Releases
  /\ IsNewer(r.version, running)

StageSaves(o) ==
  /\ task[o] = "fetch" /\ \E r \in request[o] : Offered(r)
  /\ files' = files \cup {o}
  /\ task' = [task EXCEPT ![o] = "ready"]
  /\ UNCHANGED <<status, request, markers, trigger, mishaps>>

(* No such release, or the release service or the disk failed.              *)
StageFails(o) ==
  /\ task[o] \in {"begin", "fetch", "ready"}
  /\ task' = [task EXCEPT ![o] = "fail"]
  /\ UNCHANGED <<recordVars, trigger, mishaps>>

StageReady(o) ==
  /\ task[o] = "ready"
  /\ status' = [status EXCEPT ![o] = "staged"]
  /\ task' = [task EXCEPT ![o] = "mark"]
  /\ UNCHANGED <<request, files, markers, trigger, mishaps>>

(* The temporary file of the marker already changes the directory.          *)
WriteMarker(o) ==
  /\ task[o] = "mark" /\ Touch
  /\ \/ /\ markers' = markers \cup {o}
        /\ task' = [task EXCEPT ![o] = "none"]
        /\ mishaps' = IF units = "watching" /\ helper.pc # "off"
                      THEN mishaps \cup {"trigger missed"} ELSE mishaps
     \/ /\ Mishap("marker not written")
        /\ task' = [task EXCEPT ![o] = "fail"]
        /\ UNCHANGED markers
  /\ UNCHANGED <<status, request, files>>

(* fail reads the record again and ends it; its own error is dropped.       *)
(* Seeded fault: the spawned task ends without recording its error.         *)
RecordFailure_Dropped(o) ==
  /\ task[o] = "fail"
  /\ task' = [task EXCEPT ![o] = "none"]
  /\ UNCHANGED <<recordVars, trigger, mishaps>>

RecordFailure(o) ==
  /\ task[o] = "fail"
  /\ task' = [task EXCEPT ![o] = "none"]
  /\ \/ status' = [status EXCEPT ![o] = "failed"] /\ UNCHANGED mishaps
     \/ Mishap("failure not recorded") /\ UNCHANGED status
  /\ UNCHANGED <<request, files, markers, trigger>>

StageStep(o) ==
  /\ \/ StageBegins(o) \/ StageSaves(o) \/ StageFails(o) \/ StageReady(o)
     \/ WriteMarker(o) \/ RecordFailure(o)
  /\ UNCHANGED <<units, running, checked, late, dropped, helper, binaryVars, told, historyVars>>

-----------------------------------------------------------------------------
(* The service manager.  A stopped server takes its staging tasks, a start    *)
(* in progress and a late rename with it; opening the manager resumes none.  *)
ServerRuns(version) ==
  /\ running' = version
  /\ checked' = {} /\ late' = {} /\ task' = [o \in Ids |-> "none"]
  /\ UNCHANGED dropped

ServerDies ==
  /\ running # Missing /\ Mishap("server died")
  /\ ServerRuns(Missing)
  /\ helper' = IF helper.pc = "observe" THEN [helper EXCEPT !.ok = FALSE] ELSE helper
  /\ UNCHANGED <<units, recordVars, trigger, binaryVars, told, historyVars>>

ServerStarts ==
  /\ running = Missing /\ binary # Missing
  /\ ServerRuns(binary)
  /\ UNCHANGED <<units, recordVars, trigger, helper, binaryVars, told, historyVars, mishaps>>

(* The helper runs the installed executable and lists the directory; a       *)
(* directory made meanwhile may be listed or not.                           *)
HelperStarts ==
  /\ trigger /\ helper.pc = "off"
  /\ trigger' = FALSE
  /\ IF binary = Missing THEN UNCHANGED helper
     ELSE \E todo \in SUBSET Ids :
            /\ {o \in Ids : status[o] # "none"} \subseteq todo
            /\ helper' = [NoHelper EXCEPT !.pc = "scan", !.todo = todo, !.version = binary]
  /\ UNCHANGED <<units, recordVars, serverVars, binaryVars, told, historyVars, mishaps>>

HelperDies ==
  /\ helper.pc # "off" /\ Mishap("helper died")
  /\ helper' = NoHelper
  /\ UNCHANGED <<units, recordVars, serverVars, trigger, binaryVars, told, historyVars>>

-----------------------------------------------------------------------------
(* apply_pending: one operation after the other; update_sync writes status.  *)
HelperAt(pc) == helper.pc = pc
HelperGoes(pc) == helper' = [helper EXCEPT !.pc = pc]
Sync(value) == status' = [status EXCEPT ![helper.id] = value]

Scan ==
  /\ HelperAt("scan")
  /\ \/ /\ helper.todo = {} /\ helper' = NoHelper
        /\ UNCHANGED <<status, base>>
     \/ \E o \in helper.todo :
          LET rest == [helper EXCEPT !.todo = @ \ {o}]
          IN  IF status[o] # "staged"
              THEN helper' = rest /\ UNCHANGED <<status, base>>
              ELSE /\ helper' = [rest EXCEPT !.pc = "verify", !.id = o]
                   /\ status' = [status EXCEPT ![o] = "applying"]
                   /\ base' = [base EXCEPT ![o] = binary]
  /\ UNCHANGED <<markers, serverVars, binaryVars, confirmed, mishaps>>

(* apply_staged: verify again, write uds.new, delete uds.previous, move the  *)
(* executable aside, move the new one in.  Any of them may fail.            *)
WriteCandidate ==
  /\ HelperAt("verify") /\ helper.id \in files
  /\ \E r \in request[helper.id] :
       IsNewer(r.version, helper.version) /\ candidate' = r.version
  /\ HelperGoes("written") /\ UNCHANGED <<binary, previous>>

(* Seeded fault: the executable is deleted together with the kept copy, not moved. *)
ClearPrevious_Both ==
  /\ HelperAt("written")
  /\ previous' = Missing /\ binary' = Missing
  /\ HelperGoes("moved") /\ UNCHANGED candidate

ClearPrevious ==
  /\ HelperAt("written")
  /\ previous' = Missing
  /\ HelperGoes("cleared") /\ UNCHANGED <<binary, candidate>>

MoveAside ==
  /\ HelperAt("cleared") /\ binary # Missing
  /\ previous' = binary /\ binary' = Missing
  /\ HelperGoes("moved") /\ UNCHANGED candidate

MoveIn ==
  /\ HelperAt("moved")
  /\ binary' = candidate /\ candidate' = Missing
  /\ HelperGoes("restart") /\ UNCHANGED previous

ApplyFails ==
  /\ \/ HelperAt("verify") \/ HelperAt("written") \/ HelperAt("cleared")
  /\ HelperGoes("fail") /\ UNCHANGED binaryVars

(* The error of putting the old executable back is dropped.                 *)
MoveInFails ==
  /\ HelperAt("moved")
  /\ \/ binary' = previous /\ previous' = Missing /\ UNCHANGED mishaps
     \/ Mishap("restore failed") /\ UNCHANGED <<binary, previous>>
  /\ HelperGoes("fail") /\ UNCHANGED candidate

ApplyStaged ==
  /\ \/ (WriteCandidate \/ ClearPrevious \/ MoveAside \/ MoveIn \/ ApplyFails) /\ UNCHANGED mishaps
     \/ MoveInFails
  /\ UNCHANGED <<status, markers, serverVars, historyVars>>

(* systemctl restart, and wait_active for 30 s: the service may not come up, *)
(* and a service that went down is seen, since systemd waits 5 s to restart. *)
SystemctlRestart(next) ==
  /\ \E up \in BOOLEAN :
       /\ ServerRuns(IF up THEN binary ELSE Missing)
       /\ helper' = [helper EXCEPT !.pc = next, !.ok = up /\ binary # Missing]
  /\ UNCHANGED <<status, markers, binaryVars, historyVars, mishaps>>

Restart == HelperAt("restart") /\ SystemctlRestart("observe")

Observe ==
  /\ HelperAt("observe")
  /\ HelperGoes(IF helper.ok THEN "confirm" ELSE "rollback")
  /\ UNCHANGED <<status, markers, serverVars, binaryVars, historyVars, mishaps>>

Confirm ==
  /\ \/ /\ HelperAt("confirm") /\ Sync("boot_confirmed") /\ HelperGoes("succeed") /\ UNCHANGED confirmed
     \/ /\ HelperAt("succeed") /\ Sync("succeeded") /\ HelperGoes("clear")
        /\ confirmed' = IF binary > confirmed THEN binary ELSE confirmed
  /\ UNCHANGED <<markers, serverVars, binaryVars, base, mishaps>>

(* The rollback removes the new executable and moves the old one back.      *)
RemoveNew ==
  /\ HelperAt("rollback")
  /\ \/ /\ binary # Missing /\ binary' = Missing
        /\ HelperGoes("unlinked") /\ UNCHANGED mishaps
     \/ /\ Mishap("restore failed") /\ UNCHANGED binary /\ HelperGoes("fail")
  /\ UNCHANGED <<candidate, previous>>

PutBack ==
  /\ HelperAt("unlinked")
  /\ \/ /\ previous # Missing /\ binary' = previous /\ previous' = Missing
        /\ HelperGoes("restored") /\ UNCHANGED mishaps
     \/ /\ Mishap("restore failed") /\ UNCHANGED <<binary, previous>> /\ HelperGoes("fail")
  /\ UNCHANGED candidate

RollBack ==
  /\ RemoveNew \/ PutBack
  /\ UNCHANGED <<status, markers, serverVars, historyVars>>

(* Seeded fault: the old executable is back, the service is left to systemd. *)
RestartRestored_Skipped ==
  /\ HelperAt("restored")
  /\ helper' = [helper EXCEPT !.pc = "report", !.ok = TRUE]
  /\ UNCHANGED <<status, markers, serverVars, binaryVars, historyVars, mishaps>>

RestartRestored == HelperAt("restored") /\ SystemctlRestart("report")

Report ==
  /\ \/ HelperAt("report") /\ Sync(IF helper.ok THEN "rolled_back" ELSE "failed")
     \/ HelperAt("fail") /\ Sync("failed")
  /\ HelperGoes("clear")
  /\ UNCHANGED <<markers, serverVars, binaryVars, historyVars, mishaps>>

ClearMarker ==
  /\ HelperAt("clear")
  /\ markers' = markers \ {helper.id}
  /\ helper' = [helper EXCEPT !.pc = "scan", !.ok = TRUE]
  /\ UNCHANGED <<status, serverVars, binaryVars, historyVars, mishaps>>

HelperStep ==
  /\ \/ Scan \/ ApplyStaged \/ Restart \/ Observe \/ Confirm
     \/ RollBack \/ RestartRestored \/ Report \/ ClearMarker
  /\ UNCHANGED <<units, request, files, trigger, told>>

-----------------------------------------------------------------------------
(* The client asks every two seconds and takes no answer for a restart.      *)
Poll(o) ==
  /\ running # Missing /\ status[o] \in Terminal /\ told[o] = "nothing"
  /\ told' = [told EXCEPT ![o] = IF status[o] = "succeeded" THEN "success" ELSE "error"]
  /\ UNCHANGED <<units, recordVars, serverVars, trigger, helper, binaryVars, historyVars, mishaps>>

UpdateNext ==
  \/ \E r \in Requests : Check(r) \/ Accept(r) \/ DropStart(r) \/ LateRecord(r)
  \/ \E o \in Ids : StageStep(o) \/ Poll(o)
  \/ ServerDies \/ ServerStarts \/ HelperStarts \/ HelperDies \/ HelperStep

(* The runtime schedules every task, systemd starts the helper it has been    *)
(* triggered for, the release service answers in the end (no timeout is set:  *)
(* an assumption on the network) and the client keeps polling.  Nobody has to *)
(* ask for an update, nothing has to go wrong, and a stopped server need not  *)
(* come up: its executable or configuration may be one that cannot start.    *)
UpdateFairness ==
  /\ \A o \in Ids : WF_updateVars(StageStep(o)) /\ WF_updateVars(Poll(o))
  /\ WF_updateVars(HelperStarts) /\ WF_updateVars(HelperStep)

UpdateSpec == UpdateInit /\ [][UpdateNext]_updateVars /\ UpdateFairness

-----------------------------------------------------------------------------
(* Every variable stays in its domain, uds.previous and uds.new included; a  *)
(* task has a record and a staged operation has its files.                  *)
UpdateTypeOK ==
  LET files3 == Versions \cup {Missing}
  IN  /\ units \in {"none", "written", "watching"}
      /\ status \in [Ids -> Statuses \cup {"none"}]
      /\ request \in [Ids -> {{}} \cup {{r} : r \in Requests}]
      /\ files \subseteq Ids /\ markers \subseteq Ids
      /\ {running, binary, candidate, previous, confirmed} \subseteq files3
      /\ checked \subseteq Requests /\ late \subseteq Requests /\ dropped \subseteq Ids
      /\ task \in [Ids -> {"none", "begin", "fetch", "ready", "mark", "fail"}]
      /\ trigger \in BOOLEAN
      /\ helper.todo \subseteq Ids /\ helper.version \in files3 /\ helper.ok \in BOOLEAN
      /\ helper.pc \notin {"off", "scan"} => helper.id \in Ids
      /\ told \in [Ids -> {"nothing", "success", "error"}]
      /\ base \in [Ids -> files3]
      /\ \A o \in Ids : /\ task[o] # "none" => request[o] # {}
                        /\ status[o] \in {"staged", "applying", "boot_confirmed"} => o \in files

(* A marker that could not be written is recorded as a failed operation      *)
(* although the helper may have begun with it: what follows from that is     *)
(* outside the two promises below.                                          *)
Undisturbed == "marker not written" \notin mishaps

(* What an operation is at work on: its staging task is there, or the helper  *)
(* has it to apply or at it.                                                *)
Working(o) == task[o] # "none" \/ status[o] \in {"staged", "applying", "boot_confirmed"}

(* The active operations but those a dropped start left without a task.      *)
Engaged == {o \in Active : Working(o) \/ o \notin dropped}

(* At most one operation is worked on, across both processes, and no other is *)
(* active: one that has not ended keeps the next from being accepted.  Only a *)
(* record of a start that was dropped may be active beside it, without a task *)
(* (self_update.rs:323, 342-362).                                           *)
OneUpdateAtATime == Undisturbed => Cardinality(Engaged) <= 1

(* The node never goes back behind a version it confirmed: no sequence of    *)
(* updates, rollbacks and crashes installs or runs an older executable.      *)
NeverOlderThanConfirmed ==
  Undisturbed => \A v \in {binary, running} \ {Missing} : v >= confirmed

(* Whenever there is no executable, wherever the helper died, uds.previous   *)
(* still holds the one that ran before.  (After a rollback that failed in    *)
(* the middle the next update deletes that copy before it looks for uds.)    *)
SomethingToRestore ==
  (binary = Missing /\ "restore failed" \notin mishaps) => previous # Missing

(* The record tells what is installed and what runs: the requested version   *)
(* after a success, with the old one kept; the old one after a rollback and, *)
(* short of a failed restore, after a failure of the helper.                 *)
OutcomeIsTruthful ==
  [][ \A o \in Ids : status[o] # status'[o] =>
        LET runs(v) == binary = v /\ running \in {v, Missing}
        IN  /\ status'[o] = "succeeded" =>
                 \A r \in request[o] : runs(r.version) /\ previous = base[o]
            /\ status'[o] = "rolled_back" => runs(base[o])
            /\ (status'[o] = "failed" /\ status[o] = "applying" /\ Undisturbed) =>
                 (binary = base[o] \/ "restore failed" \in mishaps) ]_updateVars

(* An active operation that nobody will take up again: its staging task is    *)
(* gone, the helper is not at it and will not come to it.                    *)
Stranded(o) ==
  /\ o \in Active /\ task[o] = "none"
  /\ helper.pc = "off" \/ helper.id # o
  /\ status[o] = "staged" => ~ (trigger \/ o \in helper.todo)

(* If the service keeps coming up, a recorded update ends and its client is  *)
(* told, even though the service is stopped in the middle.  It is stranded    *)
(* only if its start was dropped (so that no task stages it), if the trigger  *)
(* is not watched or was missed, or if a process died or the disk failed,     *)
(* which may also leave the node without an executable.                     *)
UpdatesEnd ==
  []<>(running # Missing) =>
    \A o \in Ids : status[o] # "none" ~>
      \/ told[o] # "nothing"
      \/ Stranded(o) /\ (units # "watching" \/ o \in dropped \/ mishaps # {})
      \/ binary = Missing /\ helper.pc = "off" /\ mishaps # {}
=============================================================================
