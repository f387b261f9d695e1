-------------------------- MODULE ManagedNodeProofs --------------------------
(***************************************************************************)
(* A node that systemd manages, and the instance in which TLC checks how   *)
(* it is installed and how it updates itself. For any operations, requests *)
(* and releases, and any number of deaths and disk errors, a node has one  *)
(* active update, never goes back behind what it confirmed, keeps an       *)
(* executable to restore, and records the truth. For any files, settings,  *)
(* runs, edits and interruptions, nothing a run of the assistant replaces  *)
(* is gone, no file is left with a token nobody was shown, and a verified  *)
(* installation is the reviewed one.                                       *)
(***************************************************************************)
EXTENDS MCManagedNode, SequenceTheorems, FiniteSetTheorems, TLAPS
-----------------------------------------------------------------------------
(* How a node updates itself (SelfUpdate).                                 *)

HelperPcs == {"off", "scan", "verify", "written", "cleared", "moved", "restart", "observe",
              "confirm", "succeed", "rollback", "unlinked", "restored", "report", "fail", "clear"}

HelperRecords == [pc : HelperPcs, id : Ids \cup {"none"}, todo : SUBSET Ids,
                  version : Nat, ok : BOOLEAN]

(* The steps of the helper, by what they have done to the executable.      *)
Before == {"verify", "written", "cleared"}
Installed == {"restart", "observe", "confirm", "succeed"}
Started == {"observe", "confirm", "succeed"}
Back == {"restored", "report"}

(* The types UpdateTypeOK leaves out.                                      *)
HelperTypeOK ==
  /\ helper \in HelperRecords
  /\ helper.pc \notin {"off", "scan"} => helper.id \in Ids /\ helper.id \in files
  /\ \A o \in Ids : task[o] \in {"ready", "mark"} => o \in files

(* Whatever is at work on an operation has its record, which is no longer   *)
(* queued for the helper; a request that is being accepted is alone and has *)
(* none yet, or the one a dropped start left, and the server's tasks need   *)
(* the server.                                                             *)
RecordsExist ==
  /\ \A r, s \in checked : r = s
  /\ \A r \in checked : status[r.id] \in {"none", "queued"} /\ task[r.id] = "none"
  /\ \A r \in late : r.id \in dropped
  /\ \A o \in Ids : /\ status[o] # "none" => request[o] # {}
                    /\ task[o] # "none" => status[o] # "none" /\ running # Missing
  /\ helper.pc \notin {"off", "scan"} => status[helper.id] \notin {"none", "queued"}
  /\ checked # {} => running # Missing

(* Without the helper at an operation, the executable is there; while it is*)
(* replaced, the one before is in uds.previous and the requested one is next.*)
HelperKnowsFiles ==
  LET o == helper.id
      restoreFailed == "restore failed" \in mishaps
  IN  /\ helper.pc \notin {"off", "moved", "unlinked"} => binary # Missing \/ restoreFailed
      /\ helper.pc \in Before => binary = base[o]
      /\ helper.pc \in {"written", "cleared", "moved"} =>
           candidate # Missing /\ \A r \in request[o] : candidate = r.version
      /\ helper.pc \in {"moved", "rollback", "unlinked"} \cup Installed =>
           previous # Missing /\ previous = base[o]
      /\ helper.pc \in {"moved", "unlinked"} => binary = Missing
      /\ helper.pc \in Installed => \A r \in request[o] : binary = r.version
      /\ helper.pc \in Started \cup {"report"} => running \in {binary, Missing}
      /\ helper.pc \in Back => binary = base[o]
      /\ helper.pc = "fail" => binary = base[o] \/ restoreFailed

(* One operation at a time, but for what dropped starts left: an accepted   *)
(* request finds none, and the steps of the staging task and of the helper  *)
(* are reflected in the record.                                            *)
OneAtATime ==
  /\ \A a, b \in Engaged : a = b
  /\ checked # {} => Engaged = {}
  /\ \A o \in Ids : /\ task[o] = "begin" => status[o] = "queued"
                    /\ task[o] \in {"fetch", "ready"} => status[o] = "downloading"
                    /\ task[o] = "fail" => status[o] \in {"queued", "downloading"}
  /\ helper.pc \notin {"off", "scan", "succeed", "clear"} => status[helper.id] = "applying"
  /\ helper.pc = "succeed" => status[helper.id] = "boot_confirmed"

(* Nothing that runs, is installed or may be put back is older than what was*)
(* confirmed, and what is about to be installed is newer.                  *)
StagedIsNewer ==
  \A o \in Ids : (task[o] = "ready" \/ status[o] \in {"staged", "applying"}) =>
    \A r \in request[o] : r.version > confirmed

NothingOlder ==
  /\ \A v \in {binary, running} \ {Missing} : v >= confirmed
  /\ helper.pc \in {"moved", "rollback", "unlinked"} \cup Installed => previous >= confirmed
  /\ StagedIsNewer

UpdateInv ==
  /\ UpdateTypeOK /\ HelperTypeOK /\ RecordsExist
  /\ HelperKnowsFiles /\ SomethingToRestore
  /\ Undisturbed => OneAtATime /\ NothingOlder
-----------------------------------------------------------------------------
(* Types                                                                   *)

LEMMA VersionsAreNumbers ==
  /\ Versions \subseteq Nat \ {0} /\ 1 \in Versions
  /\ \A r \in Requests : r.version \in Versions /\ r.id \in Ids
  BY UpdateAssumption DEF Versions

SameTask(g, h) == g.id = h.id /\ g.todo = h.todo /\ g.version = h.version

(* What the updates of the helper's record leave alone.                    *)
LEMMA HelperFields ==
  ASSUME NEW h \in HelperRecords, NEW to \in HelperPcs, NEW up \in BOOLEAN
  PROVE  /\ [h EXCEPT !.pc = to] \in HelperRecords
         /\ [h EXCEPT !.pc = to, !.ok = up] \in HelperRecords
         /\ [h EXCEPT !.ok = up] \in HelperRecords
         /\ [h EXCEPT !.pc = to].pc = to
         /\ [h EXCEPT !.pc = to, !.ok = up].pc = to
         /\ [h EXCEPT !.ok = up].pc = h.pc
         /\ SameTask([h EXCEPT !.pc = to], h)
         /\ SameTask([h EXCEPT !.pc = to, !.ok = up], h)
         /\ SameTask([h EXCEPT !.ok = up], h)
  <1>1. [h EXCEPT !.pc = to] \in HelperRecords /\ [h EXCEPT !.ok = up] \in HelperRecords
    BY DEF HelperRecords
  <1>2. [h EXCEPT !.pc = to, !.ok = up] \in HelperRecords
    BY DEF HelperRecords
  <1>3. [h EXCEPT !.pc = to].pc = to /\ [h EXCEPT !.ok = up].pc = h.pc
    BY DEF HelperRecords
  <1>4. [h EXCEPT !.pc = to, !.ok = up].pc = to
    BY DEF HelperRecords
  <1>5. SameTask([h EXCEPT !.pc = to], h) /\ SameTask([h EXCEPT !.ok = up], h)
    BY DEF HelperRecords, SameTask
  <1>6. SameTask([h EXCEPT !.pc = to, !.ok = up], h)
    BY DEF HelperRecords, SameTask
  <1> QED BY <1>1, <1>2, <1>3, <1>4, <1>5, <1>6

LEMMA HelperLosesService ==
  ASSUME NEW h \in HelperRecords
  PROVE  /\ [h EXCEPT !.ok = FALSE] \in HelperRecords
         /\ [h EXCEPT !.ok = FALSE].pc = h.pc
         /\ SameTask([h EXCEPT !.ok = FALSE], h)
  BY DEF HelperRecords, SameTask

(* The helper passes over an operation, or takes it up.                    *)
LEMMA HelperTakes ==
  ASSUME NEW h \in HelperRecords, NEW o \in Ids
  PROVE  LET rest == [h EXCEPT !.todo = @ \ {o}]
         IN  /\ rest \in HelperRecords /\ rest.pc = h.pc /\ rest.id = h.id
             /\ rest.version = h.version
             /\ [rest EXCEPT !.pc = "verify", !.id = o] \in HelperRecords
             /\ [rest EXCEPT !.pc = "verify", !.id = o].pc = "verify"
             /\ [rest EXCEPT !.pc = "verify", !.id = o].id = o
             /\ [rest EXCEPT !.pc = "verify", !.id = o].version = h.version
  <1> DEFINE rest == [h EXCEPT !.todo = @ \ {o}]
             took == [rest EXCEPT !.pc = "verify", !.id = o]
  <1>1. rest \in HelperRecords /\ rest.pc = h.pc /\ rest.id = h.id /\ rest.version = h.version
    BY DEF HelperRecords
  <1> HIDE DEF rest
  <1>2. took \in HelperRecords /\ took.pc = "verify" /\ took.id = o /\ took.version = rest.version
    BY <1>1 DEF HelperRecords, HelperPcs
  <1> QED BY <1>1, <1>2 DEF rest

(* The three records the model builds from scratch.                        *)
LEMMA HelperBegins ==
  ASSUME NEW todo \in SUBSET Ids, NEW version \in Nat
  PROVE  LET started == [NoHelper EXCEPT !.pc = "scan", !.todo = todo, !.version = version]
         IN  /\ NoHelper \in HelperRecords /\ NoHelper.pc = "off" /\ NoHelper.version = Missing
             /\ started \in HelperRecords /\ started.pc = "scan" /\ started.version = version
  BY DEF NoHelper, HelperRecords, HelperPcs, Missing

LEMMA FilesAreNumbers ==
  ASSUME UpdateTypeOK
  PROVE  {running, binary, candidate, previous, confirmed} \subseteq Nat
  <1>1. {running, binary, candidate, previous, confirmed} \subseteq Versions \cup {Missing}
    BY DEF UpdateTypeOK
  <1>2. Versions \cup {Missing} \subseteq Nat
    BY VersionsAreNumbers DEF Missing
  <1> QED BY <1>1, <1>2

LEMMA HelperStartsScan ==
  ASSUME UpdateTypeOK, HelperStarts
  PROVE  helper'.pc = "off" \/ (helper'.pc = "scan" /\ binary # Missing)
  <1>1. binary \in Nat
    BY FilesAreNumbers
  <1>2. CASE binary = Missing
    BY <1>2 DEF HelperStarts
  <1>3. CASE binary # Missing
    <2>1. PICK todo \in SUBSET Ids :
            helper' = [NoHelper EXCEPT !.pc = "scan", !.todo = todo, !.version = binary]
      BY <1>3 DEF HelperStarts
    <2> QED BY <1>1, <1>3, <2>1, HelperBegins
  <1> QED BY <1>2, <1>3

(* systemd's start of the helper and its death write a record from scratch.*)
LEMMA HelperRewritten ==
  ASSUME UpdateTypeOK, HelperTypeOK, HelperStarts \/ HelperDies
  PROVE  /\ helper' \in HelperRecords /\ helper'.version \in Versions \cup {Missing}
         /\ helper' = helper \/ helper'.pc \in {"off", "scan"}
  <1>1. \/ helper' = helper \/ helper' = NoHelper
        \/ binary # Missing /\ \E todo \in SUBSET Ids :
             helper' = [NoHelper EXCEPT !.pc = "scan", !.todo = todo, !.version = binary]
    BY DEF HelperStarts, HelperDies
  <1>2. binary \in Nat
    BY FilesAreNumbers
  <1>3. /\ binary \in Versions \cup {Missing} /\ helper.version \in Versions \cup {Missing}
        /\ helper \in HelperRecords
    BY DEF UpdateTypeOK, HelperTypeOK
  <1>4. CASE helper' = helper
    BY <1>3, <1>4
  <1>5. CASE helper' = NoHelper
    BY <1>5, HelperBegins
  <1>6. ASSUME NEW todo \in SUBSET Ids,
               helper' = [NoHelper EXCEPT !.pc = "scan", !.todo = todo, !.version = binary]
        PROVE  helper' \in HelperRecords /\ helper'.version = binary /\ helper'.pc = "scan"
    BY <1>2, <1>6, HelperBegins
  <1> QED BY <1>1, <1>3, <1>4, <1>5, <1>6

LEMMA RestartSteps ==
  ASSUME HelperTypeOK, Restart \/ RestartRestored
  PROVE  /\ \/ helper.pc = "restart" /\ helper'.pc = "observe"
            \/ helper.pc = "restored" /\ helper'.pc = "report"
         /\ running' \in {binary, Missing} /\ checked' = {} /\ task' = [o \in Ids |-> "none"]
         /\ UNCHANGED <<status, binary, candidate, previous, confirmed, mishaps>>
  <1>1. ASSUME NEW to \in {"observe", "report"}, SystemctlRestart(to)
        PROVE  /\ helper'.pc = to /\ running' \in {binary, Missing}
               /\ checked' = {} /\ task' = [o \in Ids |-> "none"]
               /\ UNCHANGED <<status, binary, candidate, previous, confirmed, mishaps>>
    <2>1. PICK up \in BOOLEAN : /\ ServerRuns(IF up THEN binary ELSE Missing)
                                /\ helper' = [helper EXCEPT !.pc = to, !.ok = up /\ binary # Missing]
      BY <1>1 DEF SystemctlRestart
    <2> DEFINE ok == up /\ binary # Missing
    <2>2. helper' = [helper EXCEPT !.pc = to, !.ok = ok] /\ ok \in BOOLEAN
      BY <2>1
    <2> HIDE DEF ok
    <2>3. helper \in HelperRecords /\ to \in HelperPcs
      BY DEF HelperTypeOK, HelperPcs
    <2>4. helper'.pc = to
      BY <2>2, <2>3, HelperFields
    <2> QED BY <1>1, <2>1, <2>4 DEF SystemctlRestart, ServerRuns, binaryVars, historyVars
  <1> QED BY <1>1 DEF Restart, RestartRestored, HelperAt

LEMMA HelperMoves ==
  ASSUME HelperTypeOK, NEW to \in HelperPcs, HelperGoes(to)
  PROVE  helper' \in HelperRecords /\ helper'.pc = to /\ SameTask(helper', helper)
  BY HelperFields DEF HelperTypeOK, HelperGoes

LEMMA MarkerCleared ==
  ASSUME HelperTypeOK, ClearMarker
  PROVE  /\ helper.pc = "clear" /\ helper'.pc = "scan"
         /\ helper' \in HelperRecords /\ SameTask(helper', helper)
  <1>1. helper.pc = "clear" /\ helper' = [helper EXCEPT !.pc = "scan", !.ok = TRUE]
    BY DEF ClearMarker, HelperAt
  <1>2. helper \in HelperRecords /\ "scan" \in HelperPcs /\ TRUE \in BOOLEAN
    BY DEF HelperTypeOK, HelperPcs
  <1> QED BY <1>1, <1>2, HelperFields

(* The death of the server only tells an observing helper that it is down. *)
LEMMA ServiceLost ==
  ASSUME HelperTypeOK, ServerDies
  PROVE  helper' \in HelperRecords /\ helper'.pc = helper.pc /\ SameTask(helper', helper)
  <1>1. helper' = helper \/ helper' = [helper EXCEPT !.ok = FALSE]
    BY DEF ServerDies
  <1>2. helper \in HelperRecords
    BY DEF HelperTypeOK
  <1>3. CASE helper' = helper
    BY <1>2, <1>3 DEF SameTask
  <1>4. CASE helper' = [helper EXCEPT !.ok = FALSE]
    BY <1>2, <1>4, HelperLosesService
  <1> QED BY <1>1, <1>3, <1>4

(* A step that leaves the helper's task alone keeps the helper's types.    *)
LEMMA HelperKeepsTask ==
  ASSUME UpdateTypeOK, HelperTypeOK, helper' \in HelperRecords, SameTask(helper', helper),
         helper.pc \in {"off", "scan"} => helper'.pc \in {"off", "scan"},
         files \subseteq files'
  PROVE  /\ helper'.todo \subseteq Ids /\ helper'.version \in Versions \cup {Missing}
         /\ helper'.ok \in BOOLEAN
         /\ helper'.pc \notin {"off", "scan"} => helper'.id \in Ids /\ helper'.id \in files'
  <1>1. helper'.todo \subseteq Ids /\ helper'.ok \in BOOLEAN
    BY DEF HelperRecords
  <1>2. helper'.version \in Versions \cup {Missing}
    BY DEF UpdateTypeOK, SameTask
  <1>3. helper'.pc \notin {"off", "scan"} => helper'.id \in Ids /\ helper'.id \in files'
    BY DEF HelperTypeOK, SameTask
  <1> QED BY <1>1, <1>2, <1>3

LEMMA ServerStepTypes ==
  ASSUME UpdateTypeOK, HelperTypeOK,
         \/ \E r \in Requests : Check(r) \/ Accept(r) \/ DropStart(r) \/ LateRecord(r)
         \/ \E o \in Ids : StageStep(o) \/ Poll(o)
         \/ ServerDies \/ ServerStarts \/ HelperStarts \/ HelperDies
  PROVE  UpdateTypeOK' /\ HelperTypeOK'
  <1> USE VersionsAreNumbers DEF UpdateTypeOK, HelperTypeOK, Missing, Statuses, Terminal
  <1>1. ASSUME NEW r \in Requests, Check(r)
        PROVE  UpdateTypeOK' /\ HelperTypeOK'
    BY <1>1 DEF Check, recordVars, binaryVars, historyVars
  <1>2. ASSUME NEW r \in Requests, Accept(r)
        PROVE  UpdateTypeOK' /\ HelperTypeOK'
    BY <1>2 DEF Accept, MakeDirectory, Touch, binaryVars, historyVars
  <1>8. ASSUME NEW r \in Requests, DropStart(r)
        PROVE  UpdateTypeOK' /\ HelperTypeOK'
    BY <1>8 DEF DropStart, MakeDirectory, Touch, recordVars, binaryVars, historyVars
  <1>9. ASSUME NEW r \in Requests, LateRecord(r)
        PROVE  UpdateTypeOK' /\ HelperTypeOK'
    <2>1. r.id \in Ids /\ late' \subseteq late /\ UNCHANGED <<units, files, markers, running, checked,
            dropped, task, trigger, helper, binary, candidate, previous, told, base, confirmed>>
      BY <1>9 DEF LateRecord, binaryVars, historyVars
    <2>2. CASE UNCHANGED <<status, request>>
      BY <2>1, <2>2
    <2>3. CASE /\ status' = [status EXCEPT ![r.id] = "queued"]
               /\ request' = [request EXCEPT ![r.id] = {r}]
      BY <2>1, <2>3
    <2> QED BY <1>9, <2>2, <2>3 DEF LateRecord
  <1>3. ASSUME NEW o \in Ids, StageStep(o)
        PROVE  UpdateTypeOK' /\ HelperTypeOK'
    <2>1. CASE StageBegins(o)
      BY <1>3, <2>1 DEF StageStep, StageBegins, binaryVars, historyVars
    <2>2. CASE StageSaves(o)
      BY <1>3, <2>2 DEF StageStep, StageSaves, binaryVars, historyVars
    <2>3. CASE StageFails(o)
      BY <1>3, <2>3 DEF StageStep, StageFails, recordVars, binaryVars, historyVars
    <2>4. CASE StageReady(o)
      BY <1>3, <2>4 DEF StageStep, StageReady, binaryVars, historyVars
    <2>5. CASE WriteMarker(o)
      BY <1>3, <2>5 DEF StageStep, WriteMarker, Touch, binaryVars, historyVars
    <2>6. CASE RecordFailure(o)
      BY <1>3, <2>6 DEF StageStep, RecordFailure, binaryVars, historyVars
    <2> QED BY <1>3, <2>1, <2>2, <2>3, <2>4, <2>5, <2>6 DEF StageStep
  <1>4. ASSUME NEW o \in Ids, Poll(o)
        PROVE  UpdateTypeOK' /\ HelperTypeOK'
    BY <1>4 DEF Poll, recordVars, serverVars, binaryVars, historyVars
  <1>5. CASE ServerDies
    <2>1. helper' \in HelperRecords /\ helper'.pc = helper.pc /\ SameTask(helper', helper)
      BY <1>5, ServiceLost
    <2>2. /\ helper'.todo \subseteq Ids /\ helper'.version \in Versions \cup {Missing}
          /\ helper'.ok \in BOOLEAN
          /\ helper'.pc \notin {"off", "scan"} => helper'.id \in Ids /\ helper'.id \in files'
      BY <1>5, <2>1, HelperKeepsTask DEF ServerDies, recordVars
    <2>3. /\ running' = Missing /\ checked' = {} /\ late' = {} /\ task' = [o \in Ids |-> "none"]
          /\ dropped' = dropped
          /\ UNCHANGED <<units, status, request, files, markers, trigger, binary, candidate,
                         previous, told, base, confirmed>>
      BY <1>5 DEF ServerDies, ServerRuns, recordVars, binaryVars, historyVars
    <2> QED BY <2>1, <2>2, <2>3
  <1>6. CASE ServerStarts
    BY <1>6 DEF ServerStarts, ServerRuns, recordVars, binaryVars, historyVars
  <1>7. CASE HelperStarts \/ HelperDies
    <2>1. /\ helper' \in HelperRecords /\ helper'.version \in Versions \cup {Missing}
          /\ helper' = helper \/ helper'.pc \in {"off", "scan"}
      BY <1>7, HelperRewritten
    <2>2. helper'.todo \subseteq Ids /\ helper'.ok \in BOOLEAN
      BY <2>1 DEF HelperRecords
    <2>3. /\ UNCHANGED <<units, status, request, files, markers, running, checked, late, dropped, task,
                         binary, candidate, previous, told, base, confirmed>>
          /\ trigger' \in BOOLEAN
      BY <1>7 DEF HelperStarts, HelperDies, recordVars, serverVars, binaryVars, historyVars
    <2> QED BY <2>1, <2>2, <2>3
  <1> QED BY <1>1, <1>2, <1>3, <1>4, <1>5, <1>6, <1>7, <1>8, <1>9

(* The helper is done, passes over an operation, or takes one up.          *)
LEMMA ScanSteps ==
  ASSUME UpdateTypeOK, HelperTypeOK, Scan
  PROVE  /\ helper.pc = "scan" /\ helper' \in HelperRecords
         /\ helper'.version \in {helper.version, Missing}
         /\ UNCHANGED <<markers, running, checked, late, dropped, task, binary, candidate, previous,
                        confirmed, mishaps>>
         /\ \/ helper'.pc \in {"off", "scan"} /\ UNCHANGED <<status, base>>
            \/ \E o \in Ids : /\ status[o] = "staged"
                              /\ helper'.pc = "verify" /\ helper'.id = o
                              /\ helper'.version = helper.version
                              /\ status' = [status EXCEPT ![o] = "applying"]
                              /\ base' = [base EXCEPT ![o] = binary]
  <1>1. /\ helper.pc = "scan" /\ helper \in HelperRecords
        /\ UNCHANGED <<markers, running, checked, late, dropped, task, binary, candidate, previous,
                       confirmed, mishaps>>
    BY DEF Scan, serverVars, HelperAt, HelperTypeOK, binaryVars
  <1>2. CASE helper' = NoHelper /\ UNCHANGED <<status, base>>
    BY <1>1, <1>2, HelperBegins
  <1>3. ASSUME NEW o \in Ids, helper' = [helper EXCEPT !.todo = @ \ {o}]
        PROVE  helper' \in HelperRecords /\ helper'.pc = "scan" /\ helper'.version = helper.version
    BY <1>1, <1>3, HelperTakes
  <1>4. ASSUME NEW o \in Ids,
               helper' = [[helper EXCEPT !.todo = @ \ {o}] EXCEPT !.pc = "verify", !.id = o]
        PROVE  /\ helper' \in HelperRecords /\ helper'.pc = "verify" /\ helper'.id = o
               /\ helper'.version = helper.version
    BY <1>1, <1>4, HelperTakes
  <1>5. \/ helper' = NoHelper /\ UNCHANGED <<status, base>>
        \/ \E o \in Ids : helper' = [helper EXCEPT !.todo = @ \ {o}] /\ UNCHANGED <<status, base>>
        \/ \E o \in Ids :
             /\ status[o] = "staged"
             /\ helper' = [[helper EXCEPT !.todo = @ \ {o}] EXCEPT !.pc = "verify", !.id = o]
             /\ status' = [status EXCEPT ![o] = "applying"]
             /\ base' = [base EXCEPT ![o] = binary]
    BY DEF Scan, UpdateTypeOK
  <1> QED BY <1>1, <1>2, <1>3, <1>4, <1>5

(* Every other step works on the helper's operation and moves on.          *)
LEMMA WorkSteps ==
  ASSUME UpdateTypeOK, HelperTypeOK, HelperStep, ~Scan
  PROVE  /\ helper.pc \notin {"off", "scan"} /\ helper' \in HelperRecords
         /\ SameTask(helper', helper) /\ UNCHANGED base
         /\ UNCHANGED status \/ \E v \in {"boot_confirmed"} \cup Terminal : Sync(v)
  <1>1. ASSUME NEW to \in HelperPcs, HelperGoes(to)
        PROVE  helper' \in HelperRecords /\ SameTask(helper', helper)
    BY <1>1, HelperMoves
  <1>2. CASE ApplyStaged
    <2>1. UNCHANGED <<status, base>>
      BY <1>2 DEF ApplyStaged, historyVars
    <2>2. \E to \in HelperPcs : HelperGoes(to) /\ helper.pc \notin {"off", "scan"}
      BY <1>2 DEF ApplyStaged, WriteCandidate, ClearPrevious, MoveAside, MoveIn, ApplyFails,
                  MoveInFails, HelperPcs, HelperAt
    <2> QED BY <1>1, <2>1, <2>2
  <1>3. CASE Restart \/ RestartRestored
    <2>1. UNCHANGED <<status, base>> /\ helper.pc \notin {"off", "scan"}
      BY <1>3 DEF Restart, RestartRestored, SystemctlRestart, historyVars, HelperAt
    <2>2. PICK to \in HelperPcs, up \in BOOLEAN : helper' = [helper EXCEPT !.pc = to, !.ok = up]
      BY <1>3 DEF Restart, RestartRestored, SystemctlRestart, HelperPcs
    <2> QED BY <2>1, <2>2, HelperFields DEF HelperTypeOK
  <1>4. CASE Observe \/ Confirm \/ Report
    <2>1. \E to \in HelperPcs : HelperGoes(to) /\ helper.pc \notin {"off", "scan"}
      BY <1>4 DEF Observe, Confirm, Report, HelperPcs, HelperAt
    <2>2. UNCHANGED base /\ (UNCHANGED status \/ \E v \in {"boot_confirmed"} \cup Terminal : Sync(v))
      BY <1>4 DEF Observe, Confirm, Report, Terminal, historyVars
    <2> QED BY <1>1, <2>1, <2>2
  <1>5. CASE RollBack
    <2>1. \E to \in HelperPcs : HelperGoes(to) /\ helper.pc \notin {"off", "scan"}
      BY <1>5 DEF RollBack, RemoveNew, PutBack, HelperPcs, HelperAt
    <2> QED BY <1>1, <1>5, <2>1 DEF RollBack, historyVars
  <1>6. CASE ClearMarker
    <2>1. helper' \in HelperRecords /\ SameTask(helper', helper) /\ helper.pc \notin {"off", "scan"}
      BY <1>6, MarkerCleared
    <2> QED BY <1>6, <2>1 DEF ClearMarker, historyVars
  <1> QED BY <1>2, <1>3, <1>4, <1>5, <1>6 DEF HelperStep

LEMMA HelperStepTypes ==
  ASSUME UpdateTypeOK, HelperTypeOK, HelperStep
  PROVE  UpdateTypeOK' /\ HelperTypeOK'
  <1>0. UNCHANGED <<units, request, files, trigger, told>>
    BY DEF HelperStep
  <1>1. CASE Scan
    <2>1. helper' \in HelperRecords /\ helper'.todo \subseteq Ids /\ helper'.ok \in BOOLEAN
      BY <1>1, ScanSteps DEF HelperRecords
    <2> QED BY <1>0, <1>1, <2>1, ScanSteps DEF UpdateTypeOK, HelperTypeOK, Statuses
  <1>2. CASE ~Scan
    <2>1. /\ helper'.todo \subseteq Ids /\ helper'.version \in Versions \cup {Missing}
          /\ helper'.ok \in BOOLEAN
          /\ helper'.pc \notin {"off", "scan"} => helper'.id \in Ids /\ helper'.id \in files'
      BY <1>0, <1>2, WorkSteps, HelperKeepsTask
    <2>2. status' \in [Ids -> Statuses \cup {"none"}]
      BY <1>2, WorkSteps DEF Sync, UpdateTypeOK, Statuses
    <2>3. \A o \in Ids : status'[o] \in {"staged", "applying", "boot_confirmed"} => o \in files
      BY <1>2, WorkSteps DEF Sync, UpdateTypeOK, HelperTypeOK, Terminal
    <2>4. /\ \/ UNCHANGED <<checked, late, task>>
             \/ checked' = {} /\ late' = {} /\ task' = [o \in Ids |-> "none"]
          /\ UNCHANGED dropped
          /\ markers' \subseteq markers
          /\ {running', binary', previous', confirmed'}
               \subseteq {running, binary, candidate, previous, confirmed, Missing}
      BY <1>2 DEF HelperStep, ApplyStaged, WriteCandidate, ClearPrevious, MoveAside, MoveIn, ApplyFails,
                  MoveInFails, Restart, RestartRestored, SystemctlRestart, ServerRuns, Observe,
                  Confirm, Report, RollBack, RemoveNew, PutBack, ClearMarker, serverVars, binaryVars,
                  historyVars
    <2>5. candidate' \in Versions \cup {Missing}
      <3>1. CASE WriteCandidate
        BY <3>1, VersionsAreNumbers DEF WriteCandidate, HelperTypeOK, UpdateTypeOK, HelperAt
      <3>2. candidate' \in {candidate, Missing} \/ WriteCandidate
        BY <1>2 DEF HelperStep, ApplyStaged, ClearPrevious, MoveAside, MoveIn, ApplyFails,
                    MoveInFails, Restart, RestartRestored, SystemctlRestart, Observe, Confirm, Report,
                    RollBack, RemoveNew, PutBack, ClearMarker, binaryVars, historyVars
      <3> QED BY <3>1, <3>2 DEF UpdateTypeOK
    <2>6. /\ task' \in [Ids -> {"none", "begin", "fetch", "ready", "mark", "fail"}]
          /\ \A o \in Ids : task'[o] \in {"none", task[o]}
      BY <2>4 DEF UpdateTypeOK
    <2>7. helper' \in HelperRecords /\ UNCHANGED base
      BY <1>2, WorkSteps
    <2> QED BY <1>0, <2>1, <2>2, <2>3, <2>4, <2>5, <2>6, <2>7 DEF UpdateTypeOK, HelperTypeOK
  <1> QED BY <1>1, <1>2

LEMMA StepTypes ==
  ASSUME UpdateTypeOK, HelperTypeOK, [UpdateNext]_updateVars
  PROVE  UpdateTypeOK' /\ HelperTypeOK'
  <1>1. CASE UNCHANGED updateVars
    BY <1>1 DEF updateVars, recordVars, serverVars, binaryVars, historyVars, UpdateTypeOK, HelperTypeOK
  <1> QED BY <1>1, ServerStepTypes, HelperStepTypes DEF UpdateNext

(* The record is written by the steps that have one to write.              *)
LEMMA StepRecords ==
  ASSUME UpdateTypeOK, HelperTypeOK, RecordsExist, [UpdateNext]_updateVars
  PROVE  RecordsExist'
  <1> USE DEF UpdateTypeOK, HelperTypeOK, RecordsExist
  <1>1. ASSUME NEW r \in Requests, Check(r)
        PROVE  RecordsExist'
    <2>1. /\ checked = {} /\ checked' = {r} /\ status[r.id] = "none" /\ r.id \in Ids
          /\ running # Missing
          /\ UNCHANGED <<status, request, running, late, dropped, task, helper>>
      BY <1>1, VersionsAreNumbers DEF Check, LockFree, recordVars
    <2> QED BY <2>1
  <1>2. ASSUME NEW r \in Requests, Accept(r)
        PROVE  RecordsExist'
    <2>1. /\ r \in checked /\ checked' = {} /\ r.id \in Ids /\ status[r.id] \in {"none", "queued"}
          /\ status' = [status EXCEPT ![r.id] = "queued"]
          /\ task' = [task EXCEPT ![r.id] = "begin"]
          /\ request' = [request EXCEPT ![r.id] = {r}]
          /\ UNCHANGED <<running, helper, late, dropped>>
      BY <1>2, VersionsAreNumbers DEF Accept
    <2>2. \A o \in Ids : /\ status'[o] # "none" => o = r.id \/ status[o] # "none"
                         /\ status[o] # "none" => status'[o] # "none"
                         /\ status[o] \notin {"none", "queued"} => status'[o] = status[o]
                         /\ task'[o] # "none" => o = r.id \/ task[o] # "none"
      BY <2>1
    <2>3. request'[r.id] # {} /\ status'[r.id] # "none" /\ running # Missing
      BY <2>1
    <2>4. \A o \in Ids \ {r.id} : request'[o] = request[o]
      BY <2>1
    <2>5. \A o \in Ids : status'[o] # "none" => request'[o] # {}
      BY <2>2, <2>3, <2>4
    <2>6. \A o \in Ids : task'[o] # "none" => status'[o] # "none"
      BY <2>2, <2>3
    <2>7. helper.pc \notin {"off", "scan"} => status'[helper.id] \notin {"none", "queued"}
      BY <2>2
    <2> HIDE DEF UpdateTypeOK, HelperTypeOK
    <2> QED BY <2>1, <2>3, <2>5, <2>6, <2>7
  <1>3. ASSUME NEW o \in Ids, StageStep(o)
        PROVE  RecordsExist'
    <2>1. UNCHANGED <<running, checked, late, dropped, helper, request>>
      BY <1>3 DEF StageStep, StageBegins, StageSaves, StageFails, StageReady, WriteMarker,
                  RecordFailure, recordVars
    <2>2. task[o] # "none" /\ \E t \in {"none", "fetch", "ready", "mark", "fail"} :
                                task' = [task EXCEPT ![o] = t]
      BY <1>3 DEF StageStep, StageBegins, StageSaves, StageFails, StageReady, WriteMarker, RecordFailure
    <2>3. \/ UNCHANGED status
          \/ \E v \in {"downloading", "staged", "failed"} : status' = [status EXCEPT ![o] = v]
      BY <1>3 DEF StageStep, StageBegins, StageSaves, StageFails, StageReady, WriteMarker,
                  RecordFailure, recordVars
    <2>4. \A x \in Ids : /\ status'[x] # "none" <=> status[x] # "none"
                         /\ status[x] \in {"none", "queued"} \/ status'[x] \notin {"none", "queued"}
      BY <2>2, <2>3
    <2>5. \A x \in Ids : task'[x] # "none" => task[x] # "none"
      BY <2>2
    <2>6. \A r \in checked : r.id \in Ids
      BY VersionsAreNumbers
    <2>7. \A r \in checked : status'[r.id] = status[r.id] /\ task'[r.id] = task[r.id]
      BY <2>2, <2>3, <2>6
    <2> QED BY <2>1, <2>4, <2>5, <2>6, <2>7
  <1>4. CASE (\E o \in Ids : Poll(o)) \/ UNCHANGED updateVars
    BY <1>4 DEF Poll, updateVars, recordVars, serverVars
  <1>5. CASE ServerDies \/ ServerStarts
    <2>1. /\ checked' = {} /\ late' = {} /\ task' = [o \in Ids |-> "none"]
          /\ UNCHANGED <<status, request>>
      BY <1>5 DEF ServerDies, ServerStarts, ServerRuns, recordVars
    <2>2. helper'.pc = helper.pc /\ helper'.id = helper.id
      <3>1. CASE ServerDies
        BY <3>1, ServiceLost DEF SameTask
      <3>2. CASE ServerStarts
        BY <3>2 DEF ServerStarts
      <3> QED BY <1>5, <3>1, <3>2
    <2> QED BY <2>1, <2>2
  <1>6. CASE HelperStarts \/ HelperDies
    <2>1. /\ UNCHANGED <<status, request, running, checked, late, dropped, task>>
          /\ helper'.pc \in {"off", "scan"}
      <3>1. CASE HelperStarts
        BY <3>1, HelperStartsScan DEF HelperStarts, recordVars, serverVars
      <3>2. CASE HelperDies
        BY <3>2, HelperBegins DEF HelperDies, recordVars, serverVars
      <3> QED BY <1>6, <3>1, <3>2
    <2> QED BY <2>1
  <1>7. CASE HelperStep
    <2>1. \/ UNCHANGED <<running, checked, late, dropped, task>>
          \/ /\ checked' = {} /\ late' = {} /\ task' = [o \in Ids |-> "none"]
      BY <1>7 DEF HelperStep, Scan, ApplyStaged, Restart, RestartRestored, SystemctlRestart,
                  ServerRuns, Observe, Confirm, Report, RollBack, ClearMarker, serverVars
    <2>2. /\ \A o \in Ids : /\ status[o] = "none" <=> status'[o] = "none"
                            /\ status[o] \in {"none", "queued"} => status'[o] = status[o]
          /\ helper'.pc \notin {"off", "scan"} =>
               helper'.id \in Ids /\ status'[helper'.id] \notin {"none", "queued"}
      <3>1. CASE Scan
        BY <3>1, ScanSteps
      <3>2. CASE ~Scan
        BY <1>7, <3>2, WorkSteps DEF Sync, Terminal, SameTask
      <3> QED BY <3>1, <3>2
    <2>3. \A r \in checked : r.id \in Ids
      BY VersionsAreNumbers
    <2> QED BY <1>7, <2>1, <2>2, <2>3 DEF HelperStep
  <1>8. ASSUME NEW r \in Requests, DropStart(r)
        PROVE  RecordsExist'
    BY <1>8 DEF DropStart, recordVars
  <1>9. ASSUME NEW r \in Requests, LateRecord(r)
        PROVE  RecordsExist'
    <2>1. r.id \in Ids /\ late' \subseteq late /\ UNCHANGED <<running, checked, dropped, task, helper>>
      BY <1>9, VersionsAreNumbers DEF LateRecord
    <2>2. CASE UNCHANGED <<status, request>>
      BY <2>1, <2>2
    <2>3. CASE /\ status[r.id] = "none" /\ status' = [status EXCEPT ![r.id] = "queued"]
               /\ request' = [request EXCEPT ![r.id] = {r}]
      <3>1. \A o \in Ids \ {r.id} : status'[o] = status[o] /\ request'[o] = request[o]
        BY <2>3
      <3>2. status'[r.id] = "queued" /\ request'[r.id] # {}
        BY <2>1, <2>3
      <3>3. \A s \in checked : s.id \in Ids
        BY VersionsAreNumbers
      <3> HIDE DEF UpdateTypeOK
      <3> QED BY <2>1, <2>3, <3>1, <3>2, <3>3
    <2> QED BY <1>9, <2>2, <2>3 DEF LateRecord
  <1> QED BY <1>1, <1>2, <1>3, <1>4, <1>5, <1>6, <1>7, <1>8, <1>9 DEF UpdateNext
-----------------------------------------------------------------------------
(* The files                                                               *)

(* A step that touches no executable and not the helper's place: the server's*)
(* and the clock's.                                                        *)
LEMMA FilesLeftAlone ==
  ASSUME HelperKnowsFiles, SomethingToRestore,
         UNCHANGED <<binary, candidate, previous, base>>,
         helper'.pc = helper.pc, helper'.id = helper.id,
         helper.pc \notin {"off", "scan"} => request'[helper.id] = request[helper.id],
         running' \in {running, binary, Missing}, mishaps \subseteq mishaps'
  PROVE  HelperKnowsFiles' /\ SomethingToRestore'
  BY DEF HelperKnowsFiles, SomethingToRestore, Before, Installed, Started, Back

LEMMA MishapsStay ==
  ASSUME [UpdateNext]_updateVars
  PROVE  mishaps \subseteq mishaps'
  BY DEF UpdateNext, updateVars, Check, Accept, DropStart, LateRecord, StageStep, StageBegins,
         StageSaves, StageFails, StageReady, WriteMarker, RecordFailure, Mishap, Poll, ServerDies, ServerStarts, HelperStarts,
         HelperDies, HelperStep, Scan, ApplyStaged, MoveInFails, Restart, RestartRestored,
         SystemctlRestart, Observe, Confirm, RollBack, RemoveNew, PutBack, Report, ClearMarker

LEMMA ServerStepFiles ==
  ASSUME UpdateTypeOK, HelperTypeOK, RecordsExist, HelperKnowsFiles, SomethingToRestore,
         \/ \E r \in Requests : Check(r) \/ Accept(r) \/ DropStart(r) \/ LateRecord(r)
         \/ \E o \in Ids : StageStep(o) \/ Poll(o)
         \/ ServerDies \/ ServerStarts \/ UNCHANGED updateVars
  PROVE  HelperKnowsFiles' /\ SomethingToRestore'
  <1>1. UNCHANGED <<binary, candidate, previous, base>> /\ running' \in {running, binary, Missing}
    BY DEF Check, Accept, DropStart, LateRecord, StageStep, Poll, ServerDies, ServerStarts, ServerRuns, updateVars,
           serverVars, binaryVars, historyVars
  <1>2. mishaps \subseteq mishaps'
    BY MishapsStay DEF UpdateNext
  <1>3. helper'.pc = helper.pc /\ helper'.id = helper.id
    <2>1. helper' \in {helper, [helper EXCEPT !.ok = FALSE]}
      BY DEF Check, Accept, DropStart, LateRecord, StageStep, Poll, ServerDies, ServerStarts, updateVars
    <2> QED BY <2>1, HelperLosesService DEF HelperTypeOK, SameTask
  <1>4. helper.pc \notin {"off", "scan"} => request'[helper.id] = request[helper.id]
    <2>1. ASSUME NEW r \in Requests, Accept(r) \/ LateRecord(r), helper.pc \notin {"off", "scan"}
          PROVE  request'[helper.id] = request[helper.id]
      <3>1. status[r.id] \in {"none", "queued"} \/ UNCHANGED request
        BY <2>1 DEF Accept, LateRecord, RecordsExist
      <3>2. UNCHANGED request \/ (request' = [request EXCEPT ![r.id] = {r}] /\ helper.id # r.id)
        BY <2>1, <3>1 DEF Accept, LateRecord, RecordsExist
      <3> QED BY <2>1, <3>2 DEF UpdateTypeOK
    <2>2. (\E r \in Requests : Accept(r) \/ LateRecord(r)) \/ UNCHANGED request
      BY DEF Check, DropStart, StageStep, StageBegins, StageSaves, StageFails, StageReady, WriteMarker,
             RecordFailure, Poll, ServerDies, ServerStarts, updateVars, recordVars
    <2> QED BY <2>1, <2>2
  <1> QED BY <1>1, <1>2, <1>3, <1>4, FilesLeftAlone

LEMMA HelperComesAndGoes ==
  ASSUME UpdateTypeOK, HelperTypeOK, HelperKnowsFiles, SomethingToRestore, HelperStarts \/ HelperDies
  PROVE  HelperKnowsFiles' /\ SomethingToRestore'
  <1>1. /\ UNCHANGED <<binary, candidate, previous, base, request>>
    BY DEF HelperStarts, HelperDies, recordVars, binaryVars, historyVars
  <1>2. mishaps \subseteq mishaps'
    BY MishapsStay DEF UpdateNext
  <1>3. helper'.pc = "off" \/ (helper'.pc = "scan" /\ binary # Missing)
    BY HelperStartsScan, HelperBegins DEF HelperDies
  <1>4. SomethingToRestore'
    BY <1>1, <1>2 DEF SomethingToRestore
  <1> QED BY <1>1, <1>2, <1>3, <1>4 DEF HelperKnowsFiles, Before, Installed, Started, Back

(* Each step of the helper finds the files as the one before left them.    *)
LEMMA HelperStepFiles ==
  ASSUME UpdateTypeOK, HelperTypeOK, RecordsExist, HelperKnowsFiles, SomethingToRestore, HelperStep
  PROVE  HelperKnowsFiles' /\ SomethingToRestore'
  <1>0. UNCHANGED request /\ mishaps \subseteq mishaps'
    BY MishapsStay DEF HelperStep, UpdateNext
  <1>1. CASE Scan
    <2> USE DEF HelperKnowsFiles, SomethingToRestore, Before, Installed, Started, Back
    <2>1. /\ helper.pc = "scan" /\ UNCHANGED <<binary, candidate, previous, running, mishaps>>
      BY <1>1, ScanSteps
    <2>2. SomethingToRestore'
      BY <2>1
    <2>3. CASE helper'.pc \in {"off", "scan"} /\ UNCHANGED base
      BY <2>1, <2>2, <2>3
    <2>4. ASSUME NEW o \in Ids, helper'.pc = "verify", helper'.id = o,
                 base' = [base EXCEPT ![o] = binary]
          PROVE  HelperKnowsFiles'
      <3>1. base'[o] = binary
        BY <2>4 DEF UpdateTypeOK
      <3> QED BY <2>1, <2>4, <3>1
    <2> QED BY <1>1, <2>2, <2>3, <2>4, ScanSteps
  <1>2. CASE ~Scan
    <2> DEFINE o == helper.id
    <2>0. o \in Ids /\ helper'.id = o /\ UNCHANGED base
      BY <1>2, WorkSteps DEF HelperTypeOK, SameTask
    <2>pc. ASSUME NEW to \in HelperPcs, HelperGoes(to)
           PROVE  helper'.pc = to
      BY <2>pc, HelperMoves
    <2>r. \E r \in Requests : request[o] = {r} /\ r.version \in Nat \ {0}
      <3>1. request[o] # {}
        BY <1>2, <2>0, WorkSteps DEF RecordsExist
      <3> QED BY <2>0, <3>1, VersionsAreNumbers DEF UpdateTypeOK
    <2> USE DEF HelperKnowsFiles, SomethingToRestore, Before, Installed, Started, Back, HelperAt
    <2>1. CASE WriteCandidate /\ UNCHANGED mishaps
      <3>1. helper'.pc = "written"
        BY <2>1, <2>pc DEF WriteCandidate, HelperPcs
      <3> QED BY <1>0, <2>0, <2>r, <2>1, <3>1 DEF WriteCandidate, Missing
    <2>2. CASE ClearPrevious /\ UNCHANGED mishaps
      <3>1. helper'.pc = "cleared"
        BY <2>2, <2>pc DEF ClearPrevious, HelperPcs
      <3> QED BY <1>0, <2>0, <2>2, <3>1 DEF ClearPrevious
    <2>3. CASE MoveAside /\ UNCHANGED mishaps
      <3>1. helper'.pc = "moved"
        BY <2>3, <2>pc DEF MoveAside, HelperPcs
      <3> QED BY <1>0, <2>0, <2>3, <3>1 DEF MoveAside
    <2>4. CASE MoveIn /\ UNCHANGED mishaps
      <3>1. helper'.pc = "restart"
        BY <2>4, <2>pc DEF MoveIn, HelperPcs
      <3> QED BY <1>0, <2>0, <2>4, <3>1 DEF MoveIn
    <2>5. CASE ApplyFails /\ UNCHANGED mishaps
      <3>1. helper'.pc = "fail"
        BY <2>5, <2>pc DEF ApplyFails, HelperPcs
      <3> QED BY <1>0, <2>0, <2>5, <3>1 DEF ApplyFails, binaryVars
    <2>6. CASE MoveInFails
      <3>1. helper'.pc = "fail"
        BY <2>6, <2>pc DEF MoveInFails, HelperPcs
      <3>2. CASE binary' = previous /\ previous' = Missing
        BY <1>0, <2>0, <2>6, <3>1, <3>2 DEF MoveInFails
      <3>3. CASE "restore failed" \in mishaps' /\ UNCHANGED <<binary, previous>>
        BY <1>0, <2>0, <2>6, <3>1, <3>3
      <3> QED BY <2>6, <3>2, <3>3 DEF MoveInFails, Mishap
    <2>7. CASE Restart \/ RestartRestored
      <3>2. \/ helper.pc = "restart" /\ helper'.pc = "observe"
            \/ helper.pc = "restored" /\ helper'.pc = "report"
        BY <2>7, RestartSteps
      <3>3. running' \in {binary, Missing} /\ UNCHANGED <<binary, candidate, previous, mishaps>>
        BY <2>7, RestartSteps
      <3>4. CASE helper.pc = "restart" /\ helper'.pc = "observe"
        <4> HIDE DEF HelperAt
        <4> QED BY <1>0, <2>0, <3>3, <3>4
      <3>5. CASE helper.pc = "restored" /\ helper'.pc = "report"
        <4>1. SomethingToRestore'
          BY <1>0, <3>3
        <4> QED BY <1>0, <2>0, <3>3, <3>5, <4>1
      <3> QED BY <3>2, <3>4, <3>5
    <2>8. CASE Observe \/ Confirm
      <3>1. \/ helper.pc = "observe" /\ helper'.pc \in {"confirm", "rollback"}
            \/ helper.pc = "confirm" /\ helper'.pc = "succeed"
            \/ helper.pc = "succeed" /\ helper'.pc = "clear"
        BY <2>8, <2>pc DEF Observe, Confirm, HelperPcs
      <3>2. UNCHANGED <<binary, candidate, previous, running, mishaps>>
        BY <2>8 DEF Observe, Confirm, serverVars, binaryVars
      <3> QED BY <1>0, <2>0, <3>1, <3>2
    <2>9. CASE RemoveNew
      <3>1. helper.pc = "rollback" /\ helper'.pc \in {"unlinked", "fail"}
        BY <2>9, <2>pc DEF RemoveNew, HelperPcs
      <3>2. helper'.pc = "unlinked" \/ "restore failed" \in mishaps'
        BY <2>9, <2>pc DEF RemoveNew, HelperPcs, Mishap
      <3>3. \/ helper'.pc = "unlinked" /\ binary' = Missing
            \/ helper'.pc = "fail" /\ UNCHANGED binary
        BY <2>9, <2>pc DEF RemoveNew, HelperPcs
      <3> QED BY <1>0, <2>0, <2>9, <3>1, <3>2, <3>3 DEF RemoveNew
    <2>10. CASE PutBack
      <3>1. \/ /\ helper'.pc = "restored" /\ previous # Missing /\ binary' = previous
               /\ previous' = Missing
            \/ helper'.pc = "fail" /\ "restore failed" \in mishaps' /\ UNCHANGED <<binary, previous>>
        BY <2>10, <2>pc DEF PutBack, HelperPcs, Mishap
      <3> QED BY <1>0, <2>0, <2>10, <3>1 DEF PutBack
    <2>11. CASE Report
      <3>1. helper.pc \in {"report", "fail"} /\ helper'.pc = "clear"
        BY <2>11, <2>pc DEF Report, HelperPcs
      <3> QED BY <1>0, <2>0, <2>11, <3>1 DEF Report, serverVars, binaryVars
    <2>12. CASE ClearMarker
      <3>1. helper.pc = "clear" /\ helper'.pc = "scan"
        BY <2>12, MarkerCleared
      <3> QED BY <1>0, <2>0, <2>12, <3>1 DEF ClearMarker, serverVars, binaryVars
    <2> QED BY <1>2, <2>1, <2>2, <2>3, <2>4, <2>5, <2>6, <2>7, <2>8, <2>9, <2>10, <2>11, <2>12
            DEF HelperStep, ApplyStaged, RollBack
  <1> QED BY <1>1, <1>2

LEMMA StepFiles ==
  ASSUME UpdateTypeOK, HelperTypeOK, RecordsExist, HelperKnowsFiles, SomethingToRestore,
         [UpdateNext]_updateVars
  PROVE  HelperKnowsFiles' /\ SomethingToRestore'
  BY ServerStepFiles, HelperComesAndGoes, HelperStepFiles DEF UpdateNext
-----------------------------------------------------------------------------
(* One operation at a time                                                 *)

(* A step that ends operations, if anything, and leaves the rest to itself.*)
LEMMA FewerEngaged ==
  ASSUME OneAtATime, Engaged' \subseteq Engaged, checked' \subseteq checked
  PROVE  (\A a, b \in Engaged' : a = b) /\ (checked' # {} => Engaged' = {})
  BY DEF OneAtATime

LEMMA StepOneAtATime ==
  ASSUME UpdateTypeOK, HelperTypeOK, RecordsExist, OneAtATime, Undisturbed', [UpdateNext]_updateVars
  PROVE  OneAtATime'
  <1> USE DEF Active, Terminal, Engaged, Working
  <1>1. ASSUME NEW r \in Requests, Check(r)
        PROVE  OneAtATime'
    BY <1>1 DEF Check, OneAtATime, recordVars
  <1>8. ASSUME NEW r \in Requests, DropStart(r)
        PROVE  OneAtATime'
    <2>1. checked' \subseteq checked /\ dropped \subseteq dropped' /\ UNCHANGED <<status, task, helper>>
      BY <1>8 DEF DropStart, recordVars
    <2>2. Engaged' \subseteq Engaged
      BY <2>1
    <2>3. (\A a, b \in Engaged' : a = b) /\ (checked' # {} => Engaged' = {})
      BY <2>1, <2>2, FewerEngaged
    <2> HIDE DEF Engaged
    <2> QED BY <2>1, <2>3 DEF OneAtATime
  <1>9. ASSUME NEW r \in Requests, LateRecord(r)
        PROVE  OneAtATime'
    <2>1. /\ r.id \in Ids /\ r.id \in dropped
          /\ UNCHANGED <<checked, dropped, task, helper>>
      BY <1>9, VersionsAreNumbers DEF LateRecord, RecordsExist
    <2>2. CASE UNCHANGED status
      BY <2>1, <2>2 DEF OneAtATime
    <2>3. CASE status[r.id] = "none" /\ status' = [status EXCEPT ![r.id] = "queued"]
      <3>1. \A o \in Ids \ {r.id} : status'[o] = status[o]
        BY <2>3 DEF UpdateTypeOK
      <3>2. status'[r.id] = "queued" /\ task[r.id] = "none"
        BY <2>1, <2>3 DEF UpdateTypeOK, RecordsExist
      <3>3. Engaged' \subseteq Engaged
        BY <2>1, <3>1, <3>2
      <3>4. (\A a, b \in Engaged' : a = b) /\ (checked' # {} => Engaged' = {})
        BY <2>1, <3>3, FewerEngaged
      <3>5. helper.pc \notin {"off", "scan"} => helper.id \in Ids \ {r.id}
        BY <2>3 DEF HelperTypeOK, RecordsExist
      <3> HIDE DEF Engaged
      <3> QED BY <2>1, <3>1, <3>2, <3>4, <3>5 DEF OneAtATime
    <2> QED BY <1>9, <2>2, <2>3 DEF LateRecord
  <1>2. ASSUME NEW r \in Requests, Accept(r)
        PROVE  OneAtATime'
    <2>1. /\ r \in checked /\ checked' = {} /\ r.id \in Ids /\ status[r.id] \in {"none", "queued"}
          /\ status' = [status EXCEPT ![r.id] = "queued"]
          /\ task' = [task EXCEPT ![r.id] = "begin"]
          /\ UNCHANGED <<helper, dropped>>
      BY <1>2, VersionsAreNumbers DEF Accept, RecordsExist, UpdateTypeOK
    <2>2. \A o \in Ids \ {r.id} : status'[o] = status[o] /\ task'[o] = task[o]
      BY <2>1 DEF UpdateTypeOK
    <2>3. status'[r.id] = "queued" /\ task'[r.id] = "begin"
      BY <2>1 DEF UpdateTypeOK
    <2>4. Engaged = {}
      BY <2>1 DEF OneAtATime
    <2>5. \A a, b \in Engaged' : a = b
      <3>1. Engaged' \subseteq {r.id}
        BY <2>1, <2>2, <2>4
      <3> QED BY <3>1
    <2>6. helper.pc \notin {"off", "scan"} => helper.id \in Ids \ {r.id}
      BY <2>1 DEF HelperTypeOK, RecordsExist
    <2>7. \A o \in Ids : /\ task'[o] = "begin" => status'[o] = "queued"
                         /\ task'[o] \in {"fetch", "ready"} => status'[o] = "downloading"
                         /\ task'[o] = "fail" => status'[o] \in {"queued", "downloading"}
      BY <2>2, <2>3 DEF OneAtATime
    <2> QED BY <2>1, <2>2, <2>5, <2>6, <2>7 DEF OneAtATime
  <1>3. ASSUME NEW o \in Ids, StageStep(o)
        PROVE  OneAtATime'
    <2>1. UNCHANGED <<checked, dropped, helper>> /\ task[o] # "none"
      BY <1>3 DEF StageStep, StageBegins, StageSaves, StageFails, StageReady, WriteMarker, RecordFailure
    <2>2. PICK v \in Statuses, t \in {"none", "fetch", "ready", "mark", "fail"} :
            /\ status' = [status EXCEPT ![o] = v] /\ task' = [task EXCEPT ![o] = t]
            /\ t \in {"fetch", "ready"} => v = "downloading"
            /\ t = "fail" => v \in {"queued", "downloading"}
            /\ \/ v = status[o]
               \/ status[o] \in {"queued", "downloading"}
      <3>0. status[o] \in Statuses /\ status = [status EXCEPT ![o] = status[o]]
        BY <2>1 DEF UpdateTypeOK, RecordsExist
      <3> USE DEF OneAtATime, Statuses
      <3>1. CASE StageBegins(o)
        BY <2>1, <3>0, <3>1 DEF StageBegins
      <3>2. CASE StageSaves(o)
        BY <2>1, <3>0, <3>2 DEF StageSaves
      <3>3. CASE StageFails(o)
        BY <2>1, <3>0, <3>3 DEF StageFails, recordVars
      <3>4. CASE StageReady(o)
        BY <2>1, <3>0, <3>4 DEF StageReady
      <3>5. CASE WriteMarker(o)
        BY <2>1, <3>0, <3>5 DEF WriteMarker, Mishap, Undisturbed
      <3>6. CASE RecordFailure(o)
        BY <2>1, <3>0, <3>6 DEF RecordFailure
      <3> QED BY <1>3, <3>1, <3>2, <3>3, <3>4, <3>5, <3>6 DEF StageStep
    <2>3. /\ \A x \in Ids \ {o} : status'[x] = status[x] /\ task'[x] = task[x]
          /\ status'[o] = v /\ task'[o] = t /\ status[o] # "none"
      BY <2>1, <2>2 DEF UpdateTypeOK, RecordsExist
    <2>4. Engaged' \subseteq Engaged
      BY <2>1, <2>2, <2>3
    <2>5. /\ helper.pc \notin {"off", "scan", "succeed", "clear"} => status'[helper.id] = "applying"
          /\ helper.pc = "succeed" => status'[helper.id] = "boot_confirmed"
      BY <2>2, <2>3 DEF OneAtATime, HelperTypeOK
    <2>6. \A x \in Ids : /\ task'[x] = "begin" => status'[x] = "queued"
                         /\ task'[x] \in {"fetch", "ready"} => status'[x] = "downloading"
                         /\ task'[x] = "fail" => status'[x] \in {"queued", "downloading"}
      BY <2>2, <2>3 DEF OneAtATime
    <2>7. (\A a, b \in Engaged' : a = b) /\ (checked' # {} => Engaged' = {})
      BY <2>1, <2>4, FewerEngaged
    <2> HIDE DEF Active, Engaged
    <2> QED BY <2>1, <2>5, <2>6, <2>7 DEF OneAtATime
  <1>4. CASE (\E o \in Ids : Poll(o)) \/ UNCHANGED updateVars
    BY <1>4 DEF Poll, updateVars, recordVars, serverVars, OneAtATime
  <1>5. CASE ServerDies \/ ServerStarts
    <2>1. /\ checked' = {} /\ task' = [o \in Ids |-> "none"]
          /\ UNCHANGED <<status, dropped>>
      BY <1>5 DEF ServerDies, ServerStarts, ServerRuns, recordVars
    <2>2. helper'.pc = helper.pc /\ helper'.id = helper.id
      <3>1. helper' \in {helper, [helper EXCEPT !.ok = FALSE]}
        BY <1>5 DEF ServerDies, ServerStarts
      <3> QED BY <3>1, HelperLosesService DEF SameTask, HelperTypeOK
    <2> QED BY <2>1, <2>2 DEF OneAtATime
  <1>6. CASE HelperStarts \/ HelperDies
    <2>1. helper'.pc \in {"off", "scan"}
      BY <1>6, HelperStartsScan, HelperBegins DEF HelperDies
    <2>2. UNCHANGED <<status, checked, dropped, task>>
      BY <1>6 DEF HelperStarts, HelperDies, recordVars, serverVars
    <2> QED BY <2>1, <2>2 DEF OneAtATime
  <1>7. CASE HelperStep
    <2>1. /\ \/ UNCHANGED <<checked, task>>
             \/ checked' = {} /\ task' = [o \in Ids |-> "none"]
          /\ UNCHANGED dropped
      BY <1>7 DEF HelperStep, Scan, ApplyStaged, Restart, RestartRestored, SystemctlRestart,
                  ServerRuns, Observe, Confirm, Report, RollBack, ClearMarker, serverVars
    <2>2. /\ \A o \in Ids : \/ status'[o] = status[o]
                            \/ /\ status[o] \in {"staged", "applying", "boot_confirmed"}
                               /\ status'[o] # "none"
          /\ helper'.pc \notin {"off", "scan", "succeed", "clear"} => status'[helper'.id] = "applying"
          /\ helper'.pc = "succeed" => status'[helper'.id] = "boot_confirmed"
      <3>1. CASE Scan
        BY <3>1, ScanSteps DEF UpdateTypeOK
      <3>2. CASE Confirm \/ Report
        <4>1. helper.id \in Ids /\ helper'.id = helper.id
          BY <1>7, <3>2, WorkSteps DEF SameTask, HelperTypeOK, Confirm, Report, Scan, HelperAt
        <4>2. /\ helper.pc \in {"confirm", "report", "fail", "succeed"}
              /\ \/ Sync("boot_confirmed") /\ helper'.pc = "succeed"
                 \/ (\E v \in Terminal : Sync(v)) /\ helper'.pc = "clear"
          BY <3>2, HelperMoves DEF Confirm, Report, HelperAt, HelperPcs
        <4> QED BY <4>1, <4>2 DEF OneAtATime, Sync, UpdateTypeOK
      <3>3. CASE ~Scan /\ ~Confirm /\ ~Report
        <4>1. /\ helper'.id = helper.id /\ UNCHANGED status
          BY <1>7, <3>3, WorkSteps DEF SameTask, HelperStep, ApplyStaged, Restart, RestartRestored,
             SystemctlRestart, Observe, RollBack, ClearMarker
        <4>2. \/ /\ helper.pc \notin {"off", "scan", "succeed", "clear"}
                 /\ helper'.pc \notin {"off", "scan", "succeed", "clear"}
              \/ helper'.pc = "scan"
          <5>1. CASE Restart \/ RestartRestored
            BY <5>1, RestartSteps
          <5>2. CASE ClearMarker
            BY <5>2, MarkerCleared
          <5>3. CASE ApplyStaged \/ Observe \/ RollBack
            <6>1. \E to \in HelperPcs \ {"off", "scan", "succeed", "clear"} :
                    HelperGoes(to) /\ helper.pc \notin {"off", "scan", "succeed", "clear"}
              BY <5>3 DEF ApplyStaged, WriteCandidate, ClearPrevious, MoveAside, MoveIn, ApplyFails,
                          MoveInFails, Observe, RollBack, RemoveNew, PutBack, HelperPcs, HelperAt
            <6> QED BY <6>1, HelperMoves
          <5> QED BY <1>7, <3>3, <5>1, <5>2, <5>3 DEF HelperStep
        <4> QED BY <4>1, <4>2 DEF OneAtATime
      <3> QED BY <3>1, <3>2, <3>3
    <2>3. Engaged' \subseteq Engaged
      BY <2>1, <2>2
    <2>4. (\A a, b \in Engaged' : a = b) /\ (checked' # {} => Engaged' = {})
      BY <2>1, <2>3, FewerEngaged
    <2>5. \A o \in Ids : /\ task'[o] = "begin" => status'[o] = "queued"
                         /\ task'[o] \in {"fetch", "ready"} => status'[o] = "downloading"
                         /\ task'[o] = "fail" => status'[o] \in {"queued", "downloading"}
      BY <2>1, <2>2 DEF OneAtATime
    <2> HIDE DEF Active, Engaged
    <2> QED BY <2>2, <2>4, <2>5 DEF OneAtATime
  <1> QED BY <1>1, <1>2, <1>3, <1>4, <1>5, <1>6, <1>7, <1>8, <1>9 DEF UpdateNext
-----------------------------------------------------------------------------
(* Nothing older                                                           *)

(* A step that confirms nothing and stages nothing new.                    *)
LEMMA SameConfirmed ==
  ASSUME NothingOlder, UNCHANGED <<request, confirmed>>,
         \A o \in Ids : /\ task'[o] = "ready" => task[o] = "ready"
                        /\ status'[o] \in {"staged", "applying"} =>
                             status[o] \in {"staged", "applying"} \/ task[o] = "ready"
  PROVE  StagedIsNewer'
  BY DEF NothingOlder, StagedIsNewer

LEMMA ServerStepOlder ==
  ASSUME UpdateTypeOK, HelperTypeOK, RecordsExist, NothingOlder,
         \/ \E r \in Requests : Check(r) \/ Accept(r) \/ DropStart(r) \/ LateRecord(r)
         \/ \E o \in Ids : StageStep(o) \/ Poll(o)
         \/ ServerDies \/ ServerStarts \/ UNCHANGED updateVars
  PROVE  NothingOlder'
  <1>1. UNCHANGED <<binary, previous, confirmed>> /\ running' \in {running, binary, Missing}
    BY DEF Check, Accept, DropStart, LateRecord, StageStep, Poll, ServerDies, ServerStarts, ServerRuns, updateVars,
           serverVars, binaryVars, historyVars
  <1>2. helper'.pc = helper.pc
    <2>1. helper' \in {helper, [helper EXCEPT !.ok = FALSE]}
      BY DEF Check, Accept, DropStart, LateRecord, StageStep, Poll, ServerDies, ServerStarts, updateVars
    <2> QED BY <2>1, HelperLosesService DEF HelperTypeOK
  <1>3. StagedIsNewer'
    <2> USE DEF StagedIsNewer
    <2>1. ASSUME NEW r \in Requests, Accept(r)
          PROVE  StagedIsNewer'
      <3>1. /\ r.id \in Ids /\ status' = [status EXCEPT ![r.id] = "queued"]
            /\ task' = [task EXCEPT ![r.id] = "begin"] /\ request' = [request EXCEPT ![r.id] = {r}]
        BY <2>1, VersionsAreNumbers DEF Accept
      <3>2. \A o \in Ids : \/ task'[o] = "begin" /\ status'[o] = "queued"
                           \/ task'[o] = task[o] /\ status'[o] = status[o] /\ request'[o] = request[o]
        BY <3>1 DEF UpdateTypeOK
      <3> QED BY <1>1, <3>2 DEF NothingOlder
    <2>2. ASSUME NEW o \in Ids, StageStep(o)
          PROVE  StagedIsNewer'
      <3>1. CASE StageSaves(o)
        <4>1. PICK r \in request[o] : r.version > running
          BY <3>1 DEF StageSaves, Offered, IsNewer
        <4>2. /\ r.version \in Nat /\ running \in Nat /\ confirmed \in Nat
              /\ \A x \in request[o] : x = r
          <5>1. r \in Requests /\ \A x \in request[o] : x = r
            BY <4>1 DEF UpdateTypeOK
          <5>2. r.version \in Nat
            BY <5>1, VersionsAreNumbers
          <5> QED BY <5>1, <5>2, FilesAreNumbers
        <4>3. running >= confirmed
          BY <3>1 DEF StageSaves, RecordsExist, NothingOlder
        <4>4. \A x \in request[o] : x.version > confirmed
          BY <4>1, <4>2, <4>3
        <4>5. /\ \A x \in Ids \ {o} : task'[x] = task[x]
              /\ UNCHANGED <<status, request, confirmed>>
          BY <1>1, <3>1 DEF StageSaves, UpdateTypeOK
        <4> QED BY <4>4, <4>5 DEF NothingOlder
      <3>2. CASE ~StageSaves(o)
        <4>1. PICK t \in {"none", "fetch", "mark", "fail"} : task' = [task EXCEPT ![o] = t]
          BY <2>2, <3>2 DEF StageStep, StageBegins, StageFails, StageReady, WriteMarker, RecordFailure
        <4>2. UNCHANGED request /\ (UNCHANGED status \/ \E v \in Statuses :
                /\ status' = [status EXCEPT ![o] = v]
                /\ v \in {"staged", "applying"} => task[o] = "ready")
          BY <2>2, <3>2 DEF StageStep, StageBegins, StageFails, StageReady, WriteMarker,
                            RecordFailure, Statuses, Terminal, recordVars
        <4>3. \A x \in Ids : /\ task'[x] = "ready" => task[x] = "ready"
                             /\ status'[x] \in {"staged", "applying"} =>
                                  status[x] \in {"staged", "applying"} \/ task[x] = "ready"
          BY <4>1, <4>2 DEF UpdateTypeOK
        <4> QED BY <1>1, <4>2, <4>3, SameConfirmed
      <3> QED BY <3>1, <3>2
    <2>3. CASE \/ \E r \in Requests : Check(r) \/ DropStart(r)
               \/ (\E o \in Ids : Poll(o)) \/ UNCHANGED updateVars
      BY <1>1, <2>3 DEF Check, DropStart, Poll, updateVars, recordVars, serverVars, NothingOlder
    <2>5. ASSUME NEW r \in Requests, LateRecord(r)
          PROVE  StagedIsNewer'
      <3>1. r.id \in Ids /\ UNCHANGED task
        BY <2>5, VersionsAreNumbers DEF LateRecord
      <3>2. CASE UNCHANGED <<status, request>>
        BY <1>1, <3>1, <3>2 DEF NothingOlder
      <3>3. CASE /\ status[r.id] = "none" /\ status' = [status EXCEPT ![r.id] = "queued"]
                 /\ request' = [request EXCEPT ![r.id] = {r}]
        <4>1. \A o \in Ids : \/ task'[o] = "none" /\ status'[o] = "queued"
                             \/ status'[o] = status[o] /\ request'[o] = request[o]
          BY <3>1, <3>3 DEF UpdateTypeOK, RecordsExist
        <4> QED BY <1>1, <3>1, <4>1 DEF NothingOlder
      <3> QED BY <2>5, <3>2, <3>3 DEF LateRecord
    <2>4. CASE ServerDies \/ ServerStarts
      <3>1. task' = [o \in Ids |-> "none"] /\ UNCHANGED <<request, status>>
        BY <2>4 DEF ServerDies, ServerStarts, ServerRuns, recordVars
      <3> QED BY <1>1, <3>1 DEF NothingOlder
    <2> QED BY <2>1, <2>2, <2>3, <2>4, <2>5
  <1> QED BY <1>1, <1>2, <1>3 DEF NothingOlder, Installed

(* Only an operation that ended successfully confirms anything, and it was the*)
(* only one: what the others staged is gone.                               *)
LEMMA HelperStepOlder ==
  ASSUME UpdateTypeOK, HelperTypeOK, RecordsExist, HelperKnowsFiles, OneAtATime, NothingOlder,
         HelperStep
  PROVE  NothingOlder'
  <1>0. UNCHANGED request
    BY DEF HelperStep
  <1>1. CASE Scan
    <2>1. \A o \in Ids : /\ task'[o] = "ready" => task[o] = "ready"
                         /\ status'[o] \in {"staged", "applying"} => status[o] \in {"staged", "applying"}
      BY <1>1, ScanSteps DEF UpdateTypeOK
    <2>2. UNCHANGED <<binary, running, confirmed>> /\ helper'.pc \in {"off", "scan", "verify"}
      BY <1>1, ScanSteps
    <2>3. StagedIsNewer'
      BY <1>0, <2>1, <2>2, SameConfirmed
    <2> QED BY <2>2, <2>3 DEF NothingOlder, Installed
  <1>2. CASE ~Scan
    <2> DEFINE o == helper.id
    <2>0. o \in Ids /\ helper'.id = o
      BY <1>2, WorkSteps DEF HelperTypeOK, SameTask
    <2>pc. ASSUME NEW to \in HelperPcs, HelperGoes(to)
           PROVE  helper'.pc = to
      BY <2>pc, HelperMoves
    <2>t. \A x \in Ids : /\ task'[x] \in {task[x], "none"}
                         /\ status'[x] \in {"staged", "applying"} => status'[x] = status[x]
      <3>1. UNCHANGED task \/ task' = [x \in Ids |-> "none"]
        BY <1>2 DEF HelperStep, ApplyStaged, Restart, RestartRestored, SystemctlRestart, ServerRuns,
                    Observe, Confirm, Report, RollBack, ClearMarker, serverVars
      <3>2. UNCHANGED status \/ \E v \in {"boot_confirmed"} \cup Terminal : Sync(v)
        BY <1>2, WorkSteps
      <3>3. \A x \in Ids : status'[x] \in {"staged", "applying"} => status'[x] = status[x]
        BY <2>0, <3>2 DEF Sync, UpdateTypeOK, Terminal
      <3> QED BY <3>1, <3>3
    <2>c. UNCHANGED confirmed => StagedIsNewer'
      BY <1>0, <2>t, SameConfirmed
    <2>n. {binary, running, previous, candidate, confirmed} \subseteq Nat
      BY FilesAreNumbers
    <2> USE DEF NothingOlder, Installed, HelperAt
    <2>1. CASE MoveAside /\ UNCHANGED <<running, confirmed>>
      <3>1. helper'.pc = "moved"
        BY <2>1, <2>pc DEF MoveAside, HelperPcs
      <3> QED BY <2>c, <2>1, <3>1 DEF MoveAside
    <2>2. CASE MoveIn /\ UNCHANGED <<running, confirmed>>
      <3>1. helper'.pc = "restart"
        BY <2>2, <2>pc DEF MoveIn, HelperPcs
      <3>2. candidate > confirmed
        <4>1. status[o] = "applying"
          BY <2>2 DEF MoveIn, OneAtATime
        <4>2. \E r \in request[o] : candidate = r.version
          BY <2>0, <2>2, <4>1 DEF MoveIn, RecordsExist, HelperKnowsFiles
        <4> QED BY <2>0, <4>1, <4>2 DEF StagedIsNewer
      <3> QED BY <2>c, <2>n, <2>2, <3>1, <3>2 DEF MoveIn
    <2>3. CASE (WriteCandidate \/ ClearPrevious \/ ApplyFails) /\ UNCHANGED <<running, confirmed>>
      <3>1. helper'.pc \in {"written", "cleared", "fail"} /\ UNCHANGED binary
        BY <2>3, <2>pc DEF WriteCandidate, ClearPrevious, ApplyFails, HelperPcs, binaryVars
      <3> QED BY <2>c, <2>3, <3>1
    <2>4. CASE MoveInFails /\ UNCHANGED <<running, confirmed>>
      <3>1. helper'.pc = "fail"
        BY <2>4, <2>pc DEF MoveInFails, HelperPcs
      <3> QED BY <2>c, <2>4, <3>1 DEF MoveInFails
    <2>5. CASE Restart \/ RestartRestored
      BY <2>c, <2>5, RestartSteps
    <2>6. CASE Observe
      <3>1. helper.pc = "observe" /\ helper'.pc \in {"confirm", "rollback"}
        BY <2>6, <2>pc DEF Observe, HelperPcs
      <3> QED BY <2>c, <2>6, <3>1 DEF Observe, serverVars, binaryVars, historyVars
    <2>7. CASE Confirm /\ HelperAt("confirm")
      <3>1. helper'.pc = "succeed"
        BY <2>7, <2>pc DEF Confirm, HelperPcs
      <3> QED BY <2>c, <2>7, <3>1 DEF Confirm, serverVars, binaryVars
    <2>8. CASE Confirm /\ HelperAt("succeed")
      <3>1. helper'.pc = "clear" /\ status' = [status EXCEPT ![o] = "succeeded"]
        BY <2>8, <2>pc DEF Confirm, HelperPcs, Sync
      <3>2. UNCHANGED <<binary, running, task>> /\ running \in {binary, Missing}
        BY <2>8 DEF Confirm, serverVars, binaryVars, HelperKnowsFiles, Started
      <3>3. confirmed' \in {binary, confirmed} /\ (binary # Missing => binary >= confirmed')
        BY <2>n, <2>8 DEF Confirm
      <3>4. Engaged \subseteq {o}
        BY <2>0, <2>8 DEF OneAtATime, Engaged, Working, Active, Terminal
      <3>5. \A x \in Ids : task'[x] # "ready" /\ status'[x] \notin {"staged", "applying"}
        BY <2>0, <2>8, <3>1, <3>2, <3>4 DEF Engaged, Working, Active, Terminal, OneAtATime, UpdateTypeOK
      <3> QED BY <3>1, <3>2, <3>3, <3>5 DEF StagedIsNewer
    <2>9. CASE RollBack
      <3>1. CASE RemoveNew
        <4>1. /\ helper.pc = "rollback" /\ helper'.pc \in {"unlinked", "fail"}
              /\ binary' \in {binary, Missing} /\ UNCHANGED previous
          BY <3>1, <2>pc DEF RemoveNew, HelperPcs
        <4> QED BY <2>c, <2>9, <4>1 DEF RollBack, serverVars, historyVars
      <3>2. CASE PutBack
        <4>1. /\ helper.pc = "unlinked" /\ helper'.pc \in {"restored", "fail"}
              /\ binary' \in {binary, previous}
          BY <3>2, <2>pc DEF PutBack, HelperPcs
        <4> QED BY <2>c, <2>9, <4>1 DEF RollBack, serverVars, historyVars
      <3> QED BY <2>9, <3>1, <3>2 DEF RollBack
    <2>10. CASE Report
      <3>1. helper'.pc = "clear"
        BY <2>10, <2>pc DEF Report, HelperPcs
      <3> QED BY <2>c, <2>10, <3>1 DEF Report, serverVars, binaryVars, historyVars
    <2>11. CASE ClearMarker
      <3>1. helper' = [helper EXCEPT !.pc = "scan", !.ok = TRUE] /\ helper \in HelperRecords
        BY <2>11 DEF ClearMarker, HelperTypeOK
      <3>2. helper'.pc = "scan"
        BY <3>1 DEF HelperRecords
      <3> QED BY <2>c, <2>11, <3>2 DEF ClearMarker, serverVars, binaryVars, historyVars
    <2> QED BY <1>2, <2>1, <2>2, <2>3, <2>4, <2>5, <2>6, <2>7, <2>8, <2>9, <2>10, <2>11
            DEF HelperStep, ApplyStaged, Confirm, serverVars, historyVars
  <1> QED BY <1>1, <1>2

LEMMA StepNothingOlder ==
  ASSUME UpdateTypeOK, HelperTypeOK, RecordsExist, HelperKnowsFiles, OneAtATime, NothingOlder,
         [UpdateNext]_updateVars
  PROVE  NothingOlder'
  <1>1. CASE HelperStarts \/ HelperDies
    <2>1. helper'.pc \in {"off", "scan"}
      BY <1>1, HelperStartsScan, HelperBegins DEF HelperDies
    <2>2. UNCHANGED <<status, request, task, binary, running, confirmed>>
      BY <1>1 DEF HelperStarts, HelperDies, recordVars, serverVars, binaryVars, historyVars
    <2> QED BY <2>1, <2>2 DEF NothingOlder, Installed, StagedIsNewer
  <1> QED BY <1>1, ServerStepOlder, HelperStepOlder DEF UpdateNext
-----------------------------------------------------------------------------
(* The results                                                             *)

LEMMA InitUpdateInv ==
  ASSUME UpdateInit
  PROVE  UpdateInv
  <1> USE DEF UpdateInit
  <1>1. UpdateTypeOK /\ HelperTypeOK
    BY VersionsAreNumbers, HelperBegins
       DEF UpdateTypeOK, HelperTypeOK, NoHelper, Missing, HelperRecords
  <1>2. helper.pc = "off"
    BY DEF NoHelper
  <1>3. RecordsExist
    BY <1>2 DEF RecordsExist
  <1>4. HelperKnowsFiles /\ SomethingToRestore
    BY <1>2 DEF HelperKnowsFiles, SomethingToRestore, Before, Installed, Started, Back, Missing
  <1>5. OneAtATime
    BY <1>2 DEF OneAtATime, Engaged, Active
  <1>6. NothingOlder
    BY <1>2 DEF NothingOlder, Installed, StagedIsNewer
  <1> QED BY <1>1, <1>3, <1>4, <1>5, <1>6 DEF UpdateInv

LEMMA StepUpdateInv ==
  ASSUME UpdateInv, [UpdateNext]_updateVars
  PROVE  UpdateInv'
  <1>1. UpdateTypeOK' /\ HelperTypeOK' /\ RecordsExist' /\ HelperKnowsFiles' /\ SomethingToRestore'
    BY StepTypes, StepRecords, StepFiles DEF UpdateInv
  <1>2. Undisturbed' => Undisturbed
    BY MishapsStay DEF Undisturbed
  <1> QED BY <1>1, <1>2, StepOneAtATime, StepNothingOlder DEF UpdateInv

(* Every reachable state of the node satisfies the invariant.              *)
THEOREM UpdateInvariant == UpdateSpec => []UpdateInv
  BY InitUpdateInv, StepUpdateInv, PTL DEF UpdateSpec

(* Type correctness: a staging task has its record and a staged operation its*)
(* files, whenever server and helper die (UpdateManager, apply_pending).   *)
THEOREM NodeTypeCorrect == UpdateSpec => []UpdateTypeOK
  BY UpdateInvariant, PTL DEF UpdateInv

(* The manager's lock and the terminal statuses the helper waits for keep the*)
(* operations of a node apart: start (self_update.rs) never accepts a second *)
(* beside one that is worked on, however many starts are dropped half way.  *)
THEOREM OneUpdateHolds == UpdateSpec => []OneUpdateAtATime
  <1>1. ASSUME UpdateInv
        PROVE  OneUpdateAtATime
    <2>1. SUFFICES ASSUME Undisturbed PROVE Cardinality(Engaged) <= 1
      BY DEF OneUpdateAtATime
    <2>2. \A a, b \in Engaged : a = b
      BY <1>1, <2>1 DEF UpdateInv, OneAtATime
    <2>3. CASE Engaged = {}
      BY <2>3, FS_EmptySet
    <2>4. CASE Engaged # {}
      <3>1. PICK a : a \in Engaged
        BY <2>4
      <3>2. Engaged = {a}
        BY <2>2, <3>1
      <3>3. Cardinality(Engaged) = 1
        BY <3>2, FS_Singleton
      <3> QED BY <3>3
    <2> QED BY <2>3, <2>4
  <1> QED BY <1>1, UpdateInvariant, PTL

(* No order of updates, rollbacks, restarts and deaths installs or runs an *)
(* executable older than one an operation confirmed (validate_manifest's   *)
(* comparison, twice: by the server and by the helper).                    *)
THEOREM NeverGoesBack == UpdateSpec => []NeverOlderThanConfirmed
  <1>1. UpdateInv => NeverOlderThanConfirmed
    BY DEF UpdateInv, NothingOlder, NeverOlderThanConfirmed
  <1> QED BY <1>1, UpdateInvariant, PTL

(* Wherever the helper dies in apply_staged or its rollback, the executable is*)
(* installed or kept as uds.previous, unless a restore failed.             *)
THEOREM AlwaysRestorable == UpdateSpec => []SomethingToRestore
  BY UpdateInvariant, PTL DEF UpdateInv

(* The records that end operations: where each is written, and by whom.    *)
LEMMA WhoEndsOperations ==
  ASSUME UpdateInv, [UpdateNext]_updateVars, NEW o \in Ids, status'[o] # status[o],
         status'[o] \in Terminal
  PROVE  \/ /\ status'[o] = "failed"
            /\ Undisturbed => status[o] # "applying"
         \/ /\ o = helper.id /\ UNCHANGED <<binary, running, previous, base>>
            /\ \/ status'[o] = "succeeded" /\ helper.pc = "succeed"
               \/ status'[o] = "rolled_back" /\ helper.pc = "report"
               \/ status'[o] = "failed" /\ helper.pc \in {"report", "fail"}
  <1> USE DEF Terminal, UpdateInv
  <1>1. ASSUME NEW r \in Requests, Check(r) \/ Accept(r) \/ DropStart(r) \/ LateRecord(r)
        PROVE  FALSE
    BY <1>1, VersionsAreNumbers DEF Check, Accept, DropStart, LateRecord, recordVars, UpdateTypeOK
  <1>2. ASSUME NEW x \in Ids, StageStep(x)
        PROVE  status'[o] = "failed" /\ (Undisturbed => status[o] # "applying")
    <2>1. RecordFailure(x) /\ x = o
      BY <1>2 DEF StageStep, StageBegins, StageSaves, StageFails, StageReady, WriteMarker,
                  RecordFailure, recordVars, UpdateTypeOK
    <2> QED BY <2>1 DEF RecordFailure, OneAtATime, UpdateTypeOK
  <1>3. CASE (\E x \in Ids : Poll(x)) \/ ServerDies \/ ServerStarts \/ HelperStarts \/ HelperDies
             \/ UNCHANGED updateVars
    BY <1>3 DEF Poll, ServerDies, ServerStarts, HelperStarts, HelperDies, updateVars, recordVars
  <1>4. CASE HelperStep
    <2>1. CASE Scan
      BY <2>1, ScanSteps DEF UpdateTypeOK
    <2>2. CASE Confirm \/ Report
      <3>1. o = helper.id
        BY <2>2 DEF Confirm, Report, Sync, UpdateTypeOK
      <3>2. UNCHANGED <<binary, running, previous, base>>
        BY <2>2 DEF Confirm, Report, serverVars, binaryVars, historyVars
      <3>3. \/ status'[o] = "succeeded" /\ helper.pc = "succeed"
            \/ status'[o] = "rolled_back" /\ helper.pc = "report"
            \/ status'[o] = "failed" /\ helper.pc \in {"report", "fail"}
        BY <2>2, <3>1 DEF Confirm, Report, HelperAt, Sync, UpdateTypeOK
      <3> QED BY <3>1, <3>2, <3>3
    <2>3. CASE ~Scan /\ ~Confirm /\ ~Report
      BY <1>4, <2>3 DEF HelperStep, ApplyStaged, Restart, RestartRestored, SystemctlRestart, Observe,
                        RollBack, ClearMarker
    <2> QED BY <2>1, <2>2, <2>3
  <1> QED BY <1>1, <1>2, <1>3, <1>4 DEF UpdateNext

(* What update_sync records when an operation ends is what is installed and*)
(* runs: the client that reads the record is told the truth.               *)
THEOREM RecordsAreTruthful == UpdateSpec => OutcomeIsTruthful
  <1> DEFINE Runs(v) == binary = v /\ running \in {v, Missing}
             Truthful(o) ==
               /\ status'[o] = "succeeded" =>
                    \A r \in request[o] : Runs(r.version) /\ previous = base[o]
               /\ status'[o] = "rolled_back" => Runs(base[o])
               /\ (status'[o] = "failed" /\ status[o] = "applying" /\ Undisturbed) =>
                    (binary = base[o] \/ "restore failed" \in mishaps)
  <1>1. ASSUME UpdateInv, [UpdateNext]_updateVars, NEW o \in Ids, status[o] # status'[o]
        PROVE  Truthful(o)
    <2>1. CASE status'[o] \notin Terminal
      BY <2>1 DEF Terminal
    <2>2. CASE status'[o] \in Terminal
      <3>1. HelperKnowsFiles
        BY <1>1 DEF UpdateInv
      <3>2. CASE status'[o] = "failed" /\ (Undisturbed => status[o] # "applying")
        BY <3>2
      <3>3. CASE o = helper.id /\ status'[o] = "succeeded" /\ helper.pc = "succeed"
        BY <3>1, <3>3 DEF HelperKnowsFiles, Started, Installed
      <3>4. CASE o = helper.id /\ status'[o] = "rolled_back" /\ helper.pc = "report"
        BY <3>1, <3>4 DEF HelperKnowsFiles, Started, Back
      <3>5. CASE o = helper.id /\ status'[o] = "failed" /\ helper.pc \in {"report", "fail"}
        BY <3>1, <3>5 DEF HelperKnowsFiles, Back
      <3> QED BY <1>1, <2>2, <3>2, <3>3, <3>4, <3>5, WhoEndsOperations
    <2> QED BY <2>1, <2>2
  <1>2. UpdateInv /\ [UpdateNext]_updateVars =>
          [\A o \in Ids : status[o] # status'[o] => Truthful(o)]_updateVars
    BY <1>1
  <1> QED BY <1>2, UpdateInvariant, PTL DEF UpdateSpec, OutcomeIsTruthful
-----------------------------------------------------------------------------
(* How the assistant installs a node (ServerConfigure).                    *)

Asking == {"off", "prompts"}
Saving == {"copy", "copying", "persist"}
Written == {"uds-update.service", "uds-update.path", "reload", "enable", "trigger", "restart",
            "verify", "verified"}
Installing == {"binary", "uds.service"} \cup Written

Wizards ==
  [pc : Asking \cup Saving \cup {"show", "offer"} \cup Installing, path : Paths,
   config : Contents \cup {Absent, Invalid}, token : SUBSET (1 .. MaxRuns),
   moving : BOOLEAN, binary : {"none", "system", "current"}]

ServiceTyped ==
  service = {} \/ \E u \in Contents, b \in BOOLEAN : service = {[config |-> u, updates |-> b]}

Shapes ==
  /\ text \in [Paths -> Contents \cup {Absent, Invalid}]
  /\ backups \in [Paths -> Seq(Contents \cup {Absent})]
  /\ wizard \in Wizards
  /\ wizard.pc \notin Asking => wizard.config \in Contents
  /\ runs \in 0 .. MaxRuns
  /\ wizard.pc # "off" => runs \in 1 .. MaxRuns
  /\ edits \in 0 .. MaxEdits
  /\ unitFiles \subseteq UnitFiles /\ unit \subseteq Units /\ loaded \subseteq Units
  /\ wizard.pc \in Written \cup {"uds.service"} => wizard.binary # "none"
  /\ ServiceTyped
  /\ shown \cup lost \subseteq Tokens
  /\ replaced \in [Paths -> SUBSET Contents]

(* A file is replaced only after its text is in a complete backup.         *)
BackedUp ==
  /\ OriginalConfigKept
  /\ text[System] # Invalid
  /\ wizard.pc # "off" => text[wizard.path] # Invalid
  /\ wizard.pc = "persist" =>
       text[wizard.path] = Absent \/ Contains(backups[wizard.path], text[wizard.path])

(* The token the run will save is one before, or its own and to be displayed.*)
TokensTracked ==
  /\ OwnerTokenKnown
  /\ wizard.pc = "prompts" =>
       /\ wizard.token \subseteq {runs}
       /\ wizard.config \in Contents => wizard.config.token \in shown \cup lost
       /\ wizard.config \notin Contents => wizard.config = Absent /\ wizard.token = {runs}
  /\ wizard.pc \notin Asking => wizard.config.token \in shown \cup lost \cup wizard.token
  /\ wizard.pc \in {"offer"} \cup Installing \/ wizard.moving =>
       wizard.config.token \in shown \cup lost
  /\ wizard.moving => wizard.pc \in Saving \cup Installing

(* What each step of an installation has already established.              *)
StepsDone ==
  LET pc == wizard.pc
  IN  /\ pc \in {"show", "offer"} \cup Installing => text[wizard.path] = wizard.config
      /\ pc \in Written => unit = {[binary |-> wizard.binary, config |-> wizard.path]}
      /\ pc \in Written => "uds.service" \in unitFiles
      /\ pc \in Written \ {"uds-update.service"} => "uds-update.service" \in unitFiles
      /\ pc \in Written \ {"uds-update.service", "uds-update.path"} => UnitFiles \subseteq unitFiles
      /\ pc \in {"enable", "trigger", "restart", "verify", "verified"} => loaded = unit
      /\ pc \in {"restart", "verify", "verified"} => watching
      /\ pc \in {"verify", "verified"} =>
           \A s \in service : /\ s.config = wizard.config
                              /\ wizard.binary = "system" => s.updates

ConfigureInv == Shapes /\ BackedUp /\ TokensTracked /\ StepsDone
-----------------------------------------------------------------------------
(* Backups and steps of the process                                        *)

LEMMA Apart == Absent \notin Contents /\ Invalid \notin Contents /\ Absent # Invalid
  BY ConfigureAssumption DEF Contents, Tokens

(* A backup more loses none.                                               *)
LEMMA BackupAppended ==
  ASSUME NEW B, NEW s \in Seq(B), NEW x \in B
  PROVE  /\ Append(s, x) \in Seq(B)
         /\ \A c : Contains(s, c) => Contains(Append(s, x), c)
  <1>1. /\ Append(s, x) \in Seq(B) /\ Len(Append(s, x)) = Len(s) + 1 /\ Len(s) \in Nat
        /\ \A i \in 1 .. Len(s) : Append(s, x)[i] = s[i]
    BY AppendProperties, LenProperties
  <1>2. 1 .. Len(s) \subseteq 1 .. (Len(s) + 1)
    BY <1>1
  <1> QED BY <1>1, <1>2 DEF Contains

(* A partial backup that is completed loses none either.                   *)
LEMMA BackupCompleted ==
  ASSUME NEW B, NEW s \in Seq(B), NEW slot \in DOMAIN s, NEW x \in B
  PROVE  LET t == [s EXCEPT ![slot] = x]
         IN  /\ t \in Seq(B) /\ Contains(t, x)
             /\ \A c : c # s[slot] /\ Contains(s, c) => Contains(t, c)
  <1> DEFINE t == [s EXCEPT ![slot] = x]
  <1>1. DOMAIN s = 1 .. Len(s) /\ Len(s) \in Nat /\ s \in [1 .. Len(s) -> B]
    BY LenProperties
  <1>2. t \in [1 .. Len(s) -> B]
    BY <1>1
  <1>3. t \in Seq(B) /\ Len(t) = Len(s)
    <2>1. t \in Seq(B)
      BY <1>1, <1>2, SeqDef
    <2> QED BY <1>1, <1>2, <2>1, LenProperties
  <1>4. t[slot] = x /\ \A i \in 1 .. Len(s) : i # slot => t[i] = s[i]
    BY <1>1
  <1> HIDE DEF t
  <1>5. Contains(t, x)
    BY <1>1, <1>3, <1>4 DEF Contains
  <1>6. \A c : c # s[slot] /\ Contains(s, c) => Contains(t, c)
    BY <1>3, <1>4 DEF Contains
  <1> QED BY <1>3, <1>5, <1>6 DEF t

LEMMA WizardMoves ==
  ASSUME wizard \in Wizards, NEW pc, WizardGoes(pc),
         pc \in Asking \cup Saving \cup {"show", "offer"} \cup Installing
  PROVE  /\ wizard' \in Wizards /\ wizard'.pc = pc
         /\ wizard'.path = wizard.path /\ wizard'.config = wizard.config
         /\ wizard'.token = wizard.token /\ wizard'.moving = wizard.moving
         /\ wizard'.binary = wizard.binary
  BY DEF Wizards, WizardGoes

LEMMA ServiceStays == service' = service /\ ServiceTyped => ServiceTyped'
  BY DEF ServiceTyped

LEMMA WizardTypes ==
  ASSUME wizard \in Wizards
  PROVE  /\ wizard.path \in Paths /\ wizard.config \in Contents \cup {Absent, Invalid}
         /\ wizard.token \subseteq 1 .. MaxRuns /\ wizard.moving \in BOOLEAN
         /\ wizard.binary \in {"none", "system", "current"}
  BY DEF Wizards

(* The history of what was replaced stays in backups that only grow.       *)
LEMMA BackupsGrow ==
  ASSUME OriginalConfigKept, Shapes, replaced' = replaced,
         \A p \in Paths : \A c \in Contents : Contains(backups[p], c) => Contains(backups'[p], c)
  PROVE  OriginalConfigKept'
  BY DEF OriginalConfigKept, Shapes

(* Tokens that were known stay known; texts stay, but for their settings.  *)
LEMMA TokensStay ==
  ASSUME OwnerTokenKnown,
         \A p \in Paths : text'[p] \in Contents => text[p] \in Contents /\ text'[p].token = text[p].token,
         shown \cup lost \subseteq shown' \cup lost',
         WizardAt("show") => wizard.token \subseteq shown' \cup lost'
  PROVE  OwnerTokenKnown'
  <1> SUFFICES ASSUME NEW p \in Paths, text'[p] \in Contents
               PROVE  text'[p].token \in shown' \cup lost'
    BY DEF OwnerTokenKnown
  <1>1. text[p] \in Contents /\ text'[p].token = text[p].token
    OBVIOUS
  <1> QED BY <1>1 DEF OwnerTokenKnown
-----------------------------------------------------------------------------
(* The steps of a run                                                      *)

LEMMA LoadKeeps ==
  ASSUME ConfigureInv, NEW path \in Paths, Load(path)
  PROVE  ConfigureInv'
  <1> USE DEF ConfigureInv
  <1>1. /\ wizard.pc = "off" /\ runs < MaxRuns /\ text[path] # Invalid /\ runs' = runs + 1
        /\ UNCHANGED <<text, backups, edits, unitFiles, unit, loaded, watching, service, shown,
                       lost, replaced>>
    BY DEF Load, WizardAt, installVars, tokenVars
  <1>2. /\ runs \in Nat /\ MaxRuns \in Nat /\ runs + 1 \in 1 .. MaxRuns /\ runs + 1 \in 0 .. MaxRuns
    BY <1>1, ConfigureAssumption DEF Shapes
  <1>3. text[path] \in Contents \cup {Absent}
    BY <1>1 DEF Shapes
  <1>4. /\ wizard' \in Wizards /\ wizard'.pc = "prompts" /\ wizard'.path = path
        /\ wizard'.config = text[path] /\ wizard'.moving = FALSE /\ wizard'.binary = "none"
        /\ wizard'.token = IF text[path] = Absent THEN {runs + 1} ELSE {}
    <2> DEFINE token == IF text[path] = Absent THEN {runs + 1} ELSE {}
               c == text[path]
    <2>1. wizard' = [NoWizard EXCEPT !.pc = "prompts", !.path = path, !.config = c, !.token = token]
      BY DEF Load
    <2>2. token \in SUBSET (1 .. MaxRuns) /\ c \in Contents \cup {Absent, Invalid}
      BY <1>2, <1>3
    <2> HIDE DEF token, c, ConfigureInv
    <2>3. wizard' = [pc |-> "prompts", path |-> path, config |-> c, token |-> token,
                     moving |-> FALSE, binary |-> "none"]
      BY <2>1 DEF NoWizard
    <2> QED BY <2>2, <2>3 DEF Wizards, Asking, token, c
  <1>5. Shapes'
    BY <1>1, <1>2, <1>4, ServiceStays DEF Shapes, Asking, Written
  <1>6. BackedUp'
    BY <1>1, <1>4 DEF BackedUp, OriginalConfigKept
  <1>7. TokensTracked'
    <2>1. OwnerTokenKnown'
      BY <1>1, TokensStay DEF TokensTracked, WizardAt
    <2>2. text[path] \in Contents => text[path].token \in shown \cup lost
      BY <1>1 DEF TokensTracked, OwnerTokenKnown, WizardAt
    <2>3. wizard'.config \notin Contents => wizard'.config = Absent /\ wizard'.token = {runs'}
      BY <1>1, <1>3, <1>4
    <2>4. wizard'.token \subseteq {runs'}
      BY <1>1, <1>4
    <2> QED BY <1>1, <1>4, <2>1, <2>2, <2>3, <2>4
            DEF TokensTracked, Asking, Saving, Installing, Written
  <1>8. StepsDone'
    BY <1>4 DEF StepsDone, Installing, Written
  <1> QED BY <1>5, <1>6, <1>7, <1>8

LEMMA ReviewKeeps ==
  ASSUME ConfigureInv, Review
  PROVE  ConfigureInv'
  <1> USE DEF ConfigureInv
  <1>1. /\ wizard.pc = "prompts"
        /\ UNCHANGED <<text, backups, runs, edits, unitFiles, unit, loaded, watching, service,
                       shown, lost, replaced>>
    BY DEF Review, WizardAt, installVars, tokenVars
  <1>2. wizard \in Wizards /\ runs \in 1 .. MaxRuns /\ runs \in Tokens
    <2>1. wizard \in Wizards /\ runs \in 1 .. MaxRuns
      BY <1>1 DEF Shapes
    <2>2. 1 .. MaxRuns \subseteq Tokens
      BY ConfigureAssumption DEF Tokens
    <2> QED BY <2>1, <2>2
  <1>3. PICK s \in Settings, replace \in BOOLEAN :
          LET token == IF replace /\ wizard.config # Absent THEN {runs} ELSE wizard.token
              held == IF token = {} THEN wizard.config.token ELSE runs
          IN  wizard' = [wizard EXCEPT !.pc = "copy", !.token = token,
                                       !.config = [token |-> held, settings |-> s]]
    BY DEF Review
  <1> DEFINE token == IF replace /\ wizard.config # Absent THEN {runs} ELSE wizard.token
             held == IF token = {} THEN wizard.config.token ELSE runs
  <1>4. token \subseteq {runs}
    BY <1>1 DEF TokensTracked
  <1>5. held \in Tokens /\ held \in shown \cup lost \cup token
    <2>1. CASE token = {}
      <3>1. wizard.config \in Contents
        BY <1>1, <2>1 DEF TokensTracked
      <3>2. wizard.config.token \in Tokens /\ wizard.config.token \in shown \cup lost
        BY <1>1, <3>1 DEF TokensTracked, Contents
      <3> QED BY <2>1, <3>2
    <2>2. CASE token # {}
      BY <1>2, <1>4, <2>2
    <2> QED BY <2>1, <2>2
  <1>6. token \subseteq 1 .. MaxRuns
    BY <1>2, <1>4
  <1> HIDE DEF token
  <1>7. [token |-> held, settings |-> s] \in Contents
    BY <1>5 DEF Contents
  <1> DEFINE c == [token |-> held, settings |-> s]
  <1>8. c.token = held /\ wizard' = [wizard EXCEPT !.pc = "copy", !.token = token, !.config = c]
    BY <1>3 DEF token
  <1> HIDE DEF held, c
  <1>9. /\ wizard' \in Wizards /\ wizard'.pc = "copy" /\ wizard'.path = wizard.path
        /\ wizard'.config = c /\ wizard'.token = token /\ wizard'.moving = wizard.moving
        /\ wizard'.binary = wizard.binary /\ c \in Contents
    BY <1>2, <1>6, <1>7, <1>8 DEF Wizards, Saving, c
  <1>10. wizard.moving = FALSE
    BY <1>1, <1>2 DEF TokensTracked, Wizards, Saving, Installing, Written
  <1>11. Shapes'
    BY <1>1, <1>9, ServiceStays DEF Shapes, Asking, Written
  <1>12. BackedUp'
    BY <1>1, <1>9 DEF BackedUp, OriginalConfigKept
  <1>13. TokensTracked'
    <2>1. OwnerTokenKnown'
      BY <1>1, TokensStay DEF TokensTracked, WizardAt
    <2> QED BY <1>1, <1>5, <1>8, <1>9, <1>10, <2>1
            DEF TokensTracked, Asking, Saving, Installing, Written
  <1>14. StepsDone'
    BY <1>9 DEF StepsDone, Installing, Written
  <1> QED BY <1>11, <1>12, <1>13, <1>14
(* Every Save leaves the rest of the state alone.                          *)
LEMMA SaveKeeps ==
  ASSUME ConfigureInv, Save
  PROVE  ConfigureInv'
  <1>1. /\ wizard \in Wizards /\ wizard.path \in Paths /\ wizard.pc \in Saving
        /\ wizard.config \in Contents
        /\ UNCHANGED <<runs, edits, unitFiles, unit, loaded, watching, service, shown, lost>>
    <2>1. wizard \in Wizards /\ (wizard.pc \notin Asking => wizard.config \in Contents)
      BY DEF ConfigureInv, Shapes
    <2>2. wizard.pc \in Saving /\ wizard.pc \notin Asking
      BY DEF Save, CopyBackup, BackupComplete, Persist, WizardAt, Saving, Asking
    <2> QED BY <2>1, <2>2, WizardTypes DEF Save, installVars, tokenVars
  <1> DEFINE path == wizard.path
             B == Contents \cup {Absent}
  <1>2. backups \in [Paths -> Seq(B)] /\ replaced \in [Paths -> SUBSET Contents]
    BY DEF ConfigureInv, Shapes
  <1>3. text \in [Paths -> Contents \cup {Absent, Invalid}] /\ text[path] # Invalid
    BY <1>1, Apart DEF ConfigureInv, Shapes, BackedUp, Saving
  <1>4. text[path] \in B /\ Absent \in B /\ path \in Paths
    BY <1>1, <1>3
  <1> HIDE DEF path, B
  <1>5. ASSUME CopyBackup \/ BackupComplete
        PROVE  ConfigureInv'
    <2>1. text' = text /\ replaced' = replaced
      BY <1>5 DEF CopyBackup, BackupComplete
    <2>2. PICK pc \in {"persist", "copying"} : WizardGoes(pc)
      BY <1>5 DEF CopyBackup, BackupComplete
    <2>3. /\ wizard' \in Wizards /\ wizard'.pc = pc
          /\ wizard'.path = wizard.path /\ wizard'.config = wizard.config
          /\ wizard'.token = wizard.token /\ wizard'.moving = wizard.moving
          /\ wizard'.binary = wizard.binary
      BY <1>1, <2>2, WizardMoves DEF Saving
    <2>4. /\ backups' \in [Paths -> Seq(B)]
          /\ \A p \in Paths : \A c \in Contents : Contains(backups[p], c) => Contains(backups'[p], c)
          /\ pc = "persist" => text[path] = Absent \/ Contains(backups'[path], text[path])
      <3>1. CASE CopyBackup /\ text[path] = Absent
        BY <1>2, <3>1 DEF CopyBackup, path
      <3>2. CASE CopyBackup /\ text[path] # Absent
        <4> DEFINE t == Append(backups[path], Absent)
        <4>1. /\ PutBackup(path, Len(backups[path]) + 1, Absent) /\ WizardGoes("copying")
          BY <3>2 DEF CopyBackup, NextBackup, path
        <4>2. backups[path] \in Seq(B) /\ Len(backups[path]) \in Nat
          BY <1>2, <1>4, LenProperties
        <4>3. backups' = [backups EXCEPT ![path] = t]
          <5> DEFINE n == Len(backups[path])
          <5>1. n + 1 > n
            BY <4>2
          <5> HIDE DEF n
          <5>2. backups' = [backups EXCEPT ![path] = IF n + 1 > n THEN t
                                                     ELSE [backups[path] EXCEPT ![n + 1] = Absent]]
            BY <4>1 DEF PutBackup, n
          <5> HIDE DEF t
          <5> QED BY <5>1, <5>2
        <4>4. t \in Seq(B) /\ \A c : Contains(backups[path], c) => Contains(t, c)
          BY <1>4, <4>2, BackupAppended
        <4>5. pc = "copying"
          BY <1>1, <2>3, <4>1 DEF WizardGoes, Wizards
        <4> HIDE DEF t
        <4> QED BY <1>2, <1>4, <4>3, <4>4, <4>5
      <3>3. CASE BackupComplete
        <4>1. PICK slot \in DOMAIN backups[path] :
                /\ backups[path][slot] = Absent
                /\ PutBackup(path, slot, text[path])
          BY <3>3 DEF BackupComplete, path
        <4>2. backups[path] \in Seq(B) /\ slot \in 1 .. Len(backups[path]) /\ Len(backups[path]) \in Nat
          BY <1>2, <1>4, <4>1, LenProperties
        <4> DEFINE t == [backups[path] EXCEPT ![slot] = text[path]]
        <4>3. backups' = [backups EXCEPT ![path] = t]
          <5> DEFINE n == Len(backups[path])
          <5>1. ~(slot > n)
            BY <4>2
          <5> HIDE DEF n
          <5>2. backups' = [backups EXCEPT ![path] = IF slot > n THEN Append(backups[path], text[path])
                                                     ELSE t]
            BY <4>1 DEF PutBackup, n
          <5> HIDE DEF t
          <5> QED BY <5>1, <5>2
        <4>4. /\ t \in Seq(B) /\ Contains(t, text[path])
              /\ \A c : c # Absent /\ Contains(backups[path], c) => Contains(t, c)
          BY <1>4, <4>1, <4>2, BackupCompleted
        <4> HIDE DEF t
        <4> QED BY <1>2, <1>4, <4>3, <4>4, Apart
      <3> QED BY <1>5, <3>1, <3>2, <3>3
    <2>5. Shapes'
      <3>1. wizard'.pc \notin Written \cup {"uds.service"}
        BY <2>3 DEF Written
      <3>2. wizard.pc # "off"
        BY <1>1 DEF Saving
      <3> QED BY <1>1, <2>1, <2>3, <2>4, <3>1, <3>2, ServiceStays DEF ConfigureInv, Shapes, B
    <2>6. BackedUp'
      <3>1. OriginalConfigKept'
        BY <2>1, <2>4, BackupsGrow DEF ConfigureInv, BackedUp
      <3> QED BY <1>1, <1>3, <2>1, <2>3, <2>4, <3>1 DEF ConfigureInv, BackedUp, path
    <2>7. TokensTracked'
      <3>1. OwnerTokenKnown'
        BY <1>1, <2>1, TokensStay DEF ConfigureInv, TokensTracked, WizardAt, Saving
      <3> QED BY <1>1, <2>1, <2>3, <3>1
              DEF ConfigureInv, TokensTracked, Asking, Saving, Installing, Written
    <2>8. StepsDone'
      BY <2>3 DEF StepsDone, Installing, Written
    <2> QED BY <2>5, <2>6, <2>7, <2>8 DEF ConfigureInv
  <1>6. ASSUME Persist
        PROVE  ConfigureInv'
    <2> DEFINE pc == IF wizard.moving THEN "binary" ELSE "show"
    <2>1. /\ wizard.pc = "persist" /\ backups' = backups /\ WizardGoes(pc)
          /\ text' = [text EXCEPT ![path] = wizard.config]
          /\ replaced' = [replaced EXCEPT ![path] = @ \cup ({text[path]} \ {Absent})]
      BY <1>6 DEF Persist, WizardAt, path
    <2>2. /\ wizard' \in Wizards /\ wizard'.pc = pc
          /\ wizard'.path = wizard.path /\ wizard'.config = wizard.config
          /\ wizard'.token = wizard.token /\ wizard'.moving = wizard.moving
          /\ wizard'.binary = wizard.binary
      BY <1>1, <2>1, WizardMoves DEF Installing
    <2>3. /\ text' \in [Paths -> Contents \cup {Absent, Invalid}] /\ text'[path] = wizard.config
          /\ \A p \in Paths : p # path => text'[p] = text[p]
      BY <1>1, <1>3, <1>4, <2>1
    <2>4. /\ replaced' \in [Paths -> SUBSET Contents]
          /\ replaced'[path] = replaced[path] \cup ({text[path]} \ {Absent})
          /\ \A p \in Paths : p # path => replaced'[p] = replaced[p]
      BY <1>2, <1>4, <2>1 DEF B
    <2>5. Shapes'
      <3>1. wizard'.pc \notin Written \cup {"uds.service"}
        BY <2>2 DEF Written
      <3> QED BY <1>1, <2>1, <2>2, <2>3, <2>4, <3>1, ServiceStays DEF ConfigureInv, Shapes
    <2>6. BackedUp'
      <3>1. text[path] = Absent \/ Contains(backups[path], text[path])
        BY <2>1 DEF ConfigureInv, BackedUp, path
      <3>2. OriginalConfigKept'
        BY <2>1, <2>4, <3>1 DEF ConfigureInv, BackedUp, OriginalConfigKept
      <3>3. text'[System] # Invalid /\ text'[wizard.path] # Invalid
        BY <1>1, <2>3, Apart DEF ConfigureInv, BackedUp, Paths, path
      <3> QED BY <2>2, <3>2, <3>3 DEF BackedUp
    <2>7. TokensTracked'
      <3>1. wizard.config.token \in shown \cup lost \cup wizard.token
        BY <2>1 DEF ConfigureInv, TokensTracked, Asking
      <3>2. wizard.moving => wizard.config.token \in shown \cup lost
        BY <2>1 DEF ConfigureInv, TokensTracked
      <3>3. wizard.moving = FALSE \/ wizard.moving = TRUE
        BY <1>1, WizardTypes
      <3>4. wizard'.pc = "show" \/ wizard.config.token \in shown \cup lost
        BY <2>2, <3>2, <3>3
      <3>5. OwnerTokenKnown'
        <4> SUFFICES ASSUME NEW p \in Paths, text'[p] \in Contents
                     PROVE  text'[p].token \in shown \cup lost
                              \cup (IF wizard'.pc = "show" THEN wizard.token ELSE {})
          BY <1>1, <2>2 DEF OwnerTokenKnown, WizardAt
        <4>1. CASE p = path
          BY <2>3, <3>1, <3>4, <4>1
        <4>2. CASE p # path
          BY <2>1, <2>3, <4>2 DEF ConfigureInv, TokensTracked, OwnerTokenKnown, WizardAt
        <4> QED BY <4>1, <4>2
      <3> HIDE DEF pc
      <3>6. wizard'.pc \in {"show", "binary"} /\ (wizard.moving => wizard'.pc = "binary")
        BY <2>2 DEF pc
      <3> QED BY <1>1, <2>2, <3>1, <3>4, <3>5, <3>6
              DEF TokensTracked, Asking, Saving, Installing, Written
    <2>8. StepsDone'
      BY <2>2, <2>3 DEF StepsDone, Installing, Written, path
    <2> QED BY <2>5, <2>6, <2>7, <2>8 DEF ConfigureInv
  <1> QED BY <1>5, <1>6 DEF Save
LEMMA ShowTokenKeeps ==
  ASSUME ConfigureInv, ShowToken
  PROVE  ConfigureInv'
  <1>1. /\ wizard \in Wizards /\ wizard.pc = "show" /\ shown' = shown \cup wizard.token
        /\ UNCHANGED <<text, backups, runs, edits, unitFiles, unit, loaded, watching, service,
                       lost, replaced>>
    BY DEF ConfigureInv, Shapes, ShowToken, WizardAt, installVars
  <1>2. /\ wizard' \in Wizards /\ wizard'.pc = "offer"
        /\ wizard'.path = wizard.path /\ wizard'.config = wizard.config
        /\ wizard'.token = wizard.token /\ wizard'.moving = wizard.moving
        /\ wizard'.binary = wizard.binary
    BY <1>1, WizardMoves DEF ShowToken
  <1>3. Shapes'
    <2>1. wizard.token \subseteq Tokens
      <3>1. 1 .. MaxRuns \subseteq Tokens
        BY ConfigureAssumption DEF Tokens
      <3> QED BY <1>1, <3>1, WizardTypes
    <2>2. wizard'.pc \notin Written \cup {"uds.service"}
      BY <1>2 DEF Written
    <2> QED BY <1>1, <1>2, <2>1, <2>2, ServiceStays DEF ConfigureInv, Shapes, Asking
  <1>4. BackedUp'
    BY <1>1, <1>2 DEF ConfigureInv, BackedUp, OriginalConfigKept
  <1>5. TokensTracked'
    <2>1. OwnerTokenKnown'
      BY <1>1, TokensStay DEF ConfigureInv, TokensTracked, WizardAt
    <2>2. wizard.config.token \in shown \cup lost \cup wizard.token /\ ~wizard.moving
      BY <1>1 DEF ConfigureInv, TokensTracked, Asking, Saving, Installing, Written
    <2> QED BY <1>1, <1>2, <2>1, <2>2 DEF TokensTracked, Asking, Saving, Installing, Written
  <1>6. StepsDone'
    <2>1. text[wizard.path] = wizard.config
      BY <1>1 DEF ConfigureInv, StepsDone
    <2> QED BY <1>1, <1>2, <2>1 DEF StepsDone, Installing, Written
  <1> QED BY <1>3, <1>4, <1>5, <1>6 DEF ConfigureInv

LEMMA EndKeeps ==
  ASSUME ConfigureInv, End
  PROVE  ConfigureInv'
  <1>1. /\ wizard \in Wizards /\ wizard.pc # "off" /\ wizard' = NoWizard
        /\ lost' = IF WizardAt("show") THEN lost \cup wizard.token ELSE lost
        /\ UNCHANGED <<text, backups, runs, edits, unitFiles, unit, loaded, watching, service,
                       shown, replaced>>
    BY DEF ConfigureInv, Shapes, End, WizardAt, installVars
  <1>2. /\ wizard' \in Wizards /\ wizard'.pc = "off" /\ wizard'.moving = FALSE
    BY <1>1 DEF NoWizard, Wizards, Asking, Paths
  <1>3. Shapes'
    <2>1. wizard.token \subseteq Tokens
      <3>1. 1 .. MaxRuns \subseteq Tokens
        BY ConfigureAssumption DEF Tokens
      <3> QED BY <1>1, <3>1, WizardTypes
    <2>2. wizard'.pc \notin Written \cup {"uds.service"}
      BY <1>2 DEF Written
    <2> QED BY <1>1, <1>2, <2>1, <2>2, ServiceStays DEF ConfigureInv, Shapes, Asking
  <1>4. BackedUp'
    BY <1>1, <1>2 DEF ConfigureInv, BackedUp, OriginalConfigKept
  <1>5. TokensTracked'
    <2>1. OwnerTokenKnown'
      BY <1>1, TokensStay DEF ConfigureInv, TokensTracked
    <2> QED BY <1>1, <1>2, <2>1 DEF TokensTracked, Asking, Installing, Written
  <1>6. StepsDone'
    BY <1>2 DEF StepsDone, Installing, Written
  <1> QED BY <1>3, <1>4, <1>5, <1>6 DEF ConfigureInv

(* A hand edit changes no token and comes only while nothing is being saved.*)
LEMMA EditKeeps ==
  ASSUME ConfigureInv, EditByHand
  PROVE  ConfigureInv'
  <1>1. /\ wizard \in Wizards /\ wizard.pc \in Asking /\ edits < MaxEdits /\ edits' = edits + 1
        /\ UNCHANGED <<backups, wizard, runs, unitFiles, unit, loaded, watching, service,
                       shown, lost, replaced>>
    BY DEF ConfigureInv, Shapes, EditByHand, Asking, installVars, tokenVars
  <1>2. PICK q \in Paths, z \in Settings :
          /\ text[q] \in Contents
          /\ text' = [text EXCEPT ![q] = [text[q] EXCEPT !.settings = z]]
    BY DEF EditByHand
  <1> DEFINE c == [text[q] EXCEPT !.settings = z]
  <1>3. c \in Contents /\ c.token = text[q].token
    BY <1>2 DEF Contents
  <1> HIDE DEF c
  <1>4. text \in [Paths -> Contents \cup {Absent, Invalid}]
    BY DEF ConfigureInv, Shapes
  <1>5. /\ text' \in [Paths -> Contents \cup {Absent, Invalid}] /\ text'[q] = c
        /\ \A p \in Paths : p # q => text'[p] = text[p]
    BY <1>2, <1>3, <1>4 DEF c
  <1>6. \A p \in Paths : text[p] # Invalid => text'[p] # Invalid
    BY <1>3, <1>5, Apart
  <1>7. Shapes'
    <2>1. edits' \in 0 .. MaxEdits
      BY <1>1, ConfigureAssumption DEF ConfigureInv, Shapes
    <2> QED BY <1>1, <1>5, <2>1, ServiceStays DEF ConfigureInv, Shapes
  <1>8. BackedUp'
    <2>1. wizard.pc # "persist"
      BY <1>1 DEF Asking
    <2>2. wizard.path \in Paths /\ System \in Paths
      BY <1>1, WizardTypes DEF Paths
    <2> QED BY <1>1, <1>6, <2>1, <2>2 DEF ConfigureInv, BackedUp, OriginalConfigKept
  <1>9. TokensTracked'
    <2>1. \A p \in Paths : text'[p] \in Contents => text[p] \in Contents /\ text'[p].token = text[p].token
      BY <1>2, <1>3, <1>5
    <2>2. OwnerTokenKnown'
      BY <1>1, <2>1, TokensStay DEF ConfigureInv, TokensTracked, WizardAt, Asking
    <2> QED BY <1>1, <2>2 DEF ConfigureInv, TokensTracked
  <1>10. StepsDone'
    BY <1>1 DEF StepsDone, Asking, Installing, Written
  <1> QED BY <1>7, <1>8, <1>9, <1>10 DEF ConfigureInv
-----------------------------------------------------------------------------
(* The service                                                             *)

(* A server that runs read the file its unit names.                        *)
LEMMA StartsTyped ==
  ASSUME Shapes, NEW us, us \subseteq Units, NEW s \in StartedBy(us)
  PROVE  /\ s = {} \/ \E u \in Contents, b \in BOOLEAN : s = {[config |-> u, updates |-> b]}
         /\ \A r \in s : \E v \in us :
              r.config = text[v.config] /\ r.updates = (v.binary = "system" /\ UnitFiles \subseteq unitFiles)
  <1>1. CASE s = {}
    BY <1>1
  <1>2. CASE s # {}
    <2>1. PICK v \in us : text[v.config] \in Contents /\ s = Servers(v)
      BY <1>2 DEF StartedBy
    <2> DEFINE b == v.binary = "system" /\ UnitFiles \subseteq unitFiles
    <2>2. s = {[config |-> text[v.config], updates |-> b]} /\ b \in BOOLEAN
      BY <2>1 DEF Servers
    <2> HIDE DEF b
    <2>3. \A r \in s : r.config = text[v.config] /\ r.updates = b
      BY <2>2
    <2> QED BY <2>1, <2>2, <2>3 DEF b
  <1> QED BY <1>1, <1>2

(* Once systemd has loaded the new unit, whatever it starts is as reviewed.*)
LEMMA StartedAsReviewed ==
  ASSUME Shapes, StepsDone, wizard.pc \in {"restart", "verify", "verified"},
         NEW s \in StartedBy(loaded), NEW r \in s
  PROVE  r.config = wizard.config /\ (wizard.binary = "system" => r.updates)
  <1>1. /\ loaded = {[binary |-> wizard.binary, config |-> wizard.path]}
        /\ UnitFiles \subseteq unitFiles /\ text[wizard.path] = wizard.config
    BY DEF StepsDone, Installing, Written
  <1>2. loaded \subseteq Units
    BY DEF Shapes
  <1>3. PICK v \in loaded : /\ r.config = text[v.config]
                            /\ r.updates = (v.binary = "system" /\ UnitFiles \subseteq unitFiles)
    BY <1>2, StartsTyped
  <1>4. v.binary = wizard.binary /\ v.config = wizard.path
    BY <1>1
  <1> QED BY <1>1, <1>3, <1>4

LEMMA RestartKeeps ==
  ASSUME ConfigureInv, ServiceRestarts
  PROVE  ConfigureInv'
  <1>1. /\ service' \in StartedBy(loaded) /\ loaded \subseteq Units
        /\ UNCHANGED <<text, backups, wizard, runs, edits, unitFiles, unit, loaded, watching,
                       shown, lost, replaced>>
    BY DEF ConfigureInv, Shapes, ServiceRestarts, tokenVars
  <1>2. ServiceTyped'
    BY <1>1, StartsTyped DEF ConfigureInv, ServiceTyped
  <1>3. Shapes' /\ BackedUp' /\ TokensTracked'
    BY <1>1, <1>2 DEF ConfigureInv, Shapes, BackedUp, OriginalConfigKept, TokensTracked,
                      OwnerTokenKnown, WizardAt
  <1>4. StepsDone'
    <2>1. ASSUME wizard.pc \in {"verify", "verified"}, NEW r \in service'
          PROVE  r.config = wizard.config /\ (wizard.binary = "system" => r.updates)
      BY <1>1, <2>1, StartedAsReviewed DEF ConfigureInv
    <2> QED BY <1>1, <2>1 DEF ConfigureInv, StepsDone
  <1> QED BY <1>2, <1>3, <1>4 DEF ConfigureInv
-----------------------------------------------------------------------------
(* The installation                                                        *)

(* Where a step of the installation leads, and what it keeps.              *)
Onward(pc) ==
  /\ wizard' \in Wizards /\ wizard'.pc = pc
  /\ wizard'.path = wizard.path /\ wizard'.config = wizard.config
  /\ wizard'.token = wizard.token /\ wizard'.moving = wizard.moving
  /\ wizard'.binary = wizard.binary

LEMMA InstallGoesOn ==
  ASSUME wizard \in Wizards, NEW pc \in Installing, WizardGoes(pc)
  PROVE  Onward(pc)
  BY WizardMoves DEF Onward

InstallTyped ==
  /\ unitFiles \subseteq UnitFiles /\ unit \subseteq Units /\ loaded \subseteq Units
  /\ ServiceTyped

(* Every step keeps the run's file, settings and token, but the one that moves*)
(* the file, which goes back to saving.                                    *)
InstallMoves ==
  /\ wizard' \in Wizards /\ wizard'.config = wizard.config /\ wizard'.token = wizard.token
  /\ wizard.pc \in {"offer"} \cup Installing
  /\ \/ /\ wizard'.pc \in Installing
        /\ wizard'.path = wizard.path /\ wizard'.moving = wizard.moving
     \/ wizard'.pc = "copy" /\ wizard'.path = System
  /\ wizard'.pc \in Written \cup {"uds.service"} => wizard'.binary # "none"

LEMMA OnwardMoves ==
  ASSUME NEW pc \in Installing, Onward(pc), wizard.pc \in {"offer"} \cup Installing,
         pc = "binary" \/ wizard.binary # "none"
  PROVE  InstallMoves
  BY DEF Onward, InstallMoves, Installing, Written

(* The steps after the unit was written keep what was established.         *)
LEMMA InstallSteps ==
  ASSUME Shapes, StepsDone, Install
  PROVE  InstallTyped' /\ InstallMoves /\ StepsDone'
  <1>1. /\ wizard \in Wizards /\ InstallTyped
        /\ wizard.pc \in Written \cup {"uds.service"} => wizard.binary # "none"
        /\ UNCHANGED text
    BY DEF Shapes, InstallTyped, Install
  <1>2. CASE AcceptService
    <2>1. /\ wizard.pc = "offer" /\ UNCHANGED <<unitFiles, unit, loaded, watching, service>>
      BY <1>2 DEF AcceptService, WizardAt, installVars
    <2>2. InstallTyped'
      BY <1>1, <2>1, ServiceStays DEF InstallTyped
    <2>3. CASE WizardGoes("binary")
      <3>1. Onward("binary")
        BY <1>1, <2>3, InstallGoesOn DEF Installing
      <3>2. InstallMoves
        BY <2>1, <3>1, OnwardMoves DEF Installing
      <3>3. StepsDone'
        BY <1>1, <2>1, <3>1 DEF StepsDone, Onward, Installing, Written
      <3> QED BY <2>2, <3>2, <3>3
    <2>4. CASE wizard' = [wizard EXCEPT !.pc = "copy", !.path = System, !.moving = TRUE]
      <3>1. /\ wizard' \in Wizards /\ wizard'.pc = "copy" /\ wizard'.path = System
            /\ wizard'.config = wizard.config /\ wizard'.token = wizard.token
        BY <1>1, <2>4 DEF Wizards, Saving, Paths
      <3>2. InstallMoves /\ StepsDone'
        BY <2>1, <3>1 DEF InstallMoves, StepsDone, Installing, Written
      <3> QED BY <2>2, <3>2
    <2> QED BY <1>2, <2>3, <2>4 DEF AcceptService
  <1>3. CASE ChooseBinary
    <2>1. /\ wizard.pc = "binary" /\ UNCHANGED <<unitFiles, unit, loaded, watching, service>>
      BY <1>3 DEF ChooseBinary, WizardAt, installVars
    <2>2. PICK b \in {"system", "current"} :
            wizard' = [wizard EXCEPT !.pc = "uds.service", !.binary = b]
      BY <1>3 DEF ChooseBinary
    <2>3. /\ wizard' \in Wizards /\ wizard'.pc = "uds.service" /\ wizard'.path = wizard.path
          /\ wizard'.config = wizard.config /\ wizard'.token = wizard.token
          /\ wizard'.moving = wizard.moving /\ wizard'.binary # "none"
      BY <1>1, <2>2 DEF Wizards, Installing
    <2>4. InstallTyped'
      BY <1>1, <2>1, ServiceStays DEF InstallTyped
    <2>5. InstallMoves
      BY <2>1, <2>3 DEF InstallMoves, Installing
    <2>6. StepsDone'
      BY <1>1, <2>1, <2>3 DEF StepsDone, Installing, Written
    <2> QED BY <2>4, <2>5, <2>6
  <1>4. ASSUME NEW file \in UnitFiles, NEW next \in Written, WriteUnit(file, next),
               \/ file = "uds.service" /\ next = "uds-update.service"
               \/ file = "uds-update.service" /\ next = "uds-update.path"
               \/ file = "uds-update.path" /\ next = "reload"
        PROVE  InstallTyped' /\ InstallMoves /\ StepsDone'
    <2>1. /\ wizard.pc = file /\ unitFiles' = unitFiles \cup {file}
          /\ unit' = IF file = "uds.service"
                     THEN {[binary |-> wizard.binary, config |-> wizard.path]} ELSE unit
          /\ UNCHANGED <<loaded, watching, service>>
      BY <1>4 DEF WriteUnit, WizardAt
    <2>2. Onward(next)
      BY <1>1, <1>4, InstallGoesOn DEF WriteUnit, Installing
    <2>3. file \in Written \cup {"uds.service"} /\ wizard.binary # "none"
      BY <1>1, <1>4, <2>1 DEF Written
    <2>4. [binary |-> wizard.binary, config |-> wizard.path] \in Units
      BY <1>1, <2>3, WizardTypes DEF Units
    <2>5. InstallTyped'
      BY <1>1, <2>1, <2>4, ServiceStays DEF InstallTyped
    <2>6. InstallMoves
      BY <2>1, <2>2, <2>3, OnwardMoves DEF Installing
    <2>7. StepsDone'
      BY <1>1, <1>4, <2>1, <2>2 DEF StepsDone, Onward, Installing, Written, UnitFiles
    <2> QED BY <2>5, <2>6, <2>7
  <1>5. CASE DaemonReload
    <2>1. wizard.pc = "reload" /\ loaded' = unit /\ UNCHANGED <<unitFiles, unit, watching, service>>
      BY <1>5 DEF DaemonReload, WizardAt
    <2>2. Onward("enable")
      BY <1>1, <1>5, InstallGoesOn DEF DaemonReload, Installing, Written
    <2>3. InstallTyped'
      BY <1>1, <2>1, ServiceStays DEF InstallTyped
    <2>4. InstallMoves
      BY <1>1, <2>1, <2>2, OnwardMoves DEF Installing, Written
    <2>5. StepsDone'
      BY <1>1, <2>1, <2>2 DEF StepsDone, Onward, Installing, Written
    <2> QED BY <2>3, <2>4, <2>5
  <1>6. CASE EnableService
    <2>1. /\ wizard.pc = "enable" /\ service' \in StartedBy(loaded) \cup {service}
          /\ UNCHANGED <<unitFiles, unit, loaded, watching>>
      BY <1>6 DEF EnableService, WizardAt
    <2>2. Onward("trigger")
      BY <1>1, <1>6, InstallGoesOn DEF EnableService, Installing, Written
    <2>3. ServiceTyped'
      BY <1>1, <2>1, StartsTyped DEF InstallTyped, ServiceTyped
    <2>4. InstallTyped'
      BY <1>1, <2>1, <2>3 DEF InstallTyped
    <2>5. InstallMoves
      BY <1>1, <2>1, <2>2, OnwardMoves DEF Installing, Written
    <2>6. StepsDone'
      BY <1>1, <2>1, <2>2 DEF StepsDone, Onward, Installing, Written
    <2> QED BY <2>4, <2>5, <2>6
  <1>7. CASE EnableTrigger
    <2>1. wizard.pc = "trigger" /\ watching' = TRUE /\ UNCHANGED <<unitFiles, unit, loaded, service>>
      BY <1>7 DEF EnableTrigger, WizardAt
    <2>2. Onward("restart")
      BY <1>1, <1>7, InstallGoesOn DEF EnableTrigger, Installing, Written
    <2>3. InstallTyped'
      BY <1>1, <2>1, ServiceStays DEF InstallTyped
    <2>4. InstallMoves
      BY <1>1, <2>1, <2>2, OnwardMoves DEF Installing, Written
    <2>5. StepsDone'
      BY <1>1, <2>1, <2>2 DEF StepsDone, Onward, Installing, Written
    <2> QED BY <2>3, <2>4, <2>5
  <1>8. CASE RestartService
    <2>1. /\ wizard.pc = "restart" /\ service' \in StartedBy(loaded)
          /\ UNCHANGED <<unitFiles, unit, loaded, watching>>
      BY <1>8 DEF RestartService, WizardAt
    <2>2. Onward("verify")
      BY <1>1, <1>8, InstallGoesOn DEF RestartService, Installing, Written
    <2>3. ServiceTyped'
      BY <1>1, <2>1, StartsTyped DEF InstallTyped, ServiceTyped
    <2>4. InstallTyped'
      BY <1>1, <2>1, <2>3 DEF InstallTyped
    <2>5. InstallMoves
      BY <1>1, <2>1, <2>2, OnwardMoves DEF Installing, Written
    <2>6. \A r \in service' : r.config = wizard.config /\ (wizard.binary = "system" => r.updates)
      BY <2>1, StartedAsReviewed
    <2>7. StepsDone'
      BY <1>1, <2>1, <2>2, <2>6 DEF StepsDone, Onward, Installing, Written
    <2> QED BY <2>4, <2>5, <2>7
  <1>9. CASE VerifyService
    <2>1. wizard.pc = "verify" /\ UNCHANGED <<unitFiles, unit, loaded, watching, service>>
      BY <1>9 DEF VerifyService, WizardAt, installVars
    <2>2. Onward("verified")
      BY <1>1, <1>9, InstallGoesOn DEF VerifyService, Installing, Written
    <2>3. InstallTyped'
      BY <1>1, <2>1, ServiceStays DEF InstallTyped
    <2>4. InstallMoves
      BY <1>1, <2>1, <2>2, OnwardMoves DEF Installing, Written
    <2>5. StepsDone'
      BY <1>1, <2>1, <2>2 DEF StepsDone, Onward, Installing, Written
    <2> QED BY <2>3, <2>4, <2>5
  <1>10. /\ {"uds-update.service", "uds-update.path", "reload"} \subseteq Written
         /\ UnitFiles = {"uds.service", "uds-update.service", "uds-update.path"}
    BY DEF Written, UnitFiles
  <1> QED BY <1>2, <1>3, <1>4, <1>5, <1>6, <1>7, <1>8, <1>9, <1>10 DEF Install

LEMMA InstallKeeps ==
  ASSUME ConfigureInv, Install
  PROVE  ConfigureInv'
  <1>1. UNCHANGED <<text, backups, runs, edits, shown, lost, replaced>>
    BY DEF Install, tokenVars
  <1>2. InstallTyped' /\ InstallMoves /\ StepsDone'
    BY InstallSteps DEF ConfigureInv
  <1>3. wizard.pc # "off" /\ wizard.pc \notin Asking /\ wizard'.pc \notin Asking /\ ~WizardAt("show")
    BY <1>2 DEF InstallMoves, Asking, Installing, Written, WizardAt
  <1>4. Shapes'
    BY <1>1, <1>2, <1>3 DEF ConfigureInv, Shapes, InstallTyped, InstallMoves, Asking
  <1>5. BackedUp'
    <2>1. text[System] # Invalid /\ text[wizard.path] # Invalid
      BY <1>3 DEF ConfigureInv, BackedUp
    <2>2. wizard'.pc # "persist" /\ wizard'.path \in {wizard.path, System}
      BY <1>2 DEF InstallMoves, Installing, Written
    <2> QED BY <1>1, <2>1, <2>2 DEF ConfigureInv, BackedUp, OriginalConfigKept
  <1>6. TokensTracked'
    <2>1. OwnerTokenKnown'
      BY <1>1, <1>3, TokensStay DEF ConfigureInv, TokensTracked
    <2>2. wizard'.config.token \in shown \cup lost
      BY <1>2 DEF ConfigureInv, TokensTracked, InstallMoves
    <2>3. wizard'.pc \in Saving \cup Installing /\ wizard'.pc # "prompts"
      BY <1>2 DEF InstallMoves, Saving, Installing, Written
    <2> QED BY <1>1, <2>1, <2>2, <2>3 DEF TokensTracked
  <1> QED BY <1>2, <1>4, <1>5, <1>6 DEF ConfigureInv
-----------------------------------------------------------------------------
(* The results                                                             *)

(* The inductive invariant: types, backups before replacements, the whereabouts*)
(* of every token and what an installation has established so far.         *)
THEOREM ConfigureInvariant == ConfigureSpec => []ConfigureInv
  <1>1. ConfigureInit => ConfigureInv
    <2> SUFFICES ASSUME ConfigureInit PROVE ConfigureInv
      OBVIOUS
    <2>1. PICK z \in Settings : text \in [Paths -> {Absent, Invalid, [token |-> 0, settings |-> z]}]
      BY DEF ConfigureInit
    <2>2. /\ text[System] = Absent /\ backups = [p \in Paths |-> <<>>] /\ wizard = NoWizard
          /\ runs = 0 /\ edits = 0 /\ unitFiles = {} /\ unit = {} /\ loaded = {} /\ service = {}
          /\ shown = {0} /\ lost = {} /\ replaced = [p \in Paths |-> {}]
      BY DEF ConfigureInit
    <2>3. 0 \in Tokens /\ 0 \in 0 .. MaxRuns /\ 0 \in 0 .. MaxEdits
      BY ConfigureAssumption DEF Tokens
    <2>4. [token |-> 0, settings |-> z] \in Contents
      BY <2>3 DEF Contents
    <2>5. text \in [Paths -> Contents \cup {Absent, Invalid}]
      BY <2>1, <2>4
    <2>6. wizard \in Wizards /\ wizard.pc = "off" /\ wizard.moving = FALSE
      BY <2>2 DEF NoWizard, Wizards, Asking, Paths
    <2>7. backups \in [Paths -> Seq(Contents \cup {Absent})]
      BY <2>2
    <2>8. Shapes
      BY <2>2, <2>3, <2>5, <2>6, <2>7 DEF Shapes, ServiceTyped, Asking, Written
    <2>9. BackedUp
      BY <2>2, <2>6, Apart DEF BackedUp, OriginalConfigKept
    <2>10. TokensTracked
      <3>1. \A p \in Paths : text[p] \in Contents => text[p].token = 0
        <4> SUFFICES ASSUME NEW p \in Paths, text[p] \in Contents PROVE text[p].token = 0
          OBVIOUS
        <4>1. text[p] = [token |-> 0, settings |-> z]
          BY <2>1, Apart
        <4> QED BY <4>1
      <3> QED BY <2>2, <2>6, <3>1 DEF TokensTracked, OwnerTokenKnown, Asking, Installing, Written
    <2>11. StepsDone
      BY <2>6 DEF StepsDone, Installing, Written
    <2> QED BY <2>8, <2>9, <2>10, <2>11 DEF ConfigureInv
  <1>2. ConfigureInv /\ [ConfigureNext]_configureVars => ConfigureInv'
    <2> SUFFICES ASSUME ConfigureInv, [ConfigureNext]_configureVars PROVE ConfigureInv'
      OBVIOUS
    <2>1. CASE UNCHANGED configureVars
      BY <2>1 DEF configureVars, installVars, tokenVars, ConfigureInv, Shapes, ServiceTyped, BackedUp,
                  OriginalConfigKept, TokensTracked, OwnerTokenKnown, WizardAt, StepsDone
    <2> QED BY <2>1, LoadKeeps, ReviewKeeps, SaveKeeps, ShowTokenKeeps, InstallKeeps, EndKeeps,
               RestartKeeps, EditKeeps DEF ConfigureNext
  <1> QED BY <1>1, <1>2, PTL DEF ConfigureSpec

(* Every variable stays in its domain.                                     *)
THEOREM ConfigureTypeCorrect == ConfigureSpec => []ConfigureTypeOK
  <1>1. ConfigureInv => ConfigureTypeOK
    <2> SUFFICES ASSUME ConfigureInv PROVE ConfigureTypeOK
      OBVIOUS
    <2>1. Shapes
      BY DEF ConfigureInv
    <2>2. \A p \in Paths : \A i \in DOMAIN backups[p] : backups[p][i] \in Contents \cup {Absent}
      BY <2>1, ElementOfSeq, LenProperties DEF Shapes
    <2>3. wizard \in Wizards
      BY <2>1 DEF Shapes
    <2>4. service = {} \/ \E u \in Contents : service \in {{[config |-> u, updates |-> b]} : b \in BOOLEAN}
      BY <2>1 DEF Shapes, ServiceTyped
    <2> QED BY <2>1, <2>2, <2>3, <2>4, WizardTypes DEF Shapes, ConfigureTypeOK, Asking
  <1> QED BY <1>1, ConfigureInvariant, PTL

(* Wherever runs break off and however files are edited between them, every*)
(* text a run replaced is in a complete backup (atomic_save).              *)
THEOREM OriginalsAreKept == ConfigureSpec => []OriginalConfigKept
  <1>1. ConfigureInv => OriginalConfigKept
    BY DEF ConfigureInv, BackedUp
  <1> QED BY <1>1, ConfigureInvariant, PTL

(* No file holds a token that nobody was shown, unless the run ended between*)
(* the save and the display (server_configure::run).                       *)
THEOREM OwnersKnowTheirToken == ConfigureSpec => []OwnerTokenKnown
  <1>1. ConfigureInv => OwnerTokenKnown
    BY DEF ConfigureInv, TokensTracked
  <1> QED BY <1>1, ConfigureInvariant, PTL

(* The order of the commands of install_systemd is enough: what is verified is*)
(* the reviewed configuration under the new unit, updates included.        *)
THEOREM VerifiedIsReviewed == ConfigureSpec => []VerifiedInstallationIsCurrent
  <1>1. ConfigureInv => VerifiedInstallationIsCurrent
    BY DEF ConfigureInv, StepsDone, VerifiedInstallationIsCurrent, WizardAt, Written
  <1> QED BY <1>1, ConfigureInvariant, PTL
-----------------------------------------------------------------------------
(* The two scenes as TLC checks them.                                      *)

(* Each scene of the instance is the one that is specified alone, begun in *)
(* the states the other scene leaves.  What is proved of each holds of what*)
(* TLC runs.                                                               *)
THEOREM ManagedNodeImplements == ManagedNodeSpec => UpdateSpec /\ ConfigureSpec
  <1>1. ManagedNodeInit => UpdateInit /\ ConfigureInit
    BY DEF ManagedNodeInit
  <1>2. [ManagedNodeNext]_nodeVars => [UpdateNext]_updateVars /\ [ConfigureNext]_configureVars
    BY DEF ManagedNodeNext, nodeVars
  <1> QED BY <1>1, <1>2, PTL DEF ManagedNodeSpec, UpdateSpec, ConfigureSpec

(* Installing and updating, both keep every variable of the node in its    *)
(* domain, whichever the instance does.                                    *)
THEOREM ManagedNodeTypeCorrect == ManagedNodeSpec => []ManagedNodeTypeOK
  <1>1. UpdateTypeOK /\ ConfigureTypeOK => ManagedNodeTypeOK
    BY DEF ManagedNodeTypeOK
  <1> QED BY <1>1, ManagedNodeImplements, NodeTypeCorrect, ConfigureTypeCorrect, PTL
=============================================================================
