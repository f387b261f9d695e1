------------------------------ MODULE ServerConfigure ------------------------------
(***************************************************************************)
(* The configuration assistant (server_configure::run): it loads or makes a *)
(* configuration, generates an owner token, saves the reviewed settings with *)
(* a backup (atomic_save), shows the token once, and installs the service    *)
(* (install_systemd).  It may end at every step: a question is cancelled, a  *)
(* command fails, the terminal is gone.  The service manager restarts the    *)
(* server by itself, and between runs the files are edited by hand.          *)
(***************************************************************************)
EXTENDS Naturals, Sequences, SequencesExt

CONSTANTS
  Home, System, Relative,  \* ~/uds.toml, /etc/uds/config.toml, and uds.toml in
                           \* a directory that is not a home
  Settings,                \* everything else a configuration holds
  Absent, Invalid,         \* no file; a file load_existing refuses
  MaxRuns, MaxEdits        \* bounds: runs of the assistant, edits by hand

Paths == {Home, System, Relative}
UnitFiles == {"uds.service", "uds-update.service", "uds-update.path"}

ASSUME ConfigureAssumption ==
  /\ Home # System /\ System # Relative /\ Home # Relative
  /\ Absent \notin Settings /\ Invalid \notin Settings /\ Absent # Invalid
  /\ {MaxRuns, MaxEdits} \subseteq Nat
  /\ {Absent, Invalid} \cap [token : 0 .. MaxRuns, settings : Settings] = {}

(* Token 0 is an owner token the administrator already has.                 *)
Tokens == 0 .. MaxRuns
Contents == [token : Tokens, settings : Settings]

(* A unit starts one of the executables with one of the files.              *)
Units == [binary : {"system", "current"}, config : Paths]

VARIABLES
  text,      \* path -> Absent, Invalid or the configuration in the file
  backups,   \* path -> .bak, .bak.1, ...; Absent stands for a partial copy
  wizard,    \* the assistant's process
  runs, edits,
  unitFiles, \* unit files written below /etc/systemd/system
  unit,      \* what uds.service says: none or one of Units
  loaded,    \* the unit as systemd last loaded it
  watching,  \* uds-update.path is enabled and started
  service,   \* the running server: none or its configuration and capability
  shown,     \* tokens the administrator has seen
  lost,      \* history: tokens whose run ended between the save and the display
  replaced   \* history: path -> what the assistant has replaced there

installVars == <<unitFiles, unit, loaded, watching, service>>
tokenVars == <<shown, lost>>
configureVars == <<text, backups, wizard, runs, edits, installVars, tokenVars, replaced>>

NoWizard == [pc |-> "off", path |-> Home, config |-> Invalid, token |-> {}, moving |-> FALSE,
             binary |-> "none"]

ConfigureInit ==
  /\ \E s \in Settings :
       text \in [Paths -> {Absent, Invalid, [token |-> 0, settings |-> s]}]
  /\ text[System] = Absent
  /\ backups = [p \in Paths |-> <<>>]
  /\ wizard = NoWizard /\ runs = 0 /\ edits = 0
  /\ unitFiles = {} /\ unit = {} /\ loaded = {} /\ watching = FALSE /\ service = {}
  /\ shown = {0} /\ lost = {}
  /\ replaced = [p \in Paths |-> {}]

WizardAt(pc) == wizard.pc = pc
WizardGoes(pc) == wizard' = [wizard EXCEPT !.pc = pc]

-----------------------------------------------------------------------------
(* load_existing and the checks on what it found: no file means production   *)
(* defaults with a new token, anything invalid or of a fleet is refused.     *)
Load(path) ==
  /\ WizardAt("off") /\ runs < MaxRuns /\ text[path] # Invalid
  /\ runs' = runs + 1
  /\ wizard' = [NoWizard EXCEPT !.pc = "prompts", !.path = path, !.config = text[path],
                                !.token = IF text[path] = Absent THEN {runs + 1} ELSE {}]
  /\ UNCHANGED <<text, backups, edits, installVars, tokenVars, replaced>>

(* The answers, a replaced token on request, the review and its confirmation. *)
Review ==
  /\ WizardAt("prompts")
  /\ \E s \in Settings, replace \in BOOLEAN :
       LET token == IF replace /\ wizard.config # Absent THEN {runs} ELSE wizard.token
           held == IF token = {} THEN wizard.config.token ELSE runs
       IN  wizard' = [wizard EXCEPT !.pc = "copy", !.token = token,
                                    !.config = [token |-> held, settings |-> s]]
  /\ UNCHANGED <<text, backups, runs, edits, installVars, tokenVars, replaced>>

-----------------------------------------------------------------------------
(* atomic_save: the file is copied to the first free name of a backup (not   *)
(* atomically), the new text is renamed into place, the directory synced.    *)

(* Seeded fault: there is one backup, and the next save overwrites it.       *)
NextBackup_First(path) == 1

NextBackup(path) == Len(backups[path]) + 1

PutBackup(path, slot, content) ==
  backups' = [backups EXCEPT ![path] = IF slot > Len(@) THEN Append(@, content)
                                       ELSE [@ EXCEPT ![slot] = content]]

CopyBackup ==
  /\ WizardAt("copy")
  /\ IF text[wizard.path] = Absent THEN WizardGoes("persist") /\ UNCHANGED backups
     ELSE PutBackup(wizard.path, NextBackup(wizard.path), Absent) /\ WizardGoes("copying")
  /\ UNCHANGED <<text, replaced>>

BackupComplete ==
  /\ WizardAt("copying")
  /\ \E slot \in DOMAIN backups[wizard.path] :
       /\ backups[wizard.path][slot] = Absent
       /\ \A later \in DOMAIN backups[wizard.path] : later > slot =>
            backups[wizard.path][later] # Absent
       /\ PutBackup(wizard.path, slot, text[wizard.path])
  /\ WizardGoes("persist") /\ UNCHANGED <<text, replaced>>

Persist ==
  /\ WizardAt("persist")
  /\ text' = [text EXCEPT ![wizard.path] = wizard.config]
  /\ replaced' = [replaced EXCEPT ![wizard.path] = @ \cup ({text[wizard.path]} \ {Absent})]
  /\ WizardGoes(IF wizard.moving THEN "binary" ELSE "show")
  /\ UNCHANGED backups

Save ==
  /\ CopyBackup \/ BackupComplete \/ Persist
  /\ UNCHANGED <<runs, edits, installVars, tokenVars>>

(* Seeded fault: a token that replaces another one is not displayed.         *)
ShowToken_First ==
  /\ WizardAt("show")
  /\ shown' = IF replaced[wizard.path] = {} THEN shown \cup wizard.token ELSE shown
  /\ WizardGoes("offer")
  /\ UNCHANGED <<text, backups, runs, edits, installVars, lost, replaced>>

(* OWNER TOKEN - shown once.                                                *)
ShowToken ==
  /\ WizardAt("show")
  /\ shown' = shown \cup wizard.token
  /\ WizardGoes("offer")
  /\ UNCHANGED <<text, backups, runs, edits, installVars, lost, replaced>>

-----------------------------------------------------------------------------
(* install_systemd, offered when systemd runs here and the user is root: the *)
(* file may move to /etc first, the executable is copied or used in place.   *)
AcceptService ==
  /\ WizardAt("offer")
  /\ \/ WizardGoes("binary")
     \/ /\ wizard.path = Home
        /\ wizard' = [wizard EXCEPT !.pc = "copy", !.path = System, !.moving = TRUE]
  /\ UNCHANGED installVars

ChooseBinary ==
  /\ WizardAt("binary")
  /\ \E b \in {"system", "current"} :
       wizard' = [wizard EXCEPT !.pc = "uds.service", !.binary = b]
  /\ UNCHANGED installVars

WriteUnit(file, next) ==
  /\ WizardAt(file)
  /\ unitFiles' = unitFiles \cup {file}
  /\ unit' = IF file = "uds.service"
             THEN {[binary |-> wizard.binary, config |-> wizard.path]} ELSE unit
  /\ WizardGoes(next)
  /\ UNCHANGED <<loaded, watching, service>>

(* Seeded fault: systemd is not told that the unit changed.                  *)
DaemonReload_Skipped ==
  /\ WizardAt("reload") /\ loaded' = (IF loaded = {} THEN unit ELSE loaded) /\ WizardGoes("enable")
  /\ UNCHANGED <<unitFiles, unit, watching, service>>

DaemonReload ==
  /\ WizardAt("reload") /\ loaded' = unit /\ WizardGoes("enable")
  /\ UNCHANGED <<unitFiles, unit, watching, service>>

(* A server reads its file when it starts, and then decides for good whether *)
(* it supports updates (UpdateManager::open).  systemd starts it in /, where *)
(* a relative path leads nowhere; it may also fail for other reasons.        *)
Servers(u) ==
  {[config |-> text[u.config], updates |-> u.binary = "system" /\ UnitFiles \subseteq unitFiles]}

StartedBy(units) ==
  {{}} \cup {Servers(u) : u \in {v \in units : v.config # Relative /\ text[v.config] \in Contents}}

EnableService ==
  /\ WizardAt("enable")
  /\ service' \in IF service = {} THEN StartedBy(loaded) ELSE {service}
  /\ WizardGoes("trigger")
  /\ UNCHANGED <<unitFiles, unit, loaded, watching>>

EnableTrigger ==
  /\ WizardAt("trigger") /\ watching' = TRUE /\ WizardGoes("restart")
  /\ UNCHANGED <<unitFiles, unit, loaded, service>>

RestartService ==
  /\ WizardAt("restart") /\ service' \in StartedBy(loaded) /\ WizardGoes("verify")
  /\ UNCHANGED <<unitFiles, unit, loaded, watching>>

(* verify_service: the unit is active and /health answers.                  *)
VerifyService == WizardAt("verify") /\ service # {} /\ WizardGoes("verified") /\ UNCHANGED installVars

Install ==
  /\ \/ AcceptService \/ ChooseBinary
     \/ WriteUnit("uds.service", "uds-update.service")
     \/ WriteUnit("uds-update.service", "uds-update.path")
     \/ WriteUnit("uds-update.path", "reload")
     \/ DaemonReload \/ EnableService \/ EnableTrigger \/ RestartService \/ VerifyService
  /\ UNCHANGED <<text, backups, runs, edits, tokenVars, replaced>>

-----------------------------------------------------------------------------
(* The run ends: it is done, an answer is no, an error is returned, or the    *)
(* process is killed.                                                       *)
End ==
  /\ ~ WizardAt("off")
  /\ wizard' = NoWizard
  /\ lost' = IF WizardAt("show") THEN lost \cup wizard.token ELSE lost
  /\ UNCHANGED <<text, backups, runs, edits, installVars, shown, replaced>>

(* Restart=on-failure.                                                      *)
ServiceRestarts ==
  /\ service # {} /\ service' \in StartedBy(loaded)
  /\ UNCHANGED <<text, backups, wizard, runs, edits, unitFiles, unit, loaded, watching,
                 tokenVars, replaced>>

(* Files are edited between runs or while the assistant still asks for the    *)
(* settings, not while it saves or installs.                                *)
EditByHand ==
  /\ wizard.pc \in {"off", "prompts"} /\ edits < MaxEdits
  /\ \E p \in Paths, s \in Settings :
       /\ text[p] \in Contents
       /\ text' = [text EXCEPT ![p] = [@ EXCEPT !.settings = s]]
  /\ edits' = edits + 1
  /\ UNCHANGED <<backups, wizard, runs, installVars, tokenVars, replaced>>

ConfigureNext ==
  \/ \E p \in Paths : Load(p)
  \/ Review \/ Save \/ ShowToken \/ Install \/ End \/ ServiceRestarts \/ EditByHand

ConfigureSpec == ConfigureInit /\ [][ConfigureNext]_configureVars

-----------------------------------------------------------------------------
(* Every variable stays in its domain.                                      *)
ConfigureTypeOK ==
  /\ text \in [Paths -> Contents \cup {Absent, Invalid}]
  /\ \A p \in Paths : \A i \in DOMAIN backups[p] : backups[p][i] \in Contents \cup {Absent}
  /\ wizard.path \in Paths /\ wizard.config \in Contents \cup {Absent, Invalid}
  /\ wizard.pc \notin {"off", "prompts"} => wizard.config \in Contents
  /\ wizard.token \subseteq 1 .. MaxRuns /\ wizard.moving \in BOOLEAN
  /\ runs \in 0 .. MaxRuns /\ edits \in 0 .. MaxEdits
  /\ unitFiles \subseteq UnitFiles /\ unit \subseteq Units /\ loaded \subseteq Units
  /\ service = {} \/ \E u \in Contents : service \in {{[config |-> u, updates |-> b]} : b \in BOOLEAN}
  /\ shown \cup lost \subseteq Tokens
  /\ \A p \in Paths : replaced[p] \subseteq Contents

(* "Original preserved in protected backup" (report_saved): whatever a run    *)
(* replaced, hand edits included, is in a complete backup for good, however   *)
(* often the assistant runs and wherever a run breaks off.                   *)
OriginalConfigKept ==
  \A p \in Paths : \A c \in replaced[p] : Contains(backups[p], c)

(* The owner can use every file the assistant left: its token is the one      *)
(* before or was displayed, unless the run broke off between the two.        *)
OwnerTokenKnown ==
  \A p \in Paths : text[p] \in Contents =>
    text[p].token \in shown \cup lost \cup (IF WizardAt("show") THEN wizard.token ELSE {})

(* A verified installation runs what was reviewed, under the unit that was    *)
(* written, and a node that offers updates has its trigger watching, whatever *)
(* ran before and whatever restarted meanwhile.                             *)
VerifiedInstallationIsCurrent ==
  WizardAt("verified") =>
    /\ loaded = {[binary |-> wizard.binary, config |-> wizard.path]}
    /\ \A s \in service : /\ s.config = wizard.config
                          /\ wizard.binary = "system" => s.updates
                          /\ s.updates => watching
=============================================================================
