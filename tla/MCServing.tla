------------------------------- MODULE MCServing -------------------------------
(***************************************************************************)
(* One instance for TLC of three conversations of a running node that share *)
(* no state: how it stops, how its log is followed, how an upload gets in.   *)
(* The initial state chooses which of them takes place.                     *)
(***************************************************************************)
EXTENDS ShutdownDrain, LogStream, UploadIntake

CONSTANT MaxRequests  \* bound: requests that arrive at the node that stops

VARIABLE scene  \* "drain", "logs", "upload"

servingVars == <<scene, drainVars, logVars, intakeVars>>

Section(a, t, m, p) == [artifact |-> a, total |-> t, metadata |-> m, platforms |-> p]

(* Limits that allow two artifacts, one or none, that overflow and that are *)
(* refused.                                                                *)
MCConfigs == {Section(3, 3, 1, 2), Section(2, 2, 1, 2), Section(1, 2, 3, 1),
              Section(4, 4, 1, 2), Section(2, 1, 1, 1), Section(1, 1, 1, 0)}

ServingInit ==
  /\ scene \in {"drain", "logs", "upload"}
  /\ DrainInit /\ LogInit /\ IntakeInit
  /\ scene # "logs" => follow
  /\ scene # "upload" => config = Section(1, 2, 3, 1)

FewRequests == Cardinality({r \in Requests : request'[r] # "new"}) <= MaxRequests

Finished ==
  \/ scene = "drain" /\ main = "exited"
  \/ scene = "logs" /\ (viewer \in {"failed", "done"} \/ connections = MaxConnections)
  \/ scene = "upload" /\ phase \in {"refused config", "gave up", "accepted", "refused"}

ServingNext ==
  \/ /\ scene = "drain" /\ DrainNext /\ FewRequests
     /\ UNCHANGED <<scene, logVars, intakeVars>>
  \/ scene = "logs" /\ LogNext /\ UNCHANGED <<scene, drainVars, intakeVars>>
  \/ scene = "upload" /\ IntakeNext /\ UNCHANGED <<scene, drainVars, logVars>>
  \/ Finished /\ UNCHANGED servingVars

ServingSpec == ServingInit /\ [][ServingNext]_servingVars /\ DrainFairness
=============================================================================
