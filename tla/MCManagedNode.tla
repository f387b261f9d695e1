------------------------------- MODULE MCManagedNode -------------------------------
(***************************************************************************)
(* One instance for TLC of a node that systemd manages: how the assistant    *)
(* installs it, and how it updates itself afterwards.  What an installation  *)
(* leaves behind for the update is the state of the uds-update units; the    *)
(* update starts from each of them.  The initial state chooses the scene.    *)
(***************************************************************************)
EXTENDS SelfUpdate, ServerConfigure

VARIABLE scene  \* "configure", "update"

nodeVars == <<scene, updateVars, configureVars>>

UpdateRequest(i, v, p) == [id |-> i, version |-> v, prerelease |-> p]
Release(v, p, e) == [version |-> v, prerelease |-> p, eligible |-> e]

(* A regular release and a newer prerelease, and a request for each.         *)
MCRequests == {UpdateRequest("o1", 3, TRUE), UpdateRequest("o2", 2, FALSE)}
MCReleases == {Release(2, FALSE, TRUE), Release(3, TRUE, TRUE)}

ManagedNodeInit ==
  /\ scene \in {"configure", "update"}
  /\ UpdateInit /\ ConfigureInit
  /\ scene = "configure" => units = "none"
  /\ scene = "configure" => Absent \in {text[Home], text[Relative]}  \* at most one to begin with
  /\ scene = "update" => \A p \in Paths : text[p] = Absent

ManagedNodeNext ==
  \/ scene = "configure" /\ ConfigureNext /\ UNCHANGED <<scene, updateVars>>
  \/ scene = "update" /\ UpdateNext /\ UNCHANGED <<scene, configureVars>>

ManagedNodeSpec == ManagedNodeInit /\ [][ManagedNodeNext]_nodeVars /\ UpdateFairness

(* The types of both scenes.                                                *)
ManagedNodeTypeOK == UpdateTypeOK /\ ConfigureTypeOK
=============================================================================
