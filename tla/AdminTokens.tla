----------------------------- MODULE AdminTokens -----------------------------
(***************************************************************************)
(* src/src/auth.rs: the administrator tokens of each node, kept in memory    *)
(* behind a RwLock and in auth/admin-tokens.json, and their exchange over   *)
(* the fleet API (routes/mod.rs: fleet_admin_tokens and                     *)
(* merge_fleet_admin_tokens).                                              *)
(*                                                                         *)
(* A handler changes the records in memory first and then persists all of   *)
(* them, under one write guard. Persisting may fail, or the handler may be  *)
(* dropped while the rename of the new file is already on the blocking     *)
(* pool; the changed records stay in memory either way.                    *)
(*                                                                         *)
(* ClusterState never learns a peer (cluster.rs:36-55), so                  *)
(* replicate_auth_snapshot sends nothing. Records travel only as snapshots  *)
(* that a client of the fleet API reads from one node and posts to another, *)
(* any number of times, in any order, or never.                            *)
(***************************************************************************)
EXTENDS Naturals, Sequences, FiniteSets

CONSTANTS
  Nodes, Tokens,
  Mutations,               \* mutation UUIDs: each is drawn once, in any order
  MaxFaults, MaxRestarts,  \* bounds on the faults and restarts explored
  Absent, NoToken

ASSUME MutationAssumption == Mutations \subseteq Nat

VARIABLES
  memory,    \* per node: RwLock<Vec<AdminTokenRecord>>
  disk,      \* per node: admin-tokens.json
  pc,        \* per node: "idle", or the write guard's holder at "rename", "reply"
  subject,   \* per node: the token the holder answers about; NoToken for a merge
  late,      \* per node: snapshots whose rename outlived its handler
  sent,      \* snapshots read over the fleet API
  unused,    \* mutation UUIDs not drawn yet
  acked,     \* history, per node: the newest revision answered with success
  faults, restarts

vars == <<memory, disk, pc, subject, late, sent, unused, acked, faults, restarts>>

Entries == [enabled : BOOLEAN, mutation : Mutations]

Records ==
  [enabled : BOOLEAN, revision : Nat, mutation : Mutations, history : Seq(Entries)]

Stores == [Tokens -> Records \cup {Absent}]

ASSUME MarkerAssumption == NoToken \notin Tokens /\ Absent \notin Records

Known(store) == {t \in Tokens : store[t] # Absent}

Revision(store, t) == IF t \in Known(store) THEN store[t].revision ELSE 0

(* Seeded fault: revisions alone decide, equal ones keep what is there.     *)
Wins_Revision(r, current) == r.revision > current.revision

(* Higher revisions win, the mutation UUID breaks ties.                    *)
Wins(r, current) ==
  \/ r.revision > current.revision
  \/ r.revision = current.revision /\ r.mutation > current.mutation

(* Seeded fault: the history is kept when a newer record arrives.          *)
Adopted_KeepsHistory(r, current) == [r EXCEPT !.history = current.history]

(* A winning record replaces the whole record.                             *)
Adopted(r, current) == r

(* merge: what a store holds after a snapshot was merged into it.          *)
Joined(store, snapshot) ==
  [t \in Tokens |->
    IF t \notin Known(snapshot) THEN store[t]
    ELSE IF t \notin Known(store) THEN snapshot[t]
    ELSE IF Wins(snapshot[t], store[t]) THEN Adopted(snapshot[t], store[t])
    ELSE store[t]]

-----------------------------------------------------------------------------
Draw(u) == u \in unused /\ unused' = unused \ {u}

(* Seeded fault: the guard is dropped before the file is written.          *)
Guarded_MemoryOnly(n) == pc[n] \in {"idle", "rename"}

(* The write guard is free.                                                *)
Guarded(n) == pc[n] = "idle"

(* The records in memory are changed and persist begins.                   *)
Change(n, store, t) ==
  /\ memory' = [memory EXCEPT ![n] = store]
  /\ pc' = [pc EXCEPT ![n] = "rename"]
  /\ subject' = [subject EXCEPT ![n] = t]

Acknowledge(n, t) ==
  acked' = [acked EXCEPT ![n][t] =
    IF Revision(memory[n], t) > @ THEN Revision(memory[n], t) ELSE @]

(* A new token's UUID is in no store, file, snapshot or earlier answer.     *)
New(t) ==
  /\ \A m \in Nodes : /\ t \notin Known(memory[m]) \cup Known(disk[m])
                      /\ \A s \in late[m] : t \notin Known(s)
                      /\ acked[m][t] = 0
  /\ \A s \in sent : t \notin Known(s)

Create(n, t, u) ==
  /\ Guarded(n)
  /\ New(t)
  /\ Draw(u)
  /\ Change(n, [memory[n] EXCEPT ![t] =
       [enabled |-> TRUE, revision |-> 1, mutation |-> u, history |-> <<>>]], t)
  /\ UNCHANGED <<disk, late, sent, acked, faults, restarts>>

(* Seeded fault: the record is stamped with the nil UUID.                  *)
Switched_NilMutation(r, on, u) ==
  [enabled |-> on, revision |-> r.revision + 1, mutation |-> 0,
   history |-> Append(r.history, [enabled |-> on, mutation |-> u])]

(* The record after a change of its status.                                *)
Switched(r, on, u) ==
  [enabled |-> on, revision |-> r.revision + 1, mutation |-> u,
   history |-> Append(r.history, [enabled |-> on, mutation |-> u])]

(* Seeded fault: repeating the current status counts as a change.           *)
Differs_Always(r, on) == TRUE

Differs(r, on) == r.enabled # on

(* set_enabled on a record whose status differs.                           *)
SetEnabled(n, t, on, u) ==
  /\ Guarded(n)
  /\ t \in Known(memory[n])
  /\ Differs(memory[n][t], on)
  /\ Draw(u)
  /\ Change(n, [memory[n] EXCEPT ![t] = Switched(@, on, u)], t)
  /\ UNCHANGED <<disk, late, sent, acked, faults, restarts>>

(* set_enabled to the current status answers at once and persists nothing. *)
SetEnabledAgain(n, t) ==
  /\ Guarded(n)
  /\ t \in Known(memory[n])
  /\ Acknowledge(n, t)
  /\ UNCHANGED <<memory, disk, pc, subject, late, sent, unused, faults, restarts>>

(* merge of a snapshot that changes something; any other answers at once.  *)
Merge(n, s) ==
  /\ Guarded(n)
  /\ Joined(memory[n], s) # memory[n]
  /\ Change(n, Joined(memory[n], s), NoToken)
  /\ UNCHANGED <<disk, late, sent, unused, acked, faults, restarts>>

(* fleet_snapshot waits for the write guard.                               *)
Fetch(n) ==
  /\ Guarded(n)
  /\ sent' = sent \cup {memory[n]}
  /\ UNCHANGED <<memory, disk, pc, subject, late, unused, acked, faults, restarts>>

(* persist: the new file is complete and synced, now it replaces the old.   *)
Rename(n) ==
  /\ pc[n] = "rename"
  /\ disk' = [disk EXCEPT ![n] = memory[n]]
  /\ pc' = [pc EXCEPT ![n] = "reply"]
  /\ UNCHANGED <<memory, subject, late, sent, unused, acked, faults, restarts>>

Release(n) ==
  /\ pc' = [pc EXCEPT ![n] = "idle"]
  /\ subject' = [subject EXCEPT ![n] = NoToken]

Reply(n) ==
  /\ pc[n] = "reply"
  /\ IF subject[n] = NoToken THEN UNCHANGED acked ELSE Acknowledge(n, subject[n])
  /\ Release(n)
  /\ UNCHANGED <<memory, disk, late, sent, unused, faults, restarts>>

(* A file operation before, at or after the rename fails, or the handler is *)
(* dropped with nothing left on the pool.                                  *)
PersistFails(n) ==
  /\ pc[n] \in {"rename", "reply"}
  /\ faults < MaxFaults
  /\ faults' = faults + 1
  /\ Release(n)
  /\ UNCHANGED <<memory, disk, late, sent, unused, acked, restarts>>

(* The handler is dropped; the pool may still have its rename.             *)
Cancel(n) ==
  /\ pc[n] = "rename"
  /\ faults < MaxFaults
  /\ faults' = faults + 1
  /\ late' = [late EXCEPT ![n] = @ \cup {memory[n]}]
  /\ Release(n)
  /\ UNCHANGED <<memory, disk, sent, unused, acked, restarts>>

LateRename(n, s) ==
  /\ s \in late[n]
  /\ late' = [late EXCEPT ![n] = @ \ {s}]
  /\ disk' = [disk EXCEPT ![n] = s]
  /\ UNCHANGED <<memory, pc, subject, sent, unused, acked, faults, restarts>>

(* The process dies anywhere and AdminTokenStore::open reads the file.      *)
Restart(n) ==
  /\ restarts < MaxRestarts
  /\ restarts' = restarts + 1
  /\ memory' = [memory EXCEPT ![n] = disk[n]]
  /\ late' = [late EXCEPT ![n] = {}]
  /\ Release(n)
  /\ UNCHANGED <<disk, sent, unused, acked, faults>>

-----------------------------------------------------------------------------
Empty == [t \in Tokens |-> Absent]

Init ==
  /\ memory = [n \in Nodes |-> Empty]
  /\ disk = [n \in Nodes |-> Empty]
  /\ pc = [n \in Nodes |-> "idle"]
  /\ subject = [n \in Nodes |-> NoToken]
  /\ late = [n \in Nodes |-> {}]
  /\ sent = {}
  /\ unused = Mutations
  /\ acked = [n \in Nodes |-> [t \in Tokens |-> 0]]
  /\ faults = 0 /\ restarts = 0

Owner(n) ==
  \E t \in Tokens :
    \/ SetEnabledAgain(n, t)
    \/ \E u \in Mutations :
         Create(n, t, u) \/ \E on \in BOOLEAN : SetEnabled(n, t, on, u)

Next ==
  \E n \in Nodes :
    \/ Owner(n)
    \/ Fetch(n)
    \/ \E s \in sent : Merge(n, s)
    \/ Rename(n) \/ Reply(n)
    \/ PersistFails(n) \/ Cancel(n)
    \/ \E s \in late[n] : LateRename(n, s)
    \/ Restart(n)

Spec == Init /\ [][Next]_vars

-----------------------------------------------------------------------------
(* Every variable has its type.                                            *)
TypeOK ==
  /\ memory \in [Nodes -> Stores] /\ disk \in [Nodes -> Stores]
  /\ pc \in [Nodes -> {"idle", "rename", "reply"}]
  /\ subject \in [Nodes -> Tokens \cup {NoToken}]
  /\ late \in [Nodes -> SUBSET Stores]
  /\ sent \subseteq Stores
  /\ unused \subseteq Mutations
  /\ acked \in [Nodes -> [Tokens -> Nat]]
  /\ faults \in Nat /\ restarts \in Nat

(* A record's status history tells the whole story of its status: one entry *)
(* per revision after the first, the last of which is the current status    *)
(* (README.md:391), on every node and whatever was merged.                  *)
HistoryExplainsStatus ==
  \A n \in Nodes : \A t \in Known(memory[n]) :
    LET r == memory[n][t]
        k == Len(r.history)
    IN  /\ r.revision = k + 1
        /\ k = 0 => r.enabled
        /\ k > 0 => r.history[k] = [enabled |-> r.enabled, mutation |-> r.mutation]

(* Snapshots may reach a node in any order, twice, and from anyone: merging *)
(* two of them gives the same records either way, so nodes that have heard  *)
(* of the same changes agree (auth.rs:243-269).                            *)
DeliveryOrderIsIrrelevant ==
  \A n \in Nodes : \A s1, s2 \in sent \cup {memory[m] : m \in Nodes} :
    Joined(Joined(memory[n], s1), s2) = Joined(Joined(memory[n], s2), s1)

(* Until a node restarts its records only move forward: a record stays as it *)
(* is or gives way to one that is later in the order of revisions and       *)
(* mutation UUIDs, so an old snapshot undoes nothing. And the tie-break       *)
(* never turns a status round: of two concurrent changes with one revision  *)
(* both disable or both enable the token, since only real transitions count *)
(* (auth.rs:304-316), so a status changes only along with the revision. A   *)
(* higher revision from elsewhere may well enable what was disabled here.   *)
NoStatusRollback ==
  [][restarts' = restarts =>
       \A n \in Nodes : \A t \in Known(memory[n]) :
         LET old == memory[n][t]
             new == memory'[n][t]
         IN  /\ new = old \/ Wins(new, old)
             /\ new.enabled # old.enabled => new.revision > old.revision]_vars

(* A status answered with success is what the node knows, or older, after   *)
(* any restart (test auth.rs:447, history_survives_restart).               *)
AcknowledgedStatusSurvivesRestart ==
  \A n \in Nodes, t \in Tokens : acked[n][t] <= Revision(memory[n], t)

(* It survives as long as no file operation fails and no handler is dropped *)
(* while it persists.                                                      *)
AcknowledgedStatusSurvivesCleanRestart ==
  faults = 0 => AcknowledgedStatusSurvivesRestart
=============================================================================
