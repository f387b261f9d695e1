---------------------------- MODULE ReleaseStore ----------------------------
(***************************************************************************)
(* src/src/storage.rs: the content-addressed blobs and the release          *)
(* manifests under data_dir, and the request handlers that change them.     *)
(*                                                                         *)
(* A handler is an async task. It holds mutation_lock from Acquire to its   *)
(* last step and every file operation it awaits runs on the blocking pool.  *)
(* Dropping a handler (its client went away, or the drain deadline closed   *)
(* the connection) releases the lock at once, but a file operation already  *)
(* handed to the pool still runs: such a handler is not `live`.             *)
(*                                                                         *)
(* A crash kills every task and the pool. What survives is what is on disk: *)
(* releases, blobs and strays, the release directories in which an          *)
(* interrupted manifest replacement left its temporary file. Abandoned      *)
(* staging and .tmp- blob directories, which nothing ever reads, are left   *)
(* out.                                                                     *)
(***************************************************************************)
EXTENDS Naturals, FiniteSets

CONSTANTS
  Handlers,     \* concurrent admin requests
  Cancellable,  \* the handlers whose client may go away
  Channels, Versions, Platforms, Digests, Notes,
  Uploads,      \* artifact sets a client may upload: Platforms -> Digests or NoArtifact
  NoArtifact, NoRelease, NoRequest, Free

VARIABLES
  server,    \* "up", "starting", "down" or "refused" (Storage::new failed)
  releases,  \* releases/<channel>/<version>/manifest.json
  strays,    \* release directories that hold a leftover temporary file
  blobs,     \* digests with a directory under blobs/sha256
  lock,      \* mutation_lock: the handler that holds it, or Free
  pc, live, req, draft, todo,  \* per handler; todo: blobs still to publish
  acked      \* history: releases whose withdrawal was answered with success

disk == <<releases, strays, blobs>>
tasks == <<pc, live, req, draft, todo>>
vars == <<server, releases, strays, blobs, lock, pc, live, req, draft, todo, acked>>

Keys == Channels \X Versions

PlatformMaps == [Platforms -> Digests \cup {NoArtifact}]

Manifests == [platforms : PlatformMaps, notes : Notes, withdrawn : BOOLEAN]

ASSUME HandlerAssumption == Cancellable \subseteq Handlers /\ Free \notin Handlers
ASSUME ReleaseAssumption == NoRelease \notin Manifests /\ NoArtifact \notin Digests
ASSUME UploadAssumption == Uploads \subseteq PlatformMaps

Blobs(m) == {m.platforms[p] : p \in Platforms} \ {NoArtifact}

Visible == {k \in Keys : releases[k] # NoRelease}

Requests ==
  [op : {"put"}, key : Keys, platforms : Uploads, notes : Notes]
    \cup [op : {"patch"}, key : Keys, notes : Notes]
    \cup [op : {"withdraw"}, key : Keys]
    \cup [op : {"copy"}, key : Keys, source : Channels]

-----------------------------------------------------------------------------
(* Requests                                                                *)

(* Seeded fault: an early return that forgets to release the lock.         *)
LockAfter_Kept(h) == lock

(* The guard is dropped with the handler's future.                         *)
LockAfter(h) == IF lock = h THEN Free ELSE lock

Forget(h) ==
  /\ pc' = [pc EXCEPT ![h] = "idle"]
  /\ live' = [live EXCEPT ![h] = TRUE]
  /\ req' = [req EXCEPT ![h] = NoRequest]
  /\ draft' = [draft EXCEPT ![h] = NoRelease]
  /\ todo' = [todo EXCEPT ![h] = {}]

(* The handler returns, with success or an error, or its last pooled       *)
(* operation ends after the handler itself was dropped.                    *)
Finish(h) == Forget(h) /\ lock' = LockAfter(h)

Goto(h, label) == pc' = [pc EXCEPT ![h] = label]

(* A validated request reaches mutation_lock.lock().await.                 *)
Receive(h, r) ==
  /\ server = "up"
  /\ pc[h] = "idle"
  /\ Goto(h, "lock")
  /\ req' = [req EXCEPT ![h] = r]
  /\ UNCHANGED <<server, disk, lock, live, draft, todo, acked>>

(* Seeded fault: mutations no longer exclude each other.                   *)
MayEnter_Unlocked(h) == pc[h] = "lock"

MayEnter(h) == pc[h] = "lock" /\ lock = Free

(* put_release and copy_release refuse an existing target: Conflict.       *)
IsConflict(h) == req[h].op \in {"put", "copy"} /\ req[h].key \in Visible

(* Seeded fault: an upload leaves the release without notes.               *)
NewRelease_NoNotes(h) ==
  [platforms |-> req[h].platforms, notes |-> NoRelease, withdrawn |-> FALSE]

NewRelease(h) ==
  [platforms |-> req[h].platforms, notes |-> req[h].notes, withdrawn |-> FALSE]

Acquire(h) ==
  /\ MayEnter(h)
  /\ IF IsConflict(h)
       THEN Forget(h) /\ UNCHANGED lock
       ELSE /\ lock' = h
            /\ IF req[h].op = "put"
                 THEN /\ Goto(h, "blob")
                      /\ draft' = [draft EXCEPT ![h] = NewRelease(h)]
                      /\ todo' = [todo EXCEPT ![h] = Blobs(NewRelease(h))]
                 ELSE Goto(h, "load") /\ UNCHANGED <<draft, todo>>
            /\ UNCHANGED <<live, req>>
  /\ UNCHANGED <<server, disk, acked>>

(* publish_blob: the data moves into a .tmp- directory that is renamed to   *)
(* the digest; an existing or concurrently created directory is verified    *)
(* and reused. Either way the digest is complete afterwards. A dropped      *)
(* handler publishes no further blob.                                      *)
PublishBlob(h, d) ==
  /\ pc[h] = "blob"
  /\ d \in todo[h]
  /\ blobs' = blobs \cup {d}
  /\ IF live[h]
       THEN /\ todo' = [todo EXCEPT ![h] = @ \ {d}]
            /\ Goto(h, IF todo[h] = {d} THEN "rename" ELSE "blob")
            /\ UNCHANGED <<live, req, draft, lock>>
       ELSE Finish(h)
  /\ UNCHANGED <<server, releases, strays, acked>>

Source(h) ==
  IF req[h].op = "copy" THEN <<req[h].source, req[h].key[2]>> ELSE req[h].key

(* Seeded fault: patching the notes rebuilds the manifest from defaults.   *)
Edited_Defaults(h, m) ==
  CASE req[h].op = "patch" -> [m EXCEPT !.notes = req[h].notes, !.withdrawn = FALSE]
    [] req[h].op = "withdraw" -> [m EXCEPT !.withdrawn = TRUE]
    [] OTHER -> m

Edited(h, m) ==
  CASE req[h].op = "patch" -> [m EXCEPT !.notes = req[h].notes]
    [] req[h].op = "withdraw" -> [m EXCEPT !.withdrawn = TRUE]
    [] OTHER -> m

(* load_manifest (NotFound when absent) and, for a copy, verify_blob on     *)
(* each artifact; then the manifest is edited in memory.                   *)
Load(h) ==
  /\ pc[h] = "load"
  /\ IF /\ Source(h) \in Visible
        /\ req[h].op = "copy" => Blobs(releases[Source(h)]) \subseteq blobs
       THEN /\ draft' = [draft EXCEPT ![h] = Edited(h, releases[Source(h)])]
            /\ Goto(h, IF req[h].op = "copy" THEN "rename" ELSE "save")
            /\ UNCHANGED <<live, req, todo, lock>>
       ELSE Finish(h)
  /\ UNCHANGED <<server, disk, acked>>

(* Seeded fault: the staged directory replaces whatever is at the target.  *)
Target_Replaced(h) == draft[h]

(* rename fails on a directory that is not empty.                          *)
Target(h) ==
  IF req[h].key \in Visible THEN releases[req[h].key] ELSE draft[h]

(* The staged manifest directory is renamed to releases/<channel>/<version>. *)
Rename(h) ==
  /\ pc[h] = "rename"
  /\ releases' = [releases EXCEPT ![req[h].key] = Target(h)]
  /\ Finish(h)
  /\ UNCHANGED <<server, strays, blobs, acked>>

(* save_manifest: atomic_write_json creates its temporary file next to the  *)
(* manifest ...                                                            *)
CreateTemp(h) ==
  /\ pc[h] = "save"
  /\ Goto(h, "persist")
  /\ UNCHANGED <<server, disk, lock, live, req, draft, todo, acked>>

(* ... and renames it over manifest.json.                                  *)
Persist(h) ==
  /\ pc[h] = "persist"
  /\ releases' = [releases EXCEPT ![req[h].key] = draft[h]]
  /\ acked' = IF live[h] /\ req[h].op = "withdraw"
                THEN acked \cup {req[h].key} ELSE acked
  /\ Finish(h)
  /\ UNCHANGED <<server, strays, blobs>>

(* A file operation fails and the handler returns the error. Dropping the   *)
(* NamedTempFile removes a temporary file.                                 *)
IoError(h) ==
  /\ pc[h] \in {"blob", "load", "rename", "save", "persist"}
  /\ Finish(h)
  /\ UNCHANGED <<server, disk, acked>>

(* The handler's future is dropped. An operation on the pool may still be   *)
(* about to publish a blob, rename the staged release or replace a          *)
(* manifest; the manifest replacement always is.                           *)
Cancel(h) ==
  /\ h \in Cancellable
  /\ live[h]
  /\ \/ /\ pc[h] \in {"lock", "load", "blob", "rename"}
        /\ Finish(h)
     \/ /\ pc[h] \in {"blob", "rename", "save", "persist"}
        /\ live' = [live EXCEPT ![h] = FALSE]
        /\ lock' = LockAfter(h)
        /\ UNCHANGED <<pc, req, draft, todo>>
  /\ UNCHANGED <<server, disk, acked>>

-----------------------------------------------------------------------------
(* Process life cycle                                                      *)

Crash ==
  /\ server \in {"up", "starting"}
  /\ server' = "down"
  /\ strays' = strays \cup {req[h].key : h \in {g \in Handlers : pc[g] = "persist"}}
  /\ lock' = Free
  /\ pc' = [h \in Handlers |-> "idle"]
  /\ live' = [h \in Handlers |-> TRUE]
  /\ req' = [h \in Handlers |-> NoRequest]
  /\ draft' = [h \in Handlers |-> NoRelease]
  /\ todo' = [h \in Handlers |-> {}]
  /\ UNCHANGED <<releases, blobs, acked>>

(* Storage::new up to ensure_no_legacy_releases, which refuses any file in  *)
(* a release directory that is not manifest.json.                          *)
Start ==
  /\ server \in {"down", "refused"}
  /\ server' = IF strays = {} THEN "starting" ELSE "refused"
  /\ UNCHANGED <<disk, lock, tasks, acked>>

(* Seeded fault: only the artifacts still on offer count as referenced.    *)
Referenced_Offered ==
  UNION {Blobs(releases[k]) : k \in {v \in Visible : ~releases[v].withdrawn}}

Referenced == UNION {Blobs(releases[k]) : k \in Visible}

(* One iteration of prune_unreferenced_blobs.                              *)
PruneBlob(d) ==
  /\ server = "starting"
  /\ d \in blobs \ Referenced
  /\ blobs' = blobs \ {d}
  /\ UNCHANGED <<server, releases, strays, lock, tasks, acked>>

(* Storage::new returns and the routes are served.                         *)
Serve ==
  /\ server = "starting"
  /\ blobs \subseteq Referenced
  /\ server' = "up"
  /\ UNCHANGED <<disk, lock, tasks, acked>>

-----------------------------------------------------------------------------
Init ==
  /\ server = "down"
  /\ releases = [k \in Keys |-> NoRelease]
  /\ strays = {}
  /\ blobs = {}
  /\ lock = Free
  /\ pc = [h \in Handlers |-> "idle"]
  /\ live = [h \in Handlers |-> TRUE]
  /\ req = [h \in Handlers |-> NoRequest]
  /\ draft = [h \in Handlers |-> NoRelease]
  /\ todo = [h \in Handlers |-> {}]
  /\ acked = {}

(* What a handler does next once it holds the lock.                        *)
Step(h) ==
  \/ \E d \in Digests : PublishBlob(h, d)
  \/ Load(h)
  \/ Rename(h)
  \/ CreateTemp(h)
  \/ Persist(h)
  \/ IoError(h)

Handle(h) ==
  \/ \E r \in Requests : Receive(h, r)
  \/ Acquire(h)
  \/ Step(h)
  \/ Cancel(h)

Startup == Start \/ Serve \/ \E d \in Digests : PruneBlob(d)

Next == Startup \/ Crash \/ \E h \in Handlers : Handle(h)

Spec == Init /\ [][Next]_vars

(* The runtime polls every task and the pool runs every operation; tokio's  *)
(* mutex is first come, first served, so no waiter is passed over forever.  *)
Fairness == \A h \in Handlers : WF_vars(Step(h)) /\ SF_vars(Acquire(h))

FairSpec == Spec /\ Fairness

-----------------------------------------------------------------------------
(* Properties                                                              *)

Labels == {"idle", "lock", "blob", "load", "rename", "save", "persist"}

(* Every variable has its type, in particular the manifest each handler     *)
(* holds in memory.                                                        *)
TypeOK ==
  /\ server \in {"up", "starting", "down", "refused"}
  /\ releases \in [Keys -> Manifests \cup {NoRelease}]
  /\ strays \subseteq Keys
  /\ blobs \subseteq Digests
  /\ lock \in Handlers \cup {Free}
  /\ pc \in [Handlers -> Labels]
  /\ live \in [Handlers -> BOOLEAN]
  /\ req \in [Handlers -> Requests \cup {NoRequest}]
  /\ draft \in [Handlers -> Manifests \cup {NoRelease}]
  /\ todo \in [Handlers -> SUBSET Digests]
  /\ acked \subseteq Keys

(* A release a client can see has every artifact in blob storage, through   *)
(* failed and dropped uploads, crashes anywhere, and the pruning of the     *)
(* next start (storage.rs:1-4, 90-162, 485-518).                           *)
VisibleReleasesComplete == \A k \in Visible : Blobs(releases[k]) \subseteq blobs

(* A published release stays, with the artifacts it was published with:     *)
(* a racing upload, copy, patch or withdrawal never replaces them.         *)
ArtifactsImmutable ==
  [][\A k \in Visible : /\ releases'[k] # NoRelease
                        /\ releases'[k].platforms = releases[k].platforms]_vars

(* A withdrawal that was answered with success is never undone by another   *)
(* request (README.md:325).                                                *)
AcknowledgedWithdrawalSticks == \A k \in acked : releases[k].withdrawn

(* A start is refused only for a layout this server did not write           *)
(* (storage.rs:57-60): none here, every file is its own.                   *)
OwnLayoutAccepted == server # "refused"

(* Every request ends: no early return or failed operation strands the      *)
(* handlers that wait for mutation_lock.                                   *)
RequestsFinish == \A h \in Handlers : pc[h] # "idle" ~> pc[h] = "idle"

(* The catalog a client sees: releases whose artifacts it can download.    *)
Catalog == INSTANCE ReleaseCatalog WITH
  catalog <- [k \in Keys |->
    IF k \in Visible /\ Blobs(releases[k]) \subseteq blobs
      THEN releases[k] ELSE NoRelease]

(* With no request dropped half way, the store implements the catalog: the  *)
(* staged files, the separate blobs, the crashes and restarts never show.  *)
ImplementsCatalog == Catalog!Spec
=============================================================================
