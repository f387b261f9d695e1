-------------------------- MODULE ReleaseStoreProofs --------------------------
(***************************************************************************)
(* For any handlers, of which any may be dropped half way, any channels,    *)
(* versions, platforms and uploads: the release storage never shows a       *)
(* release whose artifacts are missing and never changes the artifacts of a *)
(* release.  If none is dropped, withdrawals are never undone and the store  *)
(* implements ReleaseCatalog.                                              *)
(***************************************************************************)
EXTENDS ReleaseStore, TLAPS

(* What a handler has in memory agrees with the disk: blobs it has not yet  *)
(* published are still to do, a staged release has all its blobs, and a     *)
(* manifest about to be replaced is replaced by one with its artifacts.    *)
Backed(h) ==
  /\ pc[h] # "idle" => req[h] \in Requests
  /\ pc[h] \in {"blob", "rename", "save", "persist"} => draft[h] \in Manifests
  /\ pc[h] = "blob" => Blobs(draft[h]) \subseteq blobs \cup todo[h]
  /\ pc[h] = "rename" => Blobs(draft[h]) \subseteq blobs
  /\ pc[h] \in {"save", "persist"} =>
       /\ req[h].key \in Visible
       /\ draft[h].platforms = releases[req[h].key].platforms

(* No handler runs while blobs are pruned.                                 *)
QuietUntilServed == server # "up" => \A h \in Handlers : pc[h] = "idle"

StoreInv ==
  /\ TypeOK
  /\ VisibleReleasesComplete
  /\ \A h \in Handlers : Backed(h)
  /\ QuietUntilServed

(* A visible release stays visible with the same artifacts.                *)
ReleasesKept ==
  \A k \in Visible : /\ releases'[k] # NoRelease
                     /\ releases'[k].platforms = releases[k].platforms

-----------------------------------------------------------------------------
LEMMA RequestTypes ==
  ASSUME NEW r \in Requests
  PROVE  /\ r.key \in Keys
         /\ r.op \in {"put", "patch", "withdraw", "copy"}
         /\ r.op = "put" => r.platforms \in Uploads /\ r.notes \in Notes
         /\ r.op = "patch" => r.notes \in Notes
         /\ r.op = "copy" => r.source \in Channels
  BY DEF Requests

LEMMA ManifestTypes ==
  ASSUME NEW m \in Manifests
  PROVE  /\ m.platforms \in PlatformMaps
         /\ m.notes \in Notes
         /\ m.withdrawn \in BOOLEAN
         /\ Blobs(m) \subseteq Digests
         /\ m # NoRelease
  BY ReleaseAssumption DEF Manifests, PlatformMaps, Blobs

(* Editing a manifest keeps its artifacts.                                 *)
LEMMA EditedTypes ==
  ASSUME NEW h \in Handlers, NEW m \in Manifests, req[h] \in Requests
  PROVE  /\ Edited(h, m) \in Manifests
         /\ Edited(h, m).platforms = m.platforms
  <1>1. CASE req[h].op = "patch"
    BY <1>1, RequestTypes DEF Edited, Manifests
  <1>2. CASE req[h].op = "withdraw"
    BY <1>2, RequestTypes DEF Edited, Manifests
  <1>3. CASE req[h].op \notin {"patch", "withdraw"}
    BY <1>3 DEF Edited
  <1> QED BY <1>1, <1>2, <1>3

LEMMA SourceType ==
  ASSUME NEW h \in Handlers, req[h] \in Requests
  PROVE  Source(h) \in Keys
  BY RequestTypes DEF Source, Keys

(* A new release starts with all its blobs still to publish.               *)
LEMMA NewReleaseTypes ==
  ASSUME NEW h \in Handlers, req[h] \in Requests, req[h].op = "put"
  PROVE  NewRelease(h) \in Manifests /\ Blobs(NewRelease(h)) \subseteq Digests
  <1>1. NewRelease(h) \in Manifests
    BY RequestTypes, UploadAssumption DEF NewRelease, Manifests
  <1> QED BY <1>1, ManifestTypes

(* A handler whose own state does not change stays backed while blobs are   *)
(* added and releases are kept.                                            *)
LEMMA BackedStays ==
  ASSUME TypeOK, NEW h \in Handlers, Backed(h),
         ReleasesKept, blobs \subseteq blobs',
         releases' \in [Keys -> Manifests \cup {NoRelease}],
         pc'[h] = pc[h], req'[h] = req[h], draft'[h] = draft[h], todo'[h] = todo[h]
  PROVE  Backed(h)'
  <1>1. pc[h] \in {"save", "persist"} =>
          /\ req[h].key \in Visible
          /\ req[h].key \in Visible'
          /\ draft[h].platforms = releases'[req[h].key].platforms
    BY DEF Backed, ReleasesKept, Visible
  <1> QED BY <1>1 DEF Backed

-----------------------------------------------------------------------------
(* The handler h forgets its request; the others keep theirs.              *)
LEMMA ForgetEffect ==
  ASSUME TypeOK, NEW h \in Handlers, Forget(h)
  PROVE  /\ pc' \in [Handlers -> Labels] /\ live' \in [Handlers -> BOOLEAN]
         /\ req' \in [Handlers -> Requests \cup {NoRequest}]
         /\ draft' \in [Handlers -> Manifests \cup {NoRelease}]
         /\ todo' \in [Handlers -> SUBSET Digests]
         /\ pc'[h] = "idle" /\ Backed(h)'
         /\ \A g \in Handlers \ {h} :
              pc'[g] = pc[g] /\ req'[g] = req[g] /\ draft'[g] = draft[g] /\ todo'[g] = todo[g]
  BY DEF Forget, TypeOK, Labels, Backed

LEMMA LockAfterType ==
  ASSUME TypeOK, NEW h
  PROVE  LockAfter(h) \in Handlers \cup {Free}
  BY DEF LockAfter, TypeOK

(* A handler that ends without touching the disk, or after publishing a     *)
(* blob, preserves the invariant.                                          *)
LEMMA FinishPreserves ==
  ASSUME StoreInv, NEW h \in Handlers, Forget(h), server' = server,
         releases' \in [Keys -> Manifests \cup {NoRelease}],
         ReleasesKept, VisibleReleasesComplete',
         strays' = strays, blobs \subseteq blobs', blobs' \subseteq Digests,
         lock' \in Handlers \cup {Free}, acked' \subseteq Keys
  PROVE  StoreInv'
  <1> USE DEF StoreInv
  <1>1. TypeOK'
    BY ForgetEffect DEF TypeOK
  <1>2. ASSUME NEW g \in Handlers
        PROVE  Backed(g)'
    <2>1. CASE g = h
      BY <2>1, ForgetEffect
    <2>2. CASE g # h
      BY <2>2, ForgetEffect, BackedStays
    <2> QED BY <2>1, <2>2
  <1>3. QuietUntilServed'
    BY ForgetEffect DEF QuietUntilServed
  <1> QED BY <1>1, <1>2, <1>3

(* Nothing on disk changes.                                                *)
LEMMA DiskUnchanged ==
  ASSUME StoreInv, UNCHANGED disk
  PROVE  /\ ReleasesKept
         /\ VisibleReleasesComplete'
         /\ releases' \in [Keys -> Manifests \cup {NoRelease}]
         /\ strays' = strays /\ blobs \subseteq blobs' /\ blobs' \subseteq Digests
  BY DEF disk, StoreInv, ReleasesKept, VisibleReleasesComplete, Visible, TypeOK

-----------------------------------------------------------------------------
(* Actions of a handler                                                    *)

LEMMA ReceivePreserves ==
  ASSUME StoreInv, NEW h \in Handlers, NEW r \in Requests, Receive(h, r)
  PROVE  StoreInv'
  <1> USE DEF StoreInv
  <1>1. TypeOK'
    BY DEF Receive, Goto, disk, TypeOK, Labels
  <1>2. ASSUME NEW g \in Handlers
        PROVE  Backed(g)'
    <2>1. CASE g = h
      BY <2>1 DEF Receive, Goto, Backed, TypeOK
    <2>2. CASE g # h
      <3>1. pc'[g] = pc[g] /\ req'[g] = req[g] /\ draft'[g] = draft[g] /\ todo'[g] = todo[g]
        BY <2>2 DEF Receive, Goto, TypeOK
      <3> QED BY <3>1, DiskUnchanged, BackedStays DEF Receive
    <2> QED BY <2>1, <2>2
  <1>3. VisibleReleasesComplete'
    BY DiskUnchanged DEF Receive
  <1>4. QuietUntilServed'
    BY DEF Receive, QuietUntilServed
  <1> QED BY <1>1, <1>2, <1>3, <1>4

LEMMA AcquirePreserves ==
  ASSUME StoreInv, NEW h \in Handlers, Acquire(h)
  PROVE  StoreInv'
  <1> USE DEF StoreInv
  <1>1. CASE IsConflict(h)
    <2>1. Forget(h) /\ lock' = lock /\ UNCHANGED <<server, disk, acked>>
      BY <1>1 DEF Acquire
    <2> QED BY <2>1, DiskUnchanged, FinishPreserves DEF TypeOK
  <1>2. CASE ~IsConflict(h)
    <2>1. /\ pc[h] = "lock" /\ lock' = h
          /\ UNCHANGED <<server, disk, acked, live, req>>
      BY <1>2 DEF Acquire, MayEnter
    <2>2. req[h] \in Requests
      BY <2>1 DEF Backed
    <2>3. server = "up"
      BY <2>1 DEF QuietUntilServed, TypeOK
    <2>4. /\ TypeOK'
          /\ Backed(h)'
          /\ \A g \in Handlers \ {h} :
               pc'[g] = pc[g] /\ draft'[g] = draft[g] /\ todo'[g] = todo[g]
      <3>1. CASE req[h].op = "put"
        <4>1. /\ pc' = [pc EXCEPT ![h] = "blob"]
              /\ draft' = [draft EXCEPT ![h] = NewRelease(h)]
              /\ todo' = [todo EXCEPT ![h] = Blobs(NewRelease(h))]
          BY <1>2, <3>1 DEF Acquire, Goto
        <4>2. NewRelease(h) \in Manifests /\ Blobs(NewRelease(h)) \in SUBSET Digests
          BY <2>2, <3>1, NewReleaseTypes
        <4>3. TypeOK'
          BY <2>1, <4>1, <4>2 DEF TypeOK, Labels, disk
        <4>4. Backed(h)'
          BY <2>1, <2>2, <4>1, <4>2 DEF TypeOK, Backed, Blobs
        <4> QED BY <4>1, <4>3, <4>4 DEF TypeOK
      <3>2. CASE req[h].op # "put"
        <4>1. pc' = [pc EXCEPT ![h] = "load"] /\ UNCHANGED <<draft, todo>>
          BY <1>2, <3>2 DEF Acquire, Goto
        <4> QED BY <2>1, <2>2, <4>1 DEF TypeOK, Labels, Backed, disk
      <3> QED BY <3>1, <3>2
    <2>5. ASSUME NEW g \in Handlers, g # h
          PROVE  Backed(g)'
      BY <2>1, <2>4, <2>5, DiskUnchanged, BackedStays
    <2>6. VisibleReleasesComplete'
      BY <2>1, DiskUnchanged
    <2>7. QuietUntilServed'
      BY <2>1, <2>3 DEF QuietUntilServed
    <2> QED BY <2>4, <2>5, <2>6, <2>7
  <1> QED BY <1>1, <1>2

LEMMA PublishBlobPreserves ==
  ASSUME StoreInv, NEW h \in Handlers, NEW d \in Digests, PublishBlob(h, d)
  PROVE  StoreInv'
  <1> USE DEF StoreInv
  <1>1. /\ pc[h] = "blob" /\ d \in todo[h] /\ blobs' = blobs \cup {d}
        /\ UNCHANGED <<server, releases, strays, acked>>
    BY DEF PublishBlob
  <1>2. ReleasesKept /\ VisibleReleasesComplete' /\ blobs' \subseteq Digests
    BY <1>1 DEF ReleasesKept, VisibleReleasesComplete, Visible, TypeOK
  <1>3. CASE ~live[h]
    BY <1>1, <1>2, <1>3, LockAfterType, FinishPreserves DEF PublishBlob, Finish, TypeOK
  <1>4. CASE live[h]
    <2> DEFINE next == IF todo[h] = {d} THEN "rename" ELSE "blob"
    <2>1. /\ todo' = [todo EXCEPT ![h] = @ \ {d}]
          /\ pc' = [pc EXCEPT ![h] = next]
          /\ UNCHANGED <<live, req, draft, lock>>
      BY <1>4 DEF PublishBlob, Goto
    <2>2. TypeOK'
      BY <1>1, <2>1 DEF TypeOK, Labels
    <2>3. ASSUME NEW g \in Handlers
          PROVE  Backed(g)'
      <3>1. CASE g = h
        <4>1. todo'[h] = todo[h] \ {d} /\ pc'[h] = next
          BY <2>1 DEF TypeOK
        <4>2. Blobs(draft[h]) \subseteq blobs \cup todo[h]
          BY <1>1 DEF Backed
        <4>3. Blobs(draft[h]) \subseteq blobs' \cup todo'[h]
          BY <4>1, <4>2, <1>1
        <4>4. todo[h] = {d} => Blobs(draft[h]) \subseteq blobs'
          BY <4>2, <1>1
        <4> QED BY <1>1, <2>1, <3>1, <4>1, <4>3, <4>4 DEF Backed, Blobs
      <3>2. CASE g # h
        <4>1. pc'[g] = pc[g] /\ todo'[g] = todo[g]
          BY <2>1, <3>2 DEF TypeOK
        <4> QED BY <1>1, <1>2, <2>1, <2>2, <4>1, BackedStays DEF TypeOK
      <3> QED BY <3>1, <3>2
    <2>4. QuietUntilServed'
      <3>1. server = "up"
        BY <1>1 DEF QuietUntilServed
      <3> QED BY <3>1, <1>1 DEF QuietUntilServed
    <2> QED BY <1>2, <2>2, <2>3, <2>4
  <1> QED BY <1>3, <1>4

LEMMA LoadPreserves ==
  ASSUME StoreInv, NEW h \in Handlers, Load(h)
  PROVE  StoreInv'
  <1> USE DEF StoreInv
  <1> DEFINE m == releases[Source(h)]
             ok == Source(h) \in Visible /\ (req[h].op = "copy" => Blobs(m) \subseteq blobs)
             next == IF req[h].op = "copy" THEN "rename" ELSE "save"
  <1>1. pc[h] = "load" /\ UNCHANGED <<server, disk, acked>>
    BY DEF Load
  <1>2. CASE ~ok
    BY <1>1, <1>2, DiskUnchanged, LockAfterType, FinishPreserves DEF Load, Finish, TypeOK
  <1>3. CASE ok
    <2>1. /\ draft' = [draft EXCEPT ![h] = Edited(h, m)]
          /\ pc' = [pc EXCEPT ![h] = next]
          /\ UNCHANGED <<live, req, todo, lock>>
      BY <1>3 DEF Load, Goto
    <2>2. req[h] \in Requests
      BY <1>1 DEF Backed
    <2>3. m \in Manifests
      BY <1>3 DEF Visible, TypeOK
    <2>4. Edited(h, m) \in Manifests /\ Edited(h, m).platforms = m.platforms
      BY <2>2, <2>3, EditedTypes
    <2>5. TypeOK'
      BY <1>1, <2>1, <2>4 DEF TypeOK, Labels, disk
    <2>6. Backed(h)'
      <3>1. pc'[h] = next /\ draft'[h] = Edited(h, m)
        BY <2>1 DEF TypeOK
      <3>2. CASE req[h].op = "copy"
        <4>1. Blobs(Edited(h, m)) \subseteq blobs
          BY <1>3, <2>4, <3>2 DEF Blobs
        <4> QED BY <1>1, <2>1, <2>2, <2>4, <3>1, <3>2, <4>1 DEF Backed, Blobs, disk
      <3>3. CASE req[h].op # "copy"
        <4>1. Source(h) = req[h].key
          BY <3>3 DEF Source
        <4> QED BY <1>1, <1>3, <2>1, <2>2, <2>4, <3>1, <3>3, <4>1 DEF Backed, Visible, disk
      <3> QED BY <3>2, <3>3
    <2>7. ASSUME NEW g \in Handlers, g # h
          PROVE  Backed(g)'
      <3>1. pc'[g] = pc[g] /\ req'[g] = req[g] /\ draft'[g] = draft[g] /\ todo'[g] = todo[g]
        BY <2>1, <2>7 DEF TypeOK
      <3> QED BY <1>1, <3>1, DiskUnchanged, BackedStays
    <2>8. VisibleReleasesComplete'
      BY <1>1, DiskUnchanged
    <2>9. QuietUntilServed'
      <3>1. server = "up"
        BY <1>1 DEF QuietUntilServed
      <3> QED BY <3>1, <1>1 DEF QuietUntilServed
    <2> QED BY <2>5, <2>6, <2>7, <2>8, <2>9
  <1> QED BY <1>2, <1>3

(* Putting at key a manifest whose blobs are all stored, where there was no *)
(* release or one with the same artifacts, keeps every visible release      *)
(* complete.                                                               *)
LEMMA ReplaceKeeps ==
  ASSUME StoreInv, NEW key \in Keys, NEW m \in Manifests,
         releases' = [releases EXCEPT ![key] = m], blobs' = blobs,
         Blobs(m) \subseteq blobs,
         key \in Visible => m.platforms = releases[key].platforms
  PROVE  ReleasesKept /\ VisibleReleasesComplete'
  <1> USE DEF StoreInv
  <1>1. ReleasesKept
    BY ManifestTypes DEF ReleasesKept, Visible, TypeOK
  <1>2. VisibleReleasesComplete'
    <2> SUFFICES ASSUME NEW k \in Keys, releases'[k] # NoRelease
                 PROVE  Blobs(releases'[k]) \subseteq blobs
      BY DEF VisibleReleasesComplete, Visible, Blobs
    <2>1. CASE k = key
      BY <2>1 DEF TypeOK
    <2>2. CASE k # key
      BY <2>2 DEF TypeOK, VisibleReleasesComplete, Visible
    <2> QED BY <2>1, <2>2
  <1> QED BY <1>1, <1>2

LEMMA RenamePreserves ==
  ASSUME StoreInv, NEW h \in Handlers, Rename(h)
  PROVE  StoreInv' /\ ReleasesKept
  <1> USE DEF StoreInv
  <1>1. /\ pc[h] = "rename"
        /\ releases' = [releases EXCEPT ![req[h].key] = Target(h)]
        /\ Forget(h) /\ lock' = LockAfter(h)
        /\ UNCHANGED <<server, strays, blobs, acked>>
    BY DEF Rename, Finish
  <1>2. /\ req[h].key \in Keys
        /\ draft[h] \in Manifests /\ Blobs(draft[h]) \subseteq blobs
    BY <1>1, RequestTypes DEF Backed
  <1>3. /\ Target(h) \in Manifests /\ Blobs(Target(h)) \subseteq blobs
        /\ req[h].key \in Visible => Target(h).platforms = releases[req[h].key].platforms
    BY <1>2 DEF Target, Visible, TypeOK, VisibleReleasesComplete
  <1>4. ReleasesKept /\ VisibleReleasesComplete'
    BY <1>1, <1>2, <1>3, ReplaceKeeps
  <1>5. releases' \in [Keys -> Manifests \cup {NoRelease}]
    BY <1>1, <1>2, <1>3 DEF TypeOK
  <1> QED BY <1>1, <1>4, <1>5, LockAfterType, FinishPreserves DEF TypeOK

LEMMA PersistPreserves ==
  ASSUME StoreInv, NEW h \in Handlers, Persist(h)
  PROVE  StoreInv' /\ ReleasesKept
  <1> USE DEF StoreInv
  <1>1. /\ pc[h] = "persist"
        /\ releases' = [releases EXCEPT ![req[h].key] = draft[h]]
        /\ acked' \in {acked, acked \cup {req[h].key}}
        /\ Forget(h) /\ lock' = LockAfter(h)
        /\ UNCHANGED <<server, strays, blobs>>
    BY DEF Persist, Finish
  <1>2. /\ req[h].key \in Keys /\ draft[h] \in Manifests
        /\ req[h].key \in Visible
        /\ draft[h].platforms = releases[req[h].key].platforms
    BY <1>1, RequestTypes DEF Backed
  <1>3. Blobs(draft[h]) \subseteq blobs
    BY <1>2 DEF VisibleReleasesComplete, Blobs
  <1>4. ReleasesKept /\ VisibleReleasesComplete'
    BY <1>1, <1>2, <1>3, ReplaceKeeps
  <1>5. releases' \in [Keys -> Manifests \cup {NoRelease}] /\ acked' \subseteq Keys
    BY <1>1, <1>2 DEF TypeOK
  <1> QED BY <1>1, <1>4, <1>5, LockAfterType, FinishPreserves DEF TypeOK

LEMMA CreateTempPreserves ==
  ASSUME StoreInv, NEW h \in Handlers, CreateTemp(h)
  PROVE  StoreInv'
  <1> USE DEF StoreInv
  <1>1. /\ pc[h] = "save" /\ pc' = [pc EXCEPT ![h] = "persist"]
        /\ UNCHANGED <<server, disk, lock, live, req, draft, todo, acked>>
    BY DEF CreateTemp, Goto
  <1>2. TypeOK'
    BY <1>1 DEF TypeOK, Labels, disk
  <1>3. ASSUME NEW g \in Handlers
        PROVE  Backed(g)'
    <2>1. CASE g = h
      BY <1>1, <2>1 DEF TypeOK, Backed, Visible, disk
    <2>2. CASE g # h
      <3>1. pc'[g] = pc[g]
        BY <1>1, <2>2 DEF TypeOK
      <3> QED BY <1>1, <3>1, DiskUnchanged, BackedStays
    <2> QED BY <2>1, <2>2
  <1>4. VisibleReleasesComplete'
    BY <1>1, DiskUnchanged
  <1>5. QuietUntilServed'
    <2>1. server = "up"
      BY <1>1 DEF QuietUntilServed
    <2> QED BY <2>1, <1>1 DEF QuietUntilServed
  <1> QED BY <1>2, <1>3, <1>4, <1>5

LEMMA IoErrorPreserves ==
  ASSUME StoreInv, NEW h \in Handlers, IoError(h)
  PROVE  StoreInv'
  BY DiskUnchanged, LockAfterType, FinishPreserves DEF StoreInv, IoError, Finish, TypeOK

LEMMA CancelPreserves ==
  ASSUME StoreInv, NEW h \in Handlers, Cancel(h)
  PROVE  StoreInv'
  <1> USE DEF StoreInv
  <1>1. UNCHANGED <<server, disk, acked>>
    BY DEF Cancel
  <1>2. CASE Finish(h)
    BY <1>1, <1>2, DiskUnchanged, LockAfterType, FinishPreserves DEF Finish, TypeOK
  <1>3. CASE ~Finish(h)
    <2>1. live' = [live EXCEPT ![h] = FALSE] /\ lock' = LockAfter(h)
          /\ UNCHANGED <<pc, req, draft, todo>>
      BY <1>3 DEF Cancel
    <2>2. TypeOK'
      BY <1>1, <2>1, LockAfterType DEF TypeOK, disk
    <2>3. ASSUME NEW g \in Handlers
          PROVE  Backed(g)'
      BY <1>1, <2>1, DiskUnchanged, BackedStays
    <2> QED BY <1>1, <2>1, <2>2, <2>3, DiskUnchanged DEF QuietUntilServed
  <1> QED BY <1>2, <1>3

-----------------------------------------------------------------------------
(* The process life cycle                                                  *)

LEMMA CrashPreserves ==
  ASSUME StoreInv, Crash
  PROVE  StoreInv'
  <1> USE DEF StoreInv
  <1>1. \A h \in Handlers : pc[h] = "persist" => req[h].key \in Keys
    BY RequestTypes DEF Backed
  <1>2. TypeOK'
    BY <1>1 DEF Crash, TypeOK, Labels
  <1>3. VisibleReleasesComplete'
    BY DEF Crash, VisibleReleasesComplete, Visible, Blobs
  <1> QED BY <1>2, <1>3 DEF Crash, Backed, QuietUntilServed

(* Pruning removes no blob of a visible release, and no handler runs that   *)
(* could be about to publish one.                                          *)
LEMMA StartupPreserves ==
  ASSUME StoreInv, Startup
  PROVE  StoreInv' /\ ReleasesKept
  <1> USE DEF StoreInv
  <1>1. /\ UNCHANGED <<releases, strays, lock, tasks, acked>>
        /\ blobs' \subseteq Digests
        /\ server' \in {"up", "starting", "down", "refused"}
    BY DEF Startup, Start, Serve, PruneBlob, disk, TypeOK
  <1>2. TypeOK'
    BY <1>1 DEF TypeOK, tasks
  <1>3. \A h \in Handlers : pc[h] = "idle"
    BY DEF Startup, Start, Serve, PruneBlob, QuietUntilServed
  <1>4. VisibleReleasesComplete'
    <2>1. Visible' = Visible
      BY <1>1 DEF Visible
    <2>2. \A k \in Visible : Blobs(releases[k]) \subseteq blobs'
      <3>1. CASE \E d \in Digests : PruneBlob(d)
        BY <3>1 DEF PruneBlob, Referenced, VisibleReleasesComplete
      <3>2. CASE Start \/ Serve
        BY <3>2 DEF Start, Serve, disk, VisibleReleasesComplete
      <3> QED BY <3>1, <3>2 DEF Startup
    <2> QED BY <1>1, <2>1, <2>2 DEF VisibleReleasesComplete, Blobs
  <1>5. (\A h \in Handlers : Backed(h)') /\ QuietUntilServed'
    BY <1>1, <1>3 DEF Backed, QuietUntilServed, tasks
  <1>6. ReleasesKept
    BY <1>1 DEF ReleasesKept, Visible
  <1> QED BY <1>2, <1>4, <1>5, <1>6

-----------------------------------------------------------------------------
LEMMA InitStoreInv == Init => StoreInv
  BY DEF Init, StoreInv, TypeOK, Labels, VisibleReleasesComplete, Visible, Backed,
         QuietUntilServed

LEMMA StepStoreInv == StoreInv /\ [Next]_vars => StoreInv' /\ ReleasesKept
  <1> SUFFICES ASSUME StoreInv, [Next]_vars
               PROVE  StoreInv' /\ ReleasesKept
    OBVIOUS
  <1>1. CASE Startup
    BY <1>1, StartupPreserves
  <1>2. CASE Crash
    <2>1. ReleasesKept
      BY <1>2 DEF Crash, ReleasesKept, Visible
    <2> QED BY <1>2, <2>1, CrashPreserves
  <1>3. ASSUME NEW h \in Handlers, Handle(h)
        PROVE  StoreInv' /\ ReleasesKept
    <2>1. CASE \E r \in Requests : Receive(h, r)
      BY <2>1, ReceivePreserves, DiskUnchanged DEF Receive
    <2>2. CASE Acquire(h)
      BY <2>2, AcquirePreserves, DiskUnchanged DEF Acquire
    <2>3. CASE \E d \in Digests : PublishBlob(h, d)
      <3>1. ReleasesKept
        BY <2>3 DEF PublishBlob, ReleasesKept, Visible
      <3> QED BY <2>3, <3>1, PublishBlobPreserves
    <2>4. CASE Load(h)
      BY <2>4, LoadPreserves, DiskUnchanged DEF Load
    <2>5. CASE Rename(h)
      BY <2>5, RenamePreserves
    <2>6. CASE CreateTemp(h)
      BY <2>6, CreateTempPreserves, DiskUnchanged DEF CreateTemp
    <2>7. CASE Persist(h)
      BY <2>7, PersistPreserves
    <2>8. CASE IoError(h)
      BY <2>8, IoErrorPreserves, DiskUnchanged DEF IoError
    <2>9. CASE Cancel(h)
      BY <2>9, CancelPreserves, DiskUnchanged DEF Cancel
    <2> QED BY <1>3, <2>1, <2>2, <2>3, <2>4, <2>5, <2>6, <2>7, <2>8, <2>9 DEF Handle, Step
  <1>4. CASE UNCHANGED vars
    <2>1. UNCHANGED <<server, disk, lock, tasks, acked>>
      BY <1>4 DEF vars, disk, tasks
    <2> QED BY <2>1, DiskUnchanged
         DEF StoreInv, TypeOK, Backed, Visible, Blobs, QuietUntilServed, disk, tasks
  <1> QED BY <1>1, <1>2, <1>3, <1>4 DEF Next

(* The inductive invariant: types, complete releases, and what each program   *)
(* counter of a handler says of its draft, its blobs and its source.         *)
THEOREM StoreInvariant == Spec => []StoreInv
  BY InitStoreInv, StepStoreInv, PTL DEF Spec

(* Every variable of the storage always has its type.                      *)
THEOREM TypeCorrect == Spec => []TypeOK
  BY StoreInvariant, PTL DEF StoreInv

(* Whatever is uploaded, copied, dropped half way or pruned and whenever    *)
(* the process dies, a visible release has all its artifacts               *)
(* (storage.rs:90-162, 189-222, 425-448, 485-518).                         *)
THEOREM ReleasesComplete == Spec => []VisibleReleasesComplete
  BY StoreInvariant, PTL DEF StoreInv

(* A visible release never disappears and never changes its artifacts      *)
(* (storage.rs:103-107, 149-161, 165-184).                                 *)
THEOREM ArtifactsNeverChange == Spec => ArtifactsImmutable
  <1>1. StoreInv /\ [Next]_vars => [ReleasesKept]_vars
    BY StepStoreInv
  <1>2. ArtifactsImmutable <=> [][ReleasesKept]_vars
    BY PTL DEF ArtifactsImmutable, ReleasesKept
  <1> QED BY <1>1, <1>2, StoreInvariant, PTL DEF Spec

-----------------------------------------------------------------------------
(* When no request is dropped half way, mutation_lock makes a request one    *)
(* step of the catalog: its draft is what it will find on disk to the end.  *)

Critical == {"blob", "load", "rename", "save", "persist"}

(* Only the holder of the lock is past the lock, and what it read is still   *)
(* what is on disk.                                                        *)
Current(h) ==
  /\ live[h]
  /\ pc[h] \in Critical => lock = h
  /\ pc[h] = "load" => req[h].op # "put"
  /\ pc[h] \in {"blob", "load", "rename"} /\ req[h].op \in {"put", "copy"}
       => req[h].key \notin Visible
  /\ pc[h] \in {"save", "persist"} =>
       /\ req[h].op \in {"patch", "withdraw"}
       /\ draft[h] = Edited(h, releases[req[h].key])
  /\ pc[h] = "blob" => req[h].op = "put"
  /\ pc[h] = "rename" => req[h].op \in {"put", "copy"}
  /\ pc[h] \in {"blob", "rename"} /\ req[h].op = "put" => draft[h] = NewRelease(h)
  /\ pc[h] = "rename" /\ req[h].op = "copy" =>
       Source(h) \in Visible /\ draft[h] = releases[Source(h)]

SerialInv ==
  /\ \A h \in Handlers : Current(h)
  /\ acked \subseteq Visible
  /\ AcknowledgedWithdrawalSticks

(* The catalog over the manifests alone, without a look at the blobs.       *)
Shelf == INSTANCE ReleaseCatalog WITH catalog <- releases

(* A handler that does not move stays current while others take steps: if    *)
(* it is past the lock, they can only wait for it.                         *)
LEMMA CurrentStays ==
  ASSUME NEW g \in Handlers, Current(g),
         live'[g] = live[g], pc'[g] = pc[g], req'[g] = req[g], draft'[g] = draft[g],
         pc[g] \in Critical => lock' = lock /\ releases' = releases
  PROVE  Current(g)'
  <1>1. CASE pc[g] \notin Critical
    BY <1>1 DEF Current, Critical
  <1>2. CASE pc[g] \in Critical
    BY <1>2 DEF Current, Critical, Edited, NewRelease, Source, Visible
  <1> QED BY <1>1, <1>2

(* A handler that ends leaves the others to wait for the lock.              *)
LEMMA FinishSerial ==
  ASSUME TypeOK, \A g \in Handlers : Current(g), NEW h \in Handlers, Forget(h),
         lock' = LockAfter(h) \/ lock' = lock,
         pc[h] \in Critical \/ releases' = releases
  PROVE  \A g \in Handlers : Current(g)'
  <1>1. Current(h)'
    BY DEF Forget, Current, Critical, TypeOK
  <1>2. ASSUME NEW g \in Handlers, g # h
        PROVE  Current(g)'
    <2>1. /\ live'[g] = live[g] /\ pc'[g] = pc[g]
          /\ req'[g] = req[g] /\ draft'[g] = draft[g]
      BY <1>2 DEF Forget, TypeOK
    <2>2. pc[g] \in Critical => lock' = lock /\ releases' = releases
      BY <1>2 DEF Current, LockAfter
    <2> QED BY <2>1, <2>2, CurrentStays
  <1> QED BY <1>1, <1>2

(* What is not on disk yet does not concern the withdrawals.                *)
LEMMA SameReleasesSerial ==
  ASSUME SerialInv, releases' = releases, acked' = acked, \A g \in Handlers : Current(g)'
  PROVE  SerialInv' /\ [Shelf!Next]_releases
  BY DEF SerialInv, AcknowledgedWithdrawalSticks, Visible

LEMMA AcquireSerial ==
  ASSUME StoreInv, SerialInv, NEW h \in Handlers, Acquire(h)
  PROVE  SerialInv' /\ [Shelf!Next]_releases
  <1> USE DEF StoreInv, SerialInv
  <1>1. releases' = releases /\ acked' = acked
    BY DEF Acquire, disk
  <1>2. CASE IsConflict(h)
    BY <1>1, <1>2, FinishSerial, SameReleasesSerial DEF Acquire
  <1>3. CASE ~IsConflict(h)
    <2>1. pc[h] = "lock" /\ lock = Free /\ lock' = h /\ UNCHANGED <<live, req>>
      BY <1>3 DEF Acquire, MayEnter
    <2>2. ASSUME NEW g \in Handlers, g # h
          PROVE  Current(g)'
      <3>1. live'[g] = live[g] /\ pc'[g] = pc[g] /\ req'[g] = req[g] /\ draft'[g] = draft[g]
        BY <1>3, <2>1, <2>2 DEF Acquire, Goto, TypeOK
      <3>2. pc[g] \notin Critical
        BY <2>1, HandlerAssumption DEF Current
      <3> QED BY <3>1, <3>2, CurrentStays
    <2>3. Current(h)'
      <3>1. req'[h] = req[h] /\ live'[h] /\ lock' = h
        BY <2>1 DEF Current
      <3>2. req[h].op \in {"put", "copy"} => req[h].key \notin Visible'
        BY <1>1, <1>3 DEF IsConflict, Visible
      <3>3. CASE req[h].op = "put"
        <4>1. pc'[h] = "blob" /\ draft'[h] = NewRelease(h)
          BY <1>3, <3>3 DEF Acquire, Goto, TypeOK
        <4> QED BY <3>1, <3>2, <3>3, <4>1 DEF Current, Critical, NewRelease
      <3>4. CASE req[h].op # "put"
        <4>1. pc'[h] = "load"
          BY <1>3, <3>4 DEF Acquire, Goto, TypeOK
        <4> QED BY <3>1, <3>2, <3>4, <4>1 DEF Current, Critical
      <3> QED BY <3>3, <3>4
    <2> QED BY <1>1, <2>2, <2>3, SameReleasesSerial
  <1> QED BY <1>2, <1>3

LEMMA PublishBlobSerial ==
  ASSUME StoreInv, SerialInv, NEW h \in Handlers, NEW d \in Digests, PublishBlob(h, d)
  PROVE  SerialInv' /\ [Shelf!Next]_releases
  <1> USE DEF StoreInv, SerialInv
  <1>1. pc[h] = "blob" /\ live[h] /\ UNCHANGED <<releases, acked, live, req, draft, lock>>
    BY DEF PublishBlob, Current
  <1>2. pc' = [pc EXCEPT ![h] = IF todo[h] = {d} THEN "rename" ELSE "blob"]
    BY <1>1 DEF PublishBlob, Goto
  <1>3. ASSUME NEW g \in Handlers, g # h
        PROVE  Current(g)'
    BY <1>1, <1>2, <1>3, CurrentStays DEF TypeOK
  <1>4. Current(h)'
    <2>1. pc'[h] \in {"blob", "rename"}
      BY <1>2 DEF TypeOK
    <2> QED BY <1>1, <2>1 DEF Current, Critical, NewRelease, Visible
  <1> QED BY <1>1, <1>3, <1>4, SameReleasesSerial

LEMMA LoadSerial ==
  ASSUME StoreInv, SerialInv, NEW h \in Handlers, Load(h)
  PROVE  SerialInv' /\ [Shelf!Next]_releases
  <1> USE DEF StoreInv, SerialInv
  <1> DEFINE ok == /\ Source(h) \in Visible
                   /\ req[h].op = "copy" => Blobs(releases[Source(h)]) \subseteq blobs
  <1>1. pc[h] = "load" /\ releases' = releases /\ acked' = acked
    BY DEF Load, disk
  <1>2. CASE ~ok
    BY <1>1, <1>2, FinishSerial, SameReleasesSerial DEF Load, Finish
  <1>3. CASE ok
    <2>1. /\ draft' = [draft EXCEPT ![h] = Edited(h, releases[Source(h)])]
          /\ pc' = [pc EXCEPT ![h] = IF req[h].op = "copy" THEN "rename" ELSE "save"]
          /\ UNCHANGED <<live, req, lock>>
      BY <1>3 DEF Load, Goto
    <2>2. ASSUME NEW g \in Handlers, g # h
          PROVE  Current(g)'
      BY <1>1, <2>1, <2>2, CurrentStays DEF TypeOK
    <2>3. req[h].op \in {"copy", "patch", "withdraw"}
      BY <1>1, RequestTypes DEF Backed, Current
    <2>4. Current(h)'
      <3>1. /\ draft'[h] = Edited(h, releases[Source(h)])
            /\ pc'[h] = IF req[h].op = "copy" THEN "rename" ELSE "save"
        BY <2>1 DEF TypeOK
      <3>2. CASE req[h].op = "copy"
        <4>1. Edited(h, releases[Source(h)]) = releases[Source(h)]
          BY <3>2 DEF Edited
        <4>2. Source(h)' = Source(h) /\ Visible' = Visible
          BY <1>1, <2>1 DEF Source, Visible
        <4> QED BY <1>1, <1>3, <2>1, <3>1, <3>2, <4>1, <4>2 DEF Current, Critical
      <3>3. CASE req[h].op # "copy"
        <4>1. Source(h) = req[h].key
          BY <3>3 DEF Source
        <4>2. Edited(h, releases[req[h].key])' = Edited(h, releases[req[h].key])
          BY <1>1, <2>1 DEF Edited
        <4> QED BY <1>1, <2>1, <2>3, <3>1, <3>3, <4>1, <4>2 DEF Current, Critical
      <3> QED BY <3>2, <3>3
    <2> QED BY <1>1, <2>2, <2>4, SameReleasesSerial
  <1> QED BY <1>2, <1>3

(* Renaming the staged release is the publication, or the copy.             *)
LEMMA RenameSerial ==
  ASSUME StoreInv, SerialInv, NEW h \in Handlers, Rename(h)
  PROVE  SerialInv' /\ [Shelf!Next]_releases
  <1> USE DEF StoreInv, SerialInv
  <1> DEFINE k == req[h].key
  <1>1. pc[h] = "rename" /\ Forget(h) /\ lock' = LockAfter(h) /\ acked' = acked
    BY DEF Rename, Finish
  <1>2. /\ k \in Keys /\ k \notin Visible /\ req[h].op \in {"put", "copy"}
        /\ req[h] \in Requests
    BY <1>1, RequestTypes DEF Current, Backed
  <1>3. releases' = [releases EXCEPT ![k] = draft[h]]
    BY <1>2 DEF Rename, Target
  <1>4. \A g \in Handlers : Current(g)'
    BY <1>1, FinishSerial DEF Critical
  <1>5. Shelf!Next
    <2>1. k \in Shelf!Keys /\ releases[k] = NoRelease
      BY <1>2 DEF Keys, Shelf!Keys, Visible
    <2>2. CASE req[h].op = "put"
      <3>1. draft[h] \in Manifests /\ ~draft[h].withdrawn
        <4>1. draft[h] \in Manifests /\ draft[h] = NewRelease(h)
          BY <1>1, <2>2 DEF Current, Backed
        <4>2. NewRelease(h).withdrawn = FALSE
          BY DEF NewRelease
        <4> QED BY <4>1, <4>2
      <3>2. Shelf!Publish(k, draft[h])
        BY <1>3, <2>1, <3>1 DEF Shelf!Publish
      <3> QED BY <2>1, <3>1, <3>2 DEF Shelf!Next
    <2>3. CASE req[h].op = "copy"
      <3>1. Source(h) \in Visible /\ draft[h] = releases[Source(h)]
        BY <1>1, <2>3 DEF Current
      <3>2. Source(h)[2] = k[2]
        BY <2>3 DEF Source
      <3>3. Shelf!Copy(Source(h), k)
        <4>1. releases[Source(h)] # NoRelease
          BY <3>1 DEF Visible
        <4>2. releases' = [releases EXCEPT ![k] = releases[Source(h)]]
          BY <1>3, <3>1
        <4> QED BY <2>1, <3>2, <4>1, <4>2 DEF Shelf!Copy
      <3>4. Source(h) \in Shelf!Keys
        BY <3>1 DEF Visible, Keys, Shelf!Keys
      <3> QED BY <2>1, <3>3, <3>4 DEF Shelf!Next
    <2> QED BY <1>2, <2>2, <2>3
  <1>6. acked' \subseteq Visible' /\ AcknowledgedWithdrawalSticks'
    <2>1. \A j \in Visible : j # k /\ releases'[j] = releases[j]
      BY <1>2, <1>3 DEF TypeOK, Visible
    <2> QED BY <1>1, <2>1 DEF AcknowledgedWithdrawalSticks, Visible
  <1> QED BY <1>4, <1>5, <1>6

(* Replacing the manifest is the patch, or the withdrawal.                  *)
LEMMA PersistSerial ==
  ASSUME StoreInv, SerialInv, NEW h \in Handlers, Persist(h)
  PROVE  SerialInv' /\ [Shelf!Next]_releases
  <1> USE DEF StoreInv, SerialInv
  <1> DEFINE k == req[h].key
             m == releases[k]
  <1>1. /\ pc[h] = "persist" /\ Forget(h) /\ lock' = LockAfter(h)
        /\ releases' = [releases EXCEPT ![k] = draft[h]]
        /\ acked' = IF live[h] /\ req[h].op = "withdraw" THEN acked \cup {k} ELSE acked
    BY DEF Persist, Finish
  <1>2. /\ k \in Keys /\ k \in Visible /\ req[h].op \in {"patch", "withdraw"}
        /\ req[h] \in Requests /\ draft[h] = Edited(h, m)
    BY <1>1, RequestTypes DEF Current, Backed
  <1>3. m \in Manifests
    BY <1>2 DEF Visible, TypeOK
  <1>4. \A g \in Handlers : Current(g)'
    BY <1>1, FinishSerial DEF Critical
  <1>5. k \in Shelf!Keys /\ releases[k] # NoRelease
    BY <1>2 DEF Keys, Shelf!Keys, Visible
  <1>6. draft[h] \in Manifests
    BY <1>2, <1>3, EditedTypes
  <1>7. \A j \in Keys : releases'[j] = IF j = k THEN draft[h] ELSE releases[j]
    BY <1>1, <1>2 DEF TypeOK
  <1>8. Visible' = Visible
    BY <1>2, <1>6, <1>7, ManifestTypes DEF Visible
  <1>9. CASE req[h].op = "patch"
    <2>1. draft[h] = [m EXCEPT !.notes = req[h].notes] /\ req[h].notes \in Notes
      BY <1>2, <1>9, RequestTypes DEF Edited
    <2>2. Shelf!Patch(k, req[h].notes)
      BY <1>1, <1>5, <2>1 DEF Shelf!Patch
    <2>3. draft[h].withdrawn = m.withdrawn
      BY <1>3, <2>1 DEF Manifests
    <2>4. acked' = acked
      BY <1>1, <1>9
    <2> QED BY <1>4, <1>5, <1>7, <1>8, <2>1, <2>2, <2>3, <2>4
         DEF Shelf!Next, AcknowledgedWithdrawalSticks, Visible
  <1>10. CASE req[h].op = "withdraw"
    <2>1. draft[h] = [m EXCEPT !.withdrawn = TRUE]
      BY <1>2, <1>10 DEF Edited
    <2>2. Shelf!Withdraw(k)
      BY <1>1, <1>5, <2>1 DEF Shelf!Withdraw
    <2>3. draft[h].withdrawn = TRUE
      BY <1>3, <2>1 DEF Manifests
    <2>4. acked' \subseteq acked \cup {k}
      BY <1>1
    <2> QED BY <1>2, <1>4, <1>5, <1>7, <1>8, <2>2, <2>3, <2>4
         DEF Shelf!Next, AcknowledgedWithdrawalSticks, Visible
  <1> QED BY <1>2, <1>9, <1>10

LEMMA CreateTempSerial ==
  ASSUME StoreInv, SerialInv, NEW h \in Handlers, CreateTemp(h)
  PROVE  SerialInv' /\ [Shelf!Next]_releases
  <1> USE DEF StoreInv, SerialInv
  <1>1. /\ pc[h] = "save" /\ pc' = [pc EXCEPT ![h] = "persist"]
        /\ UNCHANGED <<releases, lock, live, req, draft, acked>>
    BY DEF CreateTemp, Goto, disk
  <1>2. ASSUME NEW g \in Handlers, g # h
        PROVE  Current(g)'
    BY <1>1, <1>2, CurrentStays DEF TypeOK
  <1>3. Current(h)'
    BY <1>1 DEF TypeOK, Current, Critical, Edited
  <1> QED BY <1>1, <1>2, <1>3, SameReleasesSerial

LEMMA StepSerial ==
  ASSUME Cancellable = {}, StoreInv, SerialInv, [Next]_vars
  PROVE  SerialInv' /\ [Shelf!Next]_releases
  <1>1. CASE Startup
    <2>1. UNCHANGED <<releases, lock, tasks, acked>>
      BY <1>1 DEF Startup, Start, Serve, PruneBlob, disk
    <2>2. \A g \in Handlers : Current(g)'
      BY <2>1, CurrentStays DEF SerialInv, tasks
    <2> QED BY <2>1, <2>2, SameReleasesSerial
  <1>2. CASE Crash
    <2>1. releases' = releases /\ acked' = acked
      BY <1>2 DEF Crash
    <2>2. \A g \in Handlers : Current(g)'
      BY <1>2 DEF Crash, Current, Critical
    <2> QED BY <2>1, <2>2, SameReleasesSerial
  <1>3. ASSUME NEW h \in Handlers, Handle(h)
        PROVE  SerialInv' /\ [Shelf!Next]_releases
    <2>1. CASE \E r \in Requests : Receive(h, r)
      <3>1. /\ pc' = [pc EXCEPT ![h] = "lock"] /\ live' = live
            /\ UNCHANGED <<releases, lock, draft, acked>>
            /\ \E r \in Requests : req' = [req EXCEPT ![h] = r]
        BY <2>1 DEF Receive, Goto, disk
      <3>2. ASSUME NEW g \in Handlers
            PROVE  Current(g)'
        <4>1. CASE g = h
          BY <3>1, <4>1 DEF StoreInv, TypeOK, SerialInv, Current, Critical
        <4>2. CASE g # h
          BY <3>1, <4>2, CurrentStays DEF StoreInv, TypeOK, SerialInv
        <4> QED BY <4>1, <4>2
      <3> QED BY <3>1, <3>2, SameReleasesSerial
    <2>2. CASE Acquire(h)
      BY <2>2, AcquireSerial
    <2>3. CASE \E d \in Digests : PublishBlob(h, d)
      BY <2>3, PublishBlobSerial
    <2>4. CASE Load(h)
      BY <2>4, LoadSerial
    <2>5. CASE Rename(h)
      BY <2>5, RenameSerial
    <2>6. CASE CreateTemp(h)
      BY <2>6, CreateTempSerial
    <2>7. CASE Persist(h)
      BY <2>7, PersistSerial
    <2>8. CASE IoError(h)
      BY <2>8, FinishSerial, SameReleasesSerial
         DEF IoError, Finish, disk, StoreInv, SerialInv
    <2>9. ~Cancel(h)
      BY DEF Cancel
    <2> QED BY <1>3, <2>1, <2>2, <2>3, <2>4, <2>5, <2>6, <2>7, <2>8, <2>9 DEF Handle, Step
  <1>4. CASE UNCHANGED vars
    <2>1. \A g \in Handlers : Current(g)'
      BY <1>4, CurrentStays DEF vars, SerialInv
    <2> QED BY <1>4, <2>1, SameReleasesSerial DEF vars
  <1> QED BY <1>1, <1>2, <1>3, <1>4 DEF Next

LEMMA InitSerial == Init => SerialInv
  BY DEF Init, SerialInv, Current, Critical, AcknowledgedWithdrawalSticks

LEMMA SerialInvariant ==
  ASSUME Cancellable = {}
  PROVE  Spec => []SerialInv
  <1>1. StoreInv /\ SerialInv /\ [Next]_vars => SerialInv'
    BY StepSerial
  <1> QED BY <1>1, InitSerial, StoreInvariant, PTL DEF Spec

(* With no request dropped half way, a withdrawal that was answered with     *)
(* success is never undone, by no patch, copy or upload in flight and by no  *)
(* crash (storage.rs:171-184, 450-466).                                     *)
THEOREM WithdrawalsStick ==
  ASSUME Cancellable = {}
  PROVE  Spec => []AcknowledgedWithdrawalSticks
  BY SerialInvariant, PTL DEF SerialInv

(* Since every visible release is complete, the catalog is the manifests.   *)
Shown == [k \in Keys |-> IF k \in Visible /\ Blobs(releases[k]) \subseteq blobs
                         THEN releases[k] ELSE NoRelease]

LEMMA CatalogIsShelf == StoreInv => Shown = releases
  BY DEF Shown, StoreInv, TypeOK, VisibleReleasesComplete, Visible

LEMMA CatalogIsShelfNext == StoreInv' => Shown' = releases'
  BY DEF Shown, StoreInv, TypeOK, VisibleReleasesComplete, Visible

(* An operation of the shelf is the same operation of the catalog.          *)
LEMMA ShelfStepIsCatalogStep ==
  ASSUME Shown = releases, Shown' = releases', Shelf!Next
  PROVE  Catalog!Next
  <1>1. PICK k \in Shelf!Keys :
          \/ \E m \in Manifests : Shelf!Publish(k, m)
          \/ \E from \in Shelf!Keys : Shelf!Copy(from, k)
          \/ \E n \in Notes : Shelf!Patch(k, n)
          \/ Shelf!Withdraw(k)
    BY DEF Shelf!Next
  <1>2. k \in Catalog!Keys /\ Shelf!Keys = Catalog!Keys
    BY DEF Shelf!Keys, Catalog!Keys
  <1>3. ASSUME NEW m \in Manifests, Shelf!Publish(k, m)
        PROVE  Catalog!Publish(k, m)
    BY <1>3, Zenon DEF Shelf!Publish, Catalog!Publish, Shown
  <1>4. ASSUME NEW from \in Shelf!Keys, Shelf!Copy(from, k)
        PROVE  Catalog!Copy(from, k)
    BY <1>4, Zenon DEF Shelf!Copy, Catalog!Copy, Shown
  <1>5. ASSUME NEW n \in Notes, Shelf!Patch(k, n)
        PROVE  Catalog!Patch(k, n)
    BY <1>5, Zenon DEF Shelf!Patch, Catalog!Patch, Shown
  <1>6. ASSUME Shelf!Withdraw(k)
        PROVE  Catalog!Withdraw(k)
    BY <1>6, Zenon DEF Shelf!Withdraw, Catalog!Withdraw, Shown
  <1> QED BY <1>1, <1>2, <1>3, <1>4, <1>5, <1>6 DEF Catalog!Next

(* With no request dropped half way, the store implements the catalog: each  *)
(* step of a handler, the pruning, a crash or a restart is one operation of  *)
(* the catalog or none.                                                    *)
THEOREM StoreImplementsCatalog ==
  ASSUME Cancellable = {}
  PROVE  Spec => ImplementsCatalog
  <1>1. Init => Catalog!Init
    BY InitStoreInv, CatalogIsShelf DEF Shown, Init, Catalog!Init, Catalog!Keys, Keys
  <1>2. StoreInv /\ StoreInv' /\ SerialInv /\ [Next]_vars => [Catalog!Next]_Shown
    BY StepSerial, CatalogIsShelf, CatalogIsShelfNext, ShelfStepIsCatalogStep
  <1>3. StoreInv /\ StoreInv' /\ SerialInv /\ [Next]_vars
          => [Catalog!Next]_[k \in Keys |->
               IF k \in Visible /\ Blobs(releases[k]) \subseteq blobs
                 THEN releases[k] ELSE NoRelease]
    BY <1>2 DEF Shown
  <1> QED BY <1>1, <1>3, StoreInvariant, SerialInvariant, PTL
       DEF Spec, ImplementsCatalog, Catalog!Spec
=============================================================================
