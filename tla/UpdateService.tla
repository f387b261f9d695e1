---------------------------- MODULE UpdateService ----------------------------
(***************************************************************************)
(* The public side of UDS over the release storage: update checks           *)
(* (check_update, update_for) and the download of what they offered         *)
(* (download_artifact, artifact_path). Neither takes mutation_lock: a check  *)
(* reads the manifests of a channel one by one while handlers publish and   *)
(* withdraw, and a download comes any time later, after restarts too.       *)
(***************************************************************************)
EXTENDS ReleaseStore

CONSTANTS Clients,    \* applications that look for updates
          Installed   \* versions they may have installed

(* Versions carry their SemVer order; only so many are ever uploaded.       *)
ASSUME VersionAssumption ==
  Versions \cup Installed \subseteq Nat /\ IsFiniteSet(Versions)

VARIABLES
  client,     \* per client: "idle", "checking", "answered", "resolved", "done"
  query,      \* the channel, platform and installed version it asks about
  found,      \* the manifests its check has read so far
  answer,     \* the versions whose notes were sent; the largest is the offer
  file,       \* the blob artifact_path resolved, then the one sent
  atStart     \* history: the channel when the check began

clientVars == <<client, query, found, answer, file, atStart>>
allVars == <<vars, clientVars>>

NoQuery == [channel |-> NoRequest, platform |-> NoRequest, current |-> 0]

(* Seeded fault: versions are compared with >=.                            *)
Newer_OrSame(v, current) == v >= current

Newer(v, current) == v > current

(* Seeded fault: withdrawn releases still count.                           *)
Applies_Withdrawn(m, q, v) ==
  m # NoRelease /\ m.platforms[q.platform] # NoArtifact /\ Newer(v, q.current)

(* What update_for keeps of the manifests of the channel.                  *)
Applies(m, q, v) ==
  /\ m # NoRelease
  /\ ~m.withdrawn
  /\ m.platforms[q.platform] # NoArtifact
  /\ Newer(v, q.current)

Channel(c) == [v \in Versions |-> releases[<<query[c].channel, v>>]]

BeginCheck(c, q) ==
  /\ server = "up"
  /\ client[c] = "idle"
  /\ client' = [client EXCEPT ![c] = "checking"]
  /\ query' = [query EXCEPT ![c] = q]
  /\ atStart' = [atStart EXCEPT ![c] = [v \in Versions |-> releases[<<q.channel, v>>]]]
  /\ UNCHANGED <<vars, found, answer, file>>

(* load_manifest of one directory entry. A release published after the      *)
(* listing began may or may not be among the entries.                      *)
ReadManifest(c, v) ==
  /\ client[c] = "checking"
  /\ found[c][v] = NoRelease
  /\ Channel(c)[v] # NoRelease
  /\ found' = [found EXCEPT ![c][v] = Channel(c)[v]]
  /\ UNCHANGED <<vars, client, query, answer, file, atStart>>

(* Seeded fault: the listing stops at the first release that applies.      *)
ListingDone_First(c) ==
  \/ \A v \in Versions : atStart[c][v] # NoRelease => found[c][v] # NoRelease
  \/ \E v \in Versions : Applies(found[c][v], query[c], v)

ListingDone(c) ==
  \A v \in Versions : atStart[c][v] # NoRelease => found[c][v] # NoRelease

Answer(c) ==
  /\ client[c] = "checking"
  /\ ListingDone(c)
  /\ client' = [client EXCEPT ![c] = "answered"]
  /\ answer' = [answer EXCEPT
       ![c] = {v \in Versions : Applies(found[c][v], query[c], v)}]
  /\ found' = [found EXCEPT ![c] = [v \in Versions |-> NoRelease]]
  /\ UNCHANGED <<vars, query, file, atStart>>

Offer(c) == CHOOSE v \in answer[c] : \A w \in answer[c] : w <= v

(* artifact_path: the manifest is loaded and the blob's size verified.     *)
Resolve(c) ==
  LET m == releases[<<query[c].channel, Offer(c)>>]
      d == m.platforms[query[c].platform]
  IN  /\ server = "up"
      /\ client[c] = "answered"
      /\ answer[c] # {}
      /\ IF m # NoRelease /\ d \in blobs
           THEN /\ client' = [client EXCEPT ![c] = "resolved"]
                /\ file' = [file EXCEPT ![c] = d]
           ELSE /\ client' = [client EXCEPT ![c] = "done"]
                /\ file' = [file EXCEPT ![c] = NoArtifact]
      /\ UNCHANGED <<vars, query, found, answer, atStart>>

(* The route opens the path it was given and streams it.                   *)
Send(c) ==
  /\ client[c] = "resolved"
  /\ client' = [client EXCEPT ![c] = "done"]
  /\ file' = [file EXCEPT ![c] = IF @ \in blobs THEN @ ELSE NoArtifact]
  /\ UNCHANGED <<vars, query, found, answer, atStart>>

Reset(c) ==
  /\ client' = [client EXCEPT ![c] = "idle"]
  /\ query' = [query EXCEPT ![c] = NoQuery]
  /\ answer' = [answer EXCEPT ![c] = {}]
  /\ file' = [file EXCEPT ![c] = NoArtifact]
  /\ atStart' = [atStart EXCEPT ![c] = [v \in Versions |-> NoRelease]]
  /\ UNCHANGED <<vars, found>>

(* The client starts over, later or with another query.                    *)
Again(c) == client[c] \in {"answered", "done"} /\ Reset(c)

(* The process dies: a check under way is lost, and so is a download, which *)
(* the client may try again with the offer it holds.                       *)
ServiceCrash ==
  /\ Crash
  /\ client' = [c \in Clients |->
       CASE client[c] = "checking" -> "idle"
         [] client[c] = "resolved" -> "answered"
         [] OTHER -> client[c]]
  /\ found' = [c \in Clients |-> [v \in Versions |-> NoRelease]]
  /\ UNCHANGED <<query, answer, file, atStart>>

ServiceInit ==
  /\ Init
  /\ client = [c \in Clients |-> "idle"]
  /\ query = [c \in Clients |-> NoQuery]
  /\ found = [c \in Clients |-> [v \in Versions |-> NoRelease]]
  /\ answer = [c \in Clients |-> {}]
  /\ file = [c \in Clients |-> NoArtifact]
  /\ atStart = [c \in Clients |-> [v \in Versions |-> NoRelease]]

Queries == [channel : Channels, platform : Platforms, current : Installed]

ClientNext(c) ==
  \/ \E q \in Queries : BeginCheck(c, q)
  \/ \E v \in Versions : ReadManifest(c, v)
  \/ Answer(c)
  \/ Resolve(c)
  \/ Send(c)
  \/ Again(c)

StoreNext == Startup \/ \E h \in Handlers : Handle(h)

ServiceNext ==
  \/ StoreNext /\ UNCHANGED clientVars
  \/ ServiceCrash
  \/ \E c \in Clients : ClientNext(c)

ServiceSpec == ServiceInit /\ [][ServiceNext]_allVars

-----------------------------------------------------------------------------
(* Every variable has its type.                                            *)
ServiceTypeOK ==
  LET Listing == [Versions -> Manifests \cup {NoRelease}]
  IN  /\ client \in [Clients -> {"idle", "checking", "answered", "resolved", "done"}]
      /\ query \in [Clients -> Queries \cup {NoQuery}]
      /\ found \in [Clients -> Listing]
      /\ answer \in [Clients -> SUBSET Versions]
      /\ file \in [Clients -> Digests \cup {NoArtifact}]
      /\ atStart \in [Clients -> Listing]

(* An update check reads its channel without a lock while releases come and *)
(* go, yet never answers with stale news (update_for, storage.rs:224-298):   *)
(* a release on offer when the check began is left out only if it was        *)
(* withdrawn since, and one withdrawn before the check began is not offered. *)
ChecksAreFresh ==
  \A c \in Clients : client[c] \in {"answered", "resolved", "done"} =>
    /\ \A v \in Versions :
         Applies(atStart[c][v], query[c], v) /\ v \notin answer[c]
           => Channel(c)[v].withdrawn
    /\ \A v \in answer[c] : atStart[c][v] # NoRelease => ~atStart[c][v].withdrawn

(* Following an offer never downgrades or repeats the installed version,    *)
(* and always delivers an artifact: the one of the offered release, whose   *)
(* signature came with the offer, whatever was uploaded, withdrawn or       *)
(* pruned in between and however often the server restarted.               *)
OffersAreDeliverable ==
  \A c \in Clients : client[c] = "done" =>
    /\ Offer(c) > query[c].current
    /\ file[c] # NoArtifact
    /\ file[c] = Channel(c)[Offer(c)].platforms[query[c].platform]
=============================================================================
