-------------------------- MODULE UpdateServiceProofs --------------------------
(***************************************************************************)
(* For any number of clients and any store: an offer that a client follows, *)
(* however late, is delivered, and an update check is as fresh as if it had  *)
(* held the lock.  Both rest on what the release storage is proved to do.    *)
(***************************************************************************)
EXTENDS UpdateService, ReleaseStoreProofs, FiniteSetTheorems

(* What was read of a release and what it is now.                          *)
SameArtifacts(m, n) == m # NoRelease => n # NoRelease /\ n.platforms = m.platforms

StillWithdrawn(m, n) == m # NoRelease /\ m.withdrawn => n.withdrawn

HasAnswer(c) == client[c] \in {"answered", "resolved", "done"}

(* The answer names releases that are there, newer and for the platform; a   *)
(* download under way is of the artifact of the largest of them.            *)
Deliverable(c) ==
  /\ client[c] \in {"checking", "answered", "resolved", "done"} => query[c] \in Queries
  /\ client[c] # "checking" => \A v \in Versions : found[c][v] = NoRelease
  /\ \A v \in Versions : client[c] = "checking" => SameArtifacts(found[c][v], Channel(c)[v])
  /\ HasAnswer(c) => \A v \in answer[c] :
       /\ Channel(c)[v] # NoRelease
       /\ Channel(c)[v].platforms[query[c].platform] # NoArtifact
       /\ v > query[c].current
  /\ client[c] \in {"resolved", "done"} =>
       /\ answer[c] # {}
       /\ file[c] = Channel(c)[Offer(c)].platforms[query[c].platform]

DeliveryInv == ServiceTypeOK /\ \A c \in Clients : Deliverable(c)

(* What the check found is between the channel when it began and now.       *)
Fresh(c) ==
  /\ client[c] # "idle" => \A v \in Versions :
       /\ SameArtifacts(atStart[c][v], Channel(c)[v])
       /\ StillWithdrawn(atStart[c][v], Channel(c)[v])
  /\ client[c] = "checking" => \A v \in Versions : found[c][v] # NoRelease =>
       /\ StillWithdrawn(atStart[c][v], found[c][v])
       /\ StillWithdrawn(found[c][v], Channel(c)[v])
  /\ HasAnswer(c) =>
       /\ \A v \in Versions :
            Applies(atStart[c][v], query[c], v) /\ v \notin answer[c]
              => Channel(c)[v].withdrawn
       /\ \A v \in answer[c] : atStart[c][v] # NoRelease => ~atStart[c][v].withdrawn

FreshInv == \A c \in Clients : Fresh(c)

-----------------------------------------------------------------------------
(* A finite set of versions has a largest one: the version that has the       *)
(* fewest versions above it has none.                                       *)
LEMMA LargestVersion ==
  ASSUME NEW S \in SUBSET Nat, IsFiniteSet(S), S # {}
  PROVE  \E m \in S : \A n \in S : n <= m
  <1> DEFINE Above(m) == {n \in S : n > m}
             T == {Above(m) : m \in S}
  <1>1. IsWellFoundedOn(StrictSubsetOrdering(S), SUBSET S)
    BY FS_StrictSubsetOrderingWellFounded, FS_FiniteSubsetsOfFinite
  <1>2. T \subseteq SUBSET S /\ T # {}
    OBVIOUS
  <1>3. \E x \in T : \A y \in T : ~ (<<y, x>> \in StrictSubsetOrdering(S))
    BY <1>1, <1>2, WFMin
  <1>4. PICK m \in S : \A y \in T : ~ (<<y, Above(m)>> \in StrictSubsetOrdering(S))
    BY <1>3
  <1>5. ASSUME NEW n \in S, n > m
        PROVE  FALSE
    <2>1. Above(n) \in T
      OBVIOUS
    <2>2. Above(n) \subseteq Above(m)
      <3> SUFFICES ASSUME NEW x \in S, x > n
                   PROVE  x > m
        OBVIOUS
      <3> n \in Nat /\ m \in Nat /\ x \in Nat
        OBVIOUS
      <3> QED BY <1>5
    <2>3. n \in Above(m) /\ n \notin Above(n)
      BY <1>5
    <2>4. Above(n) # Above(m)
      BY <2>3
    <2> HIDE DEF Above
    <2>5. <<Above(n), Above(m)>> \in StrictSubsetOrdering(S)
      BY <2>1, <2>2, <2>4, <1>2 DEF StrictSubsetOrdering
    <2> QED BY <1>4, <2>1, <2>5
  <1> QED BY <1>5

LEMMA OfferIsAnswered ==
  ASSUME ServiceTypeOK, NEW c \in Clients, answer[c] # {}
  PROVE  Offer(c) \in answer[c]
  <1>1. answer[c] \in SUBSET Nat /\ answer[c] \subseteq Versions
    BY VersionAssumption DEF ServiceTypeOK
  <1>2. IsFiniteSet(answer[c])
    BY <1>1, VersionAssumption, FS_Subset
  <1>3. \E v \in answer[c] : \A w \in answer[c] : w <= v
    BY <1>1, <1>2, LargestVersion
  <1> QED BY <1>3 DEF Offer

-----------------------------------------------------------------------------
(* The store under the service                                             *)

LEMMA ServiceStepIsStoreStep == [ServiceNext]_allVars => [Next]_vars
  BY DEF ServiceNext, StoreNext, ServiceCrash, ClientNext, BeginCheck, ReadManifest, Answer,
         Resolve, Send, Again, Reset, Next, allVars, vars

LEMMA StoreUnderService == ServiceSpec => []StoreInv
  <1>1. ServiceInit => StoreInv
    BY InitStoreInv DEF ServiceInit
  <1>2. StoreInv /\ [ServiceNext]_allVars => StoreInv'
    BY StepStoreInv, ServiceStepIsStoreStep
  <1> QED BY <1>1, <1>2, PTL DEF ServiceSpec

(* A query keeps pointing at the same entries of the releases.              *)
LEMMA ChannelEntries ==
  ASSUME NEW c \in Clients, query[c] \in Queries, NEW v \in Versions
  PROVE  /\ Channel(c)[v] = releases[<<query[c].channel, v>>]
         /\ <<query[c].channel, v>> \in Keys
  BY DEF Channel, Queries, Keys

(* A release that was read keeps its artifacts.                             *)
LEMMA ArtifactsStay ==
  ASSUME ReleasesKept, NEW c \in Clients, query[c] \in Queries, query'[c] = query[c],
         NEW v \in Versions, NEW m, SameArtifacts(m, Channel(c)[v])
  PROVE  SameArtifacts(m, Channel(c)'[v])
  <1>1. Channel(c)[v] = releases[<<query[c].channel, v>>] /\ <<query[c].channel, v>> \in Keys
    BY ChannelEntries
  <1>2. Channel(c)'[v] = releases'[<<query[c].channel, v>>]
    BY DEF Channel
  <1> QED BY <1>1, <1>2 DEF ReleasesKept, SameArtifacts, Visible

-----------------------------------------------------------------------------
(* Delivery                                                                *)

LEMMA ServiceTypes ==
  ASSUME StoreInv, ServiceTypeOK, [ServiceNext]_allVars,
         \A c \in Clients : client[c] # "idle" => query[c] \in Queries
  PROVE  ServiceTypeOK'
  <1> USE DEF ServiceTypeOK
  <1>1. CASE UNCHANGED clientVars
    BY <1>1 DEF clientVars
  <1>2. CASE ServiceCrash
    <2>1. \A c \in Clients : client'[c] \in {"idle", "answered", client[c]}
      BY <1>2 DEF ServiceCrash
    <2> QED BY <1>2, <2>1 DEF ServiceCrash
  <1>3. ASSUME NEW c \in Clients, NEW q \in Queries, BeginCheck(c, q)
        PROVE  ServiceTypeOK'
    <2>1. [v \in Versions |-> releases[<<q.channel, v>>]]
            \in [Versions -> Manifests \cup {NoRelease}]
      BY DEF Queries, Keys, StoreInv, TypeOK
    <2> QED BY <1>3, <2>1 DEF BeginCheck
  <1>4. ASSUME NEW c \in Clients, NEW v \in Versions, ReadManifest(c, v)
        PROVE  ServiceTypeOK'
    <2>1. query[c] \in Queries
      BY <1>4 DEF ReadManifest
    <2>2. Channel(c)[v] \in Manifests \cup {NoRelease}
      BY <2>1, ChannelEntries DEF StoreInv, TypeOK
    <2> QED BY <1>4, <2>2 DEF ReadManifest
  <1>5. ASSUME NEW c \in Clients, Answer(c)
        PROVE  ServiceTypeOK'
    BY <1>5 DEF Answer
  <1>6. ASSUME NEW c \in Clients, Resolve(c)
        PROVE  ServiceTypeOK'
    <2>1. client' \in [Clients -> {"idle", "checking", "answered", "resolved", "done"}]
      BY <1>6 DEF Resolve
    <2>2. file' \in [Clients -> Digests \cup {NoArtifact}]
      BY <1>6 DEF Resolve, StoreInv, TypeOK
    <2> QED BY <1>6, <2>1, <2>2 DEF Resolve
  <1>7. ASSUME NEW c \in Clients, Send(c)
        PROVE  ServiceTypeOK'
    BY <1>7 DEF Send
  <1>8. ASSUME NEW c \in Clients, Again(c)
        PROVE  ServiceTypeOK'
    BY <1>8 DEF Again, Reset
  <1> QED BY <1>1, <1>2, <1>3, <1>4, <1>5, <1>6, <1>7, <1>8 DEF ServiceNext, ClientNext, allVars

(* The store may do what it likes with the offer of a client that waits.    *)
LEMMA DeliverableStays ==
  ASSUME ServiceTypeOK, ReleasesKept, NEW c \in Clients, Deliverable(c),
         client'[c] = client[c], query'[c] = query[c], found'[c] = found[c],
         answer'[c] = answer[c], file'[c] = file[c]
  PROVE  Deliverable(c)'
  <1> USE DEF Deliverable
  <1>1. CASE client[c] = "idle"
    BY <1>1 DEF HasAnswer
  <1>2. CASE client[c] # "idle"
    <2>1. query[c] \in Queries
      BY <1>2 DEF ServiceTypeOK
    <2>2. \A v \in Versions : client[c] = "checking" => SameArtifacts(found[c][v], Channel(c)'[v])
      BY <2>1, ArtifactsStay
    <2>3. \A v \in Versions : Channel(c)[v] # NoRelease =>
            Channel(c)'[v] # NoRelease /\ Channel(c)'[v].platforms = Channel(c)[v].platforms
      BY <2>1, ArtifactsStay DEF SameArtifacts
    <2>4. answer[c] \subseteq Versions /\ Offer(c)' = Offer(c)
      BY DEF ServiceTypeOK, Offer
    <2>5. answer[c] # {} => Offer(c) \in answer[c]
      BY OfferIsAnswered
    <2>6. (HasAnswer(c) => \A v \in answer[c] :
             /\ Channel(c)[v] # NoRelease
             /\ Channel(c)[v].platforms[query[c].platform] # NoArtifact
             /\ v > query[c].current)'
      BY <2>3, <2>4 DEF HasAnswer
    <2>7. (client[c] \in {"resolved", "done"} =>
             /\ answer[c] # {}
             /\ file[c] = Channel(c)[Offer(c)].platforms[query[c].platform])'
      BY <2>3, <2>4, <2>5 DEF HasAnswer
    <2> QED BY <2>1, <2>2, <2>6, <2>7
  <1> QED BY <1>1, <1>2

LEMMA CrashDelivers ==
  ASSUME StoreInv, DeliveryInv, ServiceCrash, ReleasesKept
  PROVE  \A c \in Clients : Deliverable(c)'
  <1> SUFFICES ASSUME NEW c \in Clients
               PROVE  Deliverable(c)'
    OBVIOUS
  <1>1. Deliverable(c) /\ ServiceTypeOK
    BY DEF DeliveryInv
  <1>2. /\ query'[c] = query[c] /\ answer'[c] = answer[c] /\ file'[c] = file[c]
        /\ found'[c] = [v \in Versions |-> NoRelease]
    BY DEF ServiceCrash
  <1>3. CASE client[c] \in {"idle", "checking"}
    <2>1. client'[c] = "idle"
      BY <1>3 DEF ServiceCrash
    <2> QED BY <1>2, <2>1 DEF Deliverable, HasAnswer
  <1>4. CASE client[c] \in {"answered", "resolved"}
    <2>1. client'[c] = "answered"
      BY <1>4 DEF ServiceCrash
    <2>2. query[c] \in Queries /\ answer[c] \subseteq Versions
      BY <1>1, <1>4 DEF Deliverable, ServiceTypeOK
    <2>3. \A v \in Versions : Channel(c)[v] # NoRelease =>
            Channel(c)'[v] # NoRelease /\ Channel(c)'[v].platforms = Channel(c)[v].platforms
      BY <1>2, <2>2, ArtifactsStay DEF SameArtifacts
    <2> QED BY <1>1, <1>2, <1>4, <2>1, <2>2, <2>3 DEF Deliverable, HasAnswer
  <1>5. CASE client[c] = "done"
    <2>1. client'[c] = "done" /\ found'[c] = found[c]
      <3>1. client'[c] = "done"
        BY <1>5 DEF ServiceCrash
      <3>2. \A v \in Versions : found[c][v] = NoRelease
        BY <1>1, <1>5 DEF Deliverable
      <3>3. found[c] \in [Versions -> Manifests \cup {NoRelease}]
        BY <1>1 DEF ServiceTypeOK
      <3> QED BY <3>1, <3>2, <3>3, <1>2
    <2> QED BY <1>1, <1>2, <1>5, <2>1, DeliverableStays
  <1> QED BY <1>1, <1>3, <1>4, <1>5 DEF ServiceTypeOK

(* The client's own steps leave the store and the other clients alone.      *)
LEMMA ClientStepDelivers ==
  ASSUME StoreInv, DeliveryInv, NEW c \in Clients, ClientNext(c), ReleasesKept
  PROVE  \A d \in Clients : Deliverable(d)'
  <1>1. Deliverable(c) /\ ServiceTypeOK
    BY DEF DeliveryInv
  <1>2. releases' = releases /\ blobs' = blobs
    BY DEF ClientNext, BeginCheck, ReadManifest, Answer, Resolve, Send, Again, Reset, vars
  <1>3. ASSUME NEW d \in Clients, d # c
        PROVE  Deliverable(d)'
    <2>1. /\ client'[d] = client[d] /\ query'[d] = query[d] /\ found'[d] = found[d]
          /\ answer'[d] = answer[d] /\ file'[d] = file[d]
      BY <1>1, <1>3 DEF ClientNext, BeginCheck, ReadManifest, Answer, Resolve, Send, Again,
         Reset, ServiceTypeOK
    <2> QED BY <1>1, <2>1, DeliverableStays DEF DeliveryInv
  <1>4. Deliverable(c)'
    <2> USE DEF Deliverable, HasAnswer
    <2>1. ASSUME NEW q \in Queries, BeginCheck(c, q)
          PROVE  Deliverable(c)'
      <3>1. client'[c] = "checking" /\ query'[c] = q /\ found'[c] = found[c]
        BY <1>1, <2>1 DEF BeginCheck, ServiceTypeOK
      <3>2. \A v \in Versions : found[c][v] = NoRelease
        BY <1>1, <2>1 DEF BeginCheck
      <3> QED BY <3>1, <3>2 DEF SameArtifacts
    <2>2. ASSUME NEW v \in Versions, ReadManifest(c, v)
          PROVE  Deliverable(c)'
      <3>1. /\ client'[c] = "checking" /\ query'[c] = query[c] /\ client[c] = "checking"
            /\ found'[c] = [found[c] EXCEPT ![v] = Channel(c)[v]]
        BY <1>1, <2>2 DEF ReadManifest, ServiceTypeOK
      <3>2. Channel(c)' = Channel(c)
        BY <1>2, <3>1 DEF Channel
      <3>3. \A w \in Versions : SameArtifacts(found'[c][w], Channel(c)'[w])
        BY <1>1, <3>1, <3>2 DEF SameArtifacts, ServiceTypeOK
      <3> QED BY <1>1, <3>1, <3>3
    <2>3. CASE Answer(c)
      <3>1. /\ client[c] = "checking" /\ client'[c] = "answered" /\ query'[c] = query[c]
            /\ answer'[c] = {v \in Versions : Applies(found[c][v], query[c], v)}
            /\ found'[c] = [v \in Versions |-> NoRelease]
        BY <1>1, <2>3 DEF Answer, ServiceTypeOK
      <3>2. Channel(c)' = Channel(c)
        BY <1>2, <3>1 DEF Channel
      <3>3. \A v \in answer'[c] :
              /\ Channel(c)'[v] # NoRelease
              /\ Channel(c)'[v].platforms[query'[c].platform] # NoArtifact
              /\ v > query'[c].current
        BY <1>1, <3>1, <3>2 DEF SameArtifacts, Applies, Newer
      <3> QED BY <1>1, <3>1, <3>3
    <2>4. CASE Resolve(c)
      <3> DEFINE q == query[c]
                 m == releases[<<q.channel, Offer(c)>>]
      <3>1. client[c] = "answered" /\ answer[c] # {} /\ UNCHANGED <<query, found, answer>>
        BY <2>4 DEF Resolve
      <3>2. Offer(c) \in answer[c] /\ Offer(c) \in Versions /\ q \in Queries
        BY <1>1, <3>1, OfferIsAnswered DEF ServiceTypeOK
      <3>3. m = Channel(c)[Offer(c)] /\ <<q.channel, Offer(c)>> \in Keys
        BY <3>2, ChannelEntries
      <3>4. m # NoRelease /\ m.platforms[q.platform] # NoArtifact
        BY <1>1, <3>1, <3>2, <3>3
      <3>5. m.platforms[q.platform] \in blobs
        <4>1. Blobs(m) \subseteq blobs
          BY <3>3, <3>4 DEF StoreInv, VisibleReleasesComplete, Visible
        <4>2. q.platform \in Platforms
          BY <3>2 DEF Queries
        <4> QED BY <3>4, <4>1, <4>2 DEF Blobs
      <3>6. client'[c] = "resolved" /\ file'[c] = m.platforms[q.platform]
        BY <1>1, <2>4, <3>4, <3>5 DEF Resolve, ServiceTypeOK
      <3>7. Channel(c)' = Channel(c) /\ Offer(c)' = Offer(c)
        BY <1>2, <3>1 DEF Channel, Offer
      <3> QED BY <1>1, <3>1, <3>3, <3>6, <3>7
    <2>5. CASE Send(c)
      <3>1. /\ client[c] = "resolved" /\ client'[c] = "done"
            /\ UNCHANGED <<query, found, answer>>
            /\ file'[c] = IF file[c] \in blobs THEN file[c] ELSE NoArtifact
        BY <1>1, <2>5 DEF Send, ServiceTypeOK
      <3>2. Offer(c) \in answer[c] /\ Offer(c) \in Versions /\ query[c] \in Queries
        BY <1>1, <3>1, OfferIsAnswered DEF ServiceTypeOK
      <3>3. /\ Channel(c)[Offer(c)] = releases[<<query[c].channel, Offer(c)>>]
            /\ <<query[c].channel, Offer(c)>> \in Keys
        BY <3>2, ChannelEntries
      <3>4. file[c] \in blobs
        <4>1. Blobs(Channel(c)[Offer(c)]) \subseteq blobs
          BY <1>1, <3>1, <3>2, <3>3 DEF StoreInv, VisibleReleasesComplete, Visible
        <4>2. query[c].platform \in Platforms
          BY <3>2 DEF Queries
        <4> QED BY <1>1, <3>1, <3>2, <4>1, <4>2 DEF Blobs
      <3>5. Channel(c)' = Channel(c) /\ Offer(c)' = Offer(c)
        BY <1>2, <3>1 DEF Channel, Offer
      <3> QED BY <1>1, <3>1, <3>4, <3>5
    <2>6. CASE Again(c)
      <3>1. /\ client[c] # "checking" /\ client'[c] = "idle" /\ found'[c] = found[c]
        BY <1>1, <2>6 DEF Again, Reset, ServiceTypeOK
      <3> QED BY <1>1, <3>1
    <2> QED BY <2>1, <2>2, <2>3, <2>4, <2>5, <2>6 DEF ClientNext
  <1> QED BY <1>3, <1>4

LEMMA StepDelivers == StoreInv /\ DeliveryInv /\ [ServiceNext]_allVars => DeliveryInv'
  <1> SUFFICES ASSUME StoreInv, DeliveryInv, [ServiceNext]_allVars
               PROVE  DeliveryInv'
    OBVIOUS
  <1>1. ReleasesKept
    BY ServiceStepIsStoreStep, StepStoreInv
  <1>2. ServiceTypeOK'
    BY ServiceTypes DEF DeliveryInv, Deliverable, ServiceTypeOK
  <1>3. CASE UNCHANGED clientVars
    BY <1>1, <1>2, <1>3, DeliverableStays DEF clientVars, DeliveryInv
  <1>4. CASE ServiceCrash
    BY <1>1, <1>2, <1>4, CrashDelivers DEF DeliveryInv
  <1>5. CASE \E c \in Clients : ClientNext(c)
    BY <1>1, <1>2, <1>5, ClientStepDelivers DEF DeliveryInv
  <1> QED BY <1>3, <1>4, <1>5 DEF ServiceNext, allVars

LEMMA DeliveryInvariant == ServiceSpec => []DeliveryInv
  <1>1. ServiceInit => DeliveryInv
    BY DEF ServiceInit, DeliveryInv, ServiceTypeOK, Deliverable, HasAnswer
  <1> QED BY <1>1, StepDelivers, StoreUnderService, PTL DEF ServiceSpec

(* Every variable of the update service always has its type.                *)
THEOREM ServiceTypeCorrect == ServiceSpec => []ServiceTypeOK
  BY DeliveryInvariant, PTL DEF DeliveryInv

(* Whatever is uploaded, withdrawn, dropped half way or pruned between the    *)
(* check and the download, and however often the server restarts, a client   *)
(* that follows its offer gets the artifact of that newer release            *)
(* (storage.rs:224-298, routes/mod.rs:418-511).                            *)
THEOREM OffersAreDelivered == ServiceSpec => []OffersAreDeliverable
  <1>1. DeliveryInv => OffersAreDeliverable
    <2> SUFFICES ASSUME DeliveryInv, NEW c \in Clients, client[c] = "done"
                 PROVE  /\ Offer(c) > query[c].current
                        /\ file[c] # NoArtifact
                        /\ file[c] = Channel(c)[Offer(c)].platforms[query[c].platform]
      BY DEF OffersAreDeliverable
    <2>1. Deliverable(c) /\ ServiceTypeOK
      BY DEF DeliveryInv
    <2>2. Offer(c) \in answer[c]
      BY <2>1, OfferIsAnswered DEF Deliverable
    <2> QED BY <2>1, <2>2 DEF Deliverable, HasAnswer
  <1> QED BY <1>1, DeliveryInvariant, PTL

-----------------------------------------------------------------------------
(* Freshness                                                               *)

LEMMA SerialUnderService ==
  ASSUME Cancellable = {}
  PROVE  ServiceSpec => []SerialInv
  <1>1. ServiceInit => SerialInv
    BY InitSerial DEF ServiceInit
  <1>2. StoreInv /\ SerialInv /\ [ServiceNext]_allVars => SerialInv'
    BY StepSerial, ServiceStepIsStoreStep
  <1> QED BY <1>1, <1>2, StoreUnderService, PTL DEF ServiceSpec

(* No operation of the catalog offers a withdrawn release again.            *)
WithdrawalsKept == \A k \in Keys : StillWithdrawn(releases[k], releases'[k])

LEMMA CatalogKeepsWithdrawals ==
  ASSUME TypeOK, [Shelf!Next]_releases
  PROVE  WithdrawalsKept
  <1> SUFFICES ASSUME NEW k \in Keys, releases[k] # NoRelease, releases[k].withdrawn
               PROVE  releases'[k].withdrawn
    BY DEF WithdrawalsKept, StillWithdrawn
  <1>1. releases[k] \in Manifests /\ releases \in [Keys -> Manifests \cup {NoRelease}]
    BY DEF TypeOK
  <1>2. CASE UNCHANGED releases
    BY <1>2
  <1>3. ASSUME NEW j \in Keys, NEW m, releases[j] = NoRelease,
               releases' = [releases EXCEPT ![j] = m]
        PROVE  releases'[k].withdrawn
    BY <1>1, <1>3
  <1>4. ASSUME NEW j \in Keys, NEW n \in Notes, Shelf!Patch(j, n)
        PROVE  releases'[k].withdrawn
    BY <1>1, <1>4 DEF Shelf!Patch, Manifests
  <1>5. ASSUME NEW j \in Keys, Shelf!Withdraw(j)
        PROVE  releases'[k].withdrawn
    BY <1>1, <1>5 DEF Shelf!Withdraw, Manifests
  <1> QED BY <1>2, <1>3, <1>4, <1>5 DEF Shelf!Next, Shelf!Keys, Keys, Shelf!Publish, Shelf!Copy

(* A release that was read as withdrawn is withdrawn for good.              *)
LEMMA WithdrawalsStay ==
  ASSUME ReleasesKept, WithdrawalsKept, NEW c \in Clients, query[c] \in Queries,
         query'[c] = query[c], NEW v \in Versions, Channel(c)[v] # NoRelease,
         Channel(c)[v].withdrawn
  PROVE  Channel(c)'[v].withdrawn
  <1>1. Channel(c)[v] = releases[<<query[c].channel, v>>] /\ <<query[c].channel, v>> \in Keys
    BY ChannelEntries
  <1>2. Channel(c)'[v] = releases'[<<query[c].channel, v>>]
    BY DEF Channel
  <1> QED BY <1>1, <1>2 DEF WithdrawalsKept, StillWithdrawn

LEMMA FreshStays ==
  ASSUME ServiceTypeOK, ReleasesKept, WithdrawalsKept,
         NEW c \in Clients, Fresh(c), Deliverable(c),
         \/ client'[c] = client[c]
         \/ client[c] = "checking" /\ client'[c] = "idle"
         \/ client[c] = "resolved" /\ client'[c] = "answered",
         query'[c] = query[c], answer'[c] = answer[c], atStart'[c] = atStart[c],
         client'[c] = "checking" => found'[c] = found[c]
  PROVE  Fresh(c)'
  <1> USE DEF HasAnswer
  <1>1. CASE client'[c] = "idle"
    BY <1>1 DEF Fresh
  <1>2. CASE client'[c] # "idle"
    <2>1. query[c] \in Queries
      BY <1>2 DEF Deliverable, ServiceTypeOK
    <2>2. \A v \in Versions : Channel(c)[v] # NoRelease =>
            /\ Channel(c)'[v] # NoRelease
            /\ Channel(c)'[v].platforms = Channel(c)[v].platforms
            /\ Channel(c)[v].withdrawn => Channel(c)'[v].withdrawn
      BY <2>1, ArtifactsStay, WithdrawalsStay DEF SameArtifacts
    <2>3. (client[c] # "idle" => \A v \in Versions :
             /\ SameArtifacts(atStart[c][v], Channel(c)[v])
             /\ StillWithdrawn(atStart[c][v], Channel(c)[v]))'
      BY <1>2, <2>2 DEF Fresh, SameArtifacts, StillWithdrawn
    <2>4. (client[c] = "checking" => \A v \in Versions : found[c][v] # NoRelease =>
             /\ StillWithdrawn(atStart[c][v], found[c][v])
             /\ StillWithdrawn(found[c][v], Channel(c)[v]))'
      BY <1>2, <2>2 DEF Fresh, Deliverable, SameArtifacts, StillWithdrawn
    <2>5. (HasAnswer(c) =>
             /\ \A v \in Versions :
                  Applies(atStart[c][v], query[c], v) /\ v \notin answer[c]
                    => Channel(c)[v].withdrawn
             /\ \A v \in answer[c] : atStart[c][v] # NoRelease => ~atStart[c][v].withdrawn)'
      <3>1. \A v \in Versions : Applies(atStart[c][v], query[c], v)' <=>
                                 Applies(atStart[c][v], query[c], v)
        BY DEF Applies, Newer
      <3>2. \A v \in Versions : Applies(atStart[c][v], query[c], v) /\ client[c] # "idle"
                                  => Channel(c)[v] # NoRelease
        BY DEF Fresh, Applies, SameArtifacts
      <3> QED BY <2>2, <3>1, <3>2 DEF Fresh
    <2> QED BY <2>3, <2>4, <2>5 DEF Fresh
  <1> QED BY <1>1, <1>2

LEMMA ClientStepStaysFresh ==
  ASSUME StoreInv, DeliveryInv, FreshInv, NEW c \in Clients, ClientNext(c),
         ReleasesKept, WithdrawalsKept
  PROVE  FreshInv'
  <1>1. Deliverable(c) /\ ServiceTypeOK /\ Fresh(c)
    BY DEF DeliveryInv, FreshInv
  <1>2. releases' = releases
    BY DEF ClientNext, BeginCheck, ReadManifest, Answer, Resolve, Send, Again, Reset, vars
  <1>3. ASSUME NEW d \in Clients, d # c
        PROVE  Fresh(d)'
    <2>1. /\ client'[d] = client[d] /\ query'[d] = query[d] /\ found'[d] = found[d]
          /\ answer'[d] = answer[d] /\ atStart'[d] = atStart[d]
      BY <1>1, <1>3 DEF ClientNext, BeginCheck, ReadManifest, Answer, Resolve, Send, Again,
         Reset, ServiceTypeOK
    <2> QED BY <1>1, <2>1, FreshStays DEF DeliveryInv, FreshInv
  <1>4. Fresh(c)'
    <2> USE DEF HasAnswer
    <2>1. ASSUME NEW q \in Queries, BeginCheck(c, q)
          PROVE  Fresh(c)'
      <3>1. /\ client'[c] = "checking" /\ query'[c] = q /\ found'[c] = found[c]
            /\ atStart'[c] = [v \in Versions |-> releases[<<q.channel, v>>]]
        BY <1>1, <2>1 DEF BeginCheck, ServiceTypeOK
      <3>2. \A v \in Versions : found[c][v] = NoRelease
        BY <1>1, <2>1 DEF BeginCheck, Deliverable
      <3>3. Channel(c)' = atStart'[c]
        BY <1>2, <3>1 DEF Channel
      <3> QED BY <3>1, <3>2, <3>3 DEF Fresh, SameArtifacts, StillWithdrawn
    <2>2. ASSUME NEW v \in Versions, ReadManifest(c, v)
          PROVE  Fresh(c)'
      <3>1. /\ client[c] = "checking" /\ client'[c] = "checking" /\ query'[c] = query[c]
            /\ atStart'[c] = atStart[c]
            /\ found'[c] = [found[c] EXCEPT ![v] = Channel(c)[v]]
        BY <1>1, <2>2 DEF ReadManifest, ServiceTypeOK
      <3>2. Channel(c)' = Channel(c)
        BY <1>2, <3>1 DEF Channel
      <3>3. \A w \in Versions : found'[c][w] = IF w = v THEN Channel(c)[v] ELSE found[c][w]
        BY <1>1, <3>1 DEF ServiceTypeOK
      <3>4. \A w \in Versions : found'[c][w] # NoRelease =>
              /\ StillWithdrawn(atStart[c][w], found'[c][w])
              /\ StillWithdrawn(found'[c][w], Channel(c)[w])
        BY <1>1, <3>1, <3>3 DEF Fresh, StillWithdrawn
      <3> QED BY <1>1, <3>1, <3>2, <3>4 DEF Fresh
    <2>3. CASE Answer(c)
      <3>1. /\ client[c] = "checking" /\ client'[c] = "answered" /\ query'[c] = query[c]
            /\ answer'[c] = {v \in Versions : Applies(found[c][v], query[c], v)}
            /\ atStart'[c] = atStart[c] /\ ListingDone(c)
        BY <1>1, <2>3 DEF Answer, ServiceTypeOK
      <3>2. Channel(c)' = Channel(c)
        BY <1>2, <3>1 DEF Channel
      <3>3. ASSUME NEW v \in Versions, Applies(atStart[c][v], query[c], v), v \notin answer'[c]
            PROVE  Channel(c)[v].withdrawn
        <4>1. found[c][v] # NoRelease /\ ~Applies(found[c][v], query[c], v)
          BY <3>1, <3>3 DEF ListingDone, Applies
        <4>2. found[c][v].platforms = atStart[c][v].platforms
          <5>1. SameArtifacts(found[c][v], Channel(c)[v])
            BY <1>1, <3>1 DEF Deliverable
          <5>2. SameArtifacts(atStart[c][v], Channel(c)[v])
            BY <1>1, <3>1 DEF Fresh
          <5> QED BY <3>3, <4>1, <5>1, <5>2 DEF SameArtifacts, Applies
        <4>3. found[c][v].withdrawn
          BY <3>3, <4>1, <4>2 DEF Applies
        <4>4. StillWithdrawn(found[c][v], Channel(c)[v])
          BY <1>1, <3>1, <4>1 DEF Fresh
        <4> QED BY <4>1, <4>3, <4>4 DEF StillWithdrawn
      <3>4. ASSUME NEW v \in answer'[c], atStart[c][v] # NoRelease
            PROVE  ~atStart[c][v].withdrawn
        <4>1. v \in Versions /\ found[c][v] # NoRelease /\ ~found[c][v].withdrawn
          BY <3>1, <3>4 DEF Applies
        <4>2. StillWithdrawn(atStart[c][v], found[c][v])
          BY <1>1, <3>1, <4>1 DEF Fresh
        <4> QED BY <3>4, <4>1, <4>2 DEF StillWithdrawn
      <3>5. \A v \in Versions : Applies(atStart[c][v], query[c], v)' <=>
                                 Applies(atStart[c][v], query[c], v)
        BY <3>1 DEF Applies, Newer
      <3> QED BY <1>1, <3>1, <3>2, <3>3, <3>4, <3>5 DEF Fresh
    <2>4. CASE Resolve(c) \/ Send(c)
      <3>1. /\ client[c] \in {"answered", "resolved"} /\ client'[c] \in {"resolved", "done"}
            /\ UNCHANGED <<query, found, answer, atStart>>
        BY <1>1, <2>4 DEF Resolve, Send, ServiceTypeOK
      <3>2. Channel(c)' = Channel(c)
        BY <1>2, <3>1 DEF Channel
      <3>3. \A v \in Versions : Applies(atStart[c][v], query[c], v)' <=>
                                 Applies(atStart[c][v], query[c], v)
        BY <3>1 DEF Applies, Newer
      <3> QED BY <1>1, <3>1, <3>2, <3>3 DEF Fresh
    <2>5. CASE Again(c)
      <3>1. client'[c] = "idle"
        BY <1>1, <2>5 DEF Again, Reset, ServiceTypeOK
      <3> QED BY <3>1 DEF Fresh
    <2> QED BY <2>1, <2>2, <2>3, <2>4, <2>5 DEF ClientNext
  <1> QED BY <1>3, <1>4 DEF FreshInv

LEMMA StepStaysFresh ==
  ASSUME Cancellable = {}, StoreInv, SerialInv, DeliveryInv, FreshInv,
         [ServiceNext]_allVars
  PROVE  FreshInv'
  <1>1. [Next]_vars
    BY ServiceStepIsStoreStep
  <1>2. ReleasesKept /\ WithdrawalsKept
    BY <1>1, StepStoreInv, StepSerial, CatalogKeepsWithdrawals DEF StoreInv
  <1>3. CASE UNCHANGED clientVars
    BY <1>2, <1>3, FreshStays DEF clientVars, DeliveryInv, FreshInv
  <1>4. CASE ServiceCrash
    <2> SUFFICES ASSUME NEW c \in Clients
                 PROVE  Fresh(c)'
      BY DEF FreshInv
    <2>1. /\ query'[c] = query[c] /\ answer'[c] = answer[c] /\ atStart'[c] = atStart[c]
          /\ client'[c] = CASE client[c] = "checking" -> "idle"
                            [] client[c] = "resolved" -> "answered"
                            [] OTHER -> client[c]
      BY <1>4 DEF ServiceCrash
    <2> QED BY <1>2, <2>1, FreshStays DEF DeliveryInv, FreshInv
  <1>5. CASE \E c \in Clients : ClientNext(c)
    BY <1>2, <1>5, ClientStepStaysFresh
  <1> QED BY <1>3, <1>4, <1>5 DEF ServiceNext, allVars

(* With no request dropped half way, a check that reads its channel entry by  *)
(* entry, without a lock, among any number of uploads, copies, patches and    *)
(* withdrawals, answers nothing stale (storage.rs:224-298).                 *)
THEOREM AnswersAreFresh ==
  ASSUME Cancellable = {}
  PROVE  ServiceSpec => []ChecksAreFresh
  <1>1. ServiceInit => FreshInv
    BY DEF ServiceInit, FreshInv, Fresh, HasAnswer
  <1>2. StoreInv /\ SerialInv /\ DeliveryInv /\ FreshInv /\ [ServiceNext]_allVars => FreshInv'
    BY StepStaysFresh
  <1>3. FreshInv => ChecksAreFresh
    BY DEF FreshInv, Fresh, HasAnswer, ChecksAreFresh
  <1> QED BY <1>1, <1>2, <1>3, StoreUnderService, SerialUnderService, DeliveryInvariant, PTL
       DEF ServiceSpec
=============================================================================
