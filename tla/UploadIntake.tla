------------------------------ MODULE UploadIntake ------------------------------
(***************************************************************************)
(* The way of a release into a node: the operator's limits become an upload *)
(* policy (UploadConfig::policy), the client fetches it and prepares a       *)
(* release that keeps to it (prepare_from_remote, prepare_from_local), and   *)
(* the server streams the parts of the request to a staging directory        *)
(* (read_release_multipart) and validates them (validate_upload_metadata).   *)
(* Sizes are unsigned words: multiplication is checked, addition saturates.  *)
(***************************************************************************)
EXTENDS Naturals, Sequences, FiniteSets, SequencesExt

CONSTANTS
  MaxWord,       \* the largest u64 (and usize)
  Mebi, Kibi,    \* 1024 * 1024 and 1024 bytes
  Overhead,      \* bytes multipart framing adds to a part
  Configs,       \* what operators write into the [upload] section
  Names,         \* names of artifact fields
  ArtifactSizes, \* sizes of artifacts
  MetadataSizes, \* sizes of the serialized metadata
  MaxParts,      \* bound: parts of a request
  Chunks         \* sizes of the chunks a part arrives in

ASSUME IntakeAssumption ==
  /\ {MaxWord, Mebi, Kibi, Overhead, MaxParts} \subseteq Nat
  /\ Mebi > 1 /\ Kibi > 1
  /\ (MaxWord + 1) % Mebi = 0 /\ (MaxWord + 1) % Kibi = 0
  /\ Configs \subseteq [artifact : Nat, total : Nat, metadata : Nat, platforms : Nat]
  /\ ArtifactSizes \cup MetadataSizes \subseteq Nat
  /\ Chunks \subseteq Nat \ {0} /\ 1 \in Chunks

(* A part is an artifact or the metadata, which names the fields it needs.  *)
Artifacts == [kind : {"artifact"}, name : Names, size : ArtifactSizes]
Metadata == [kind : {"metadata"}, needs : SUBSET Names, size : MetadataSizes]

VARIABLES
  phase,     \* "configured", "refused config", "serving", "fetched",
             \* "prepared", "gave up", "receiving", "accepted", "refused"
  config,    \* the [upload] section
  policy,    \* the UploadPolicy made from it
  parts,     \* the parts of the request
  prepared,  \* the request was made by the UDS client
  picked,    \* the artifacts the client has fetched or hashed
  tally,     \* the client's total_size
  part,      \* the part the server is reading, 0 between requests
  unread,    \* bytes of that part still to come
  size,      \* size of the current file, or bytes.len() of the metadata
  total,     \* total_artifact_bytes
  files,     \* name -> size of the files staged so far
  needs,     \* of the metadata read so far: <<the fields it names>>
  body,      \* bytes of the request body so far, counted by DefaultBodyLimit
  staged,    \* history: bytes written to the staging directory
  largest    \* history: bytes of the largest file there

limitVars == <<config, policy>>
clientIntakeVars == <<parts, prepared, picked, tally>>
readerVars == <<part, unread, size, total, files, needs, body, staged, largest>>
intakeVars == <<phase, limitVars, clientIntakeVars, readerVars>>

NoPolicy == [artifact |-> 0, total |-> 0, metadata |-> 0, platforms |-> 0]

-----------------------------------------------------------------------------
(* Word arithmetic.                                                        *)

Capped(n) == IF n > MaxWord THEN MaxWord ELSE n

(* Seeded fault: the sum is not saturated.                                 *)
Add_Beyond(a, b) == a + b

Add(a, b) == Capped(a + b)

Fits(a, unit) == a * unit <= MaxWord

(* ServerConfig::validate and UploadConfig::policy.                        *)
Valid(c) ==
  /\ c.artifact > 0 /\ c.total > 0 /\ c.metadata > 0 /\ c.platforms > 0
  /\ c.artifact <= c.total
  /\ Fits(c.artifact, Mebi) /\ Fits(c.total, Mebi) /\ Fits(c.metadata, Kibi)

PolicyOf(c) == [artifact |-> c.artifact * Mebi, total |-> c.total * Mebi,
                metadata |-> c.metadata * Kibi, platforms |-> c.platforms]

(* Seeded fault: no allowance for the framing of the parts.                *)
BodyLimit_Bare == Add(policy.total, policy.metadata)

(* build_admin_router.                                                     *)
BodyLimit == Add(Add(policy.total, policy.metadata), Mebi)

-----------------------------------------------------------------------------
LoadConfig ==
  /\ phase = "configured"
  /\ IF Valid(config)
       THEN phase' = "serving" /\ policy' = PolicyOf(config)
       ELSE phase' = "refused config" /\ UNCHANGED policy
  /\ UNCHANGED <<config, clientIntakeVars, readerVars>>

(* Any client may send any parts.                                          *)
SendRequest(request) ==
  /\ phase = "serving"
  /\ phase' = "receiving"
  /\ parts' = request
  /\ UNCHANGED <<limitVars, prepared, picked, tally, readerVars>>

(* The UDS client asks for the policy and is given a release.              *)
FetchPolicy(request) ==
  /\ phase = "serving"
  /\ Head(request).kind = "metadata"
  /\ \A i, j \in 2..Len(request) :
       /\ request[i].kind = "artifact"
       /\ request[i].name = request[j].name => i = j
  /\ Head(request).needs = {request[i].name : i \in 2..Len(request)}
  /\ IF Len(request) - 1 \in 1..policy.platforms
       THEN phase' = "fetched" ELSE phase' = "gave up"
  /\ parts' = request
  /\ UNCHANGED <<limitVars, prepared, picked, tally, readerVars>>

(* download_artifact or hash_local_artifact, then the client's total.      *)
PickArtifact ==
  LET n == parts[picked + 2].size
  IN  /\ phase = "fetched"
      /\ picked < Len(parts) - 1
      /\ tally' = Add(tally, n)
      /\ IF n > policy.artifact \/ tally' > policy.total
           THEN phase' = "gave up" /\ UNCHANGED picked
           ELSE picked' = picked + 1 /\ UNCHANGED phase
      /\ UNCHANGED <<limitVars, parts, prepared, readerVars>>

(* validate_serialized_metadata, the confirmation and the upload request.  *)
Upload ==
  /\ phase = "fetched"
  /\ picked = Len(parts) - 1
  /\ IF Head(parts).size > policy.metadata
       THEN phase' = "gave up" /\ UNCHANGED prepared
       ELSE phase' = "receiving" /\ prepared' = TRUE
  /\ UNCHANGED <<limitVars, parts, picked, tally, readerVars>>

-----------------------------------------------------------------------------
(* The server reads the request. A refused request leaves nothing staged.   *)

RefuseUpload ==
  /\ phase' = "refused"
  /\ staged' = 0 /\ largest' = 0
  /\ UNCHANGED <<limitVars, clientIntakeVars, part, unread, size, total, files, needs, body>>

NextPart == parts[part + 1]

(* next_field: a second metadata part, a repeated name and a file too many *)
(* are refused before anything of them is read.                            *)
Misplaced(p) ==
  IF p.kind = "metadata" THEN needs # <<>>
  ELSE p.name \in DOMAIN files \/ Cardinality(DOMAIN files) >= policy.platforms

BeginPart ==
  /\ phase = "receiving"
  /\ unread = 0 /\ part < Len(parts)
  /\ IF body + Overhead > BodyLimit \/ Misplaced(NextPart) THEN RefuseUpload
     ELSE /\ part' = part + 1
          /\ unread' = NextPart.size
          /\ size' = 0
          /\ body' = body + Overhead
          /\ files' = IF NextPart.kind = "metadata" THEN files
                      ELSE [f \in DOMAIN files \cup {NextPart.name} |->
                              IF f \in DOMAIN files THEN files[f] ELSE 0]
          /\ needs' = IF NextPart.kind = "metadata" THEN <<NextPart.needs>> ELSE needs
          /\ UNCHANGED <<phase, limitVars, clientIntakeVars, total, staged, largest>>

TooLarge(n) ==
  IF parts[part].kind = "metadata" THEN Add(size, n) > policy.metadata
  ELSE Add(size, n) > policy.artifact \/ Add(total, n) > policy.total

(* Seeded fault: the limits are looked at after the chunk was written.     *)
Stops_Late(n) == size > policy.artifact \/ total > policy.total

Stops(n) == TooLarge(n)

Larger(a, b) == IF a > b THEN a ELSE b

(* One chunk: counted, checked, and only then written.                     *)
ReadChunk(n) ==
  /\ phase = "receiving"
  /\ part > 0 /\ n <= unread
  /\ IF body + n > BodyLimit \/ Stops(n) THEN RefuseUpload
     ELSE /\ unread' = unread - n
          /\ body' = body + n
          /\ size' = Add(size, n)
          /\ IF parts[part].kind = "metadata"
               THEN UNCHANGED <<total, files, staged, largest>>
               ELSE /\ total' = Add(total, n)
                    /\ files' = [files EXCEPT ![parts[part].name] = Add(size, n)]
                    /\ staged' = staged + n
                    /\ largest' = Larger(largest, parts[part].size - unread')
          /\ UNCHANGED <<phase, limitVars, clientIntakeVars, part, needs>>

(* validate_upload_metadata over the staged files.                         *)
Consistent ==
  /\ needs # <<>>
  /\ Cardinality(Head(needs)) \in 1..policy.platforms
  /\ Head(needs) = DOMAIN files
  /\ \A f \in DOMAIN files : files[f] <= policy.artifact
  /\ total <= policy.total

EndOfBody ==
  /\ phase = "receiving"
  /\ part = Len(parts) /\ unread = 0
  /\ IF Consistent
       THEN /\ phase' = "accepted"
            /\ UNCHANGED <<limitVars, clientIntakeVars, readerVars>>
       ELSE RefuseUpload

IntakeInit ==
  /\ phase = "configured" /\ config \in Configs /\ policy = NoPolicy
  /\ parts = <<>> /\ prepared = FALSE /\ picked = 0 /\ tally = 0
  /\ part = 0 /\ unread = 0 /\ size = 0 /\ total = 0 /\ files = <<>>
  /\ needs = <<>> /\ body = 0 /\ staged = 0 /\ largest = 0

RequestsOf(n) == [1..n -> Artifacts \cup Metadata]
AllRequests == UNION {RequestsOf(n) : n \in 1..MaxParts}

IntakeNext ==
  \/ LoadConfig
  \/ \E request \in AllRequests : SendRequest(request) \/ FetchPolicy(request)
  \/ PickArtifact \/ Upload
  \/ BeginPart \/ EndOfBody
  \/ \E n \in Chunks : ReadChunk(n)

IntakeSpec == IntakeInit /\ [][IntakeNext]_intakeVars

-----------------------------------------------------------------------------
(* Every variable has its type.                                            *)
IntakeTypeOK ==
  /\ phase \in {"configured", "refused config", "serving", "fetched", "gave up",
                "receiving", "accepted", "refused"}
  /\ config \in Configs
  /\ policy = NoPolicy \/ policy \in [artifact : 1..MaxWord, total : 1..MaxWord,
                                      metadata : 1..MaxWord, platforms : Nat]
  /\ parts = <<>> \/ parts \in AllRequests
  /\ prepared \in BOOLEAN /\ picked \in Nat /\ tally \in 0..MaxWord
  /\ part \in 0..Len(parts) /\ unread \in Nat
  /\ size \in 0..MaxWord /\ total \in 0..MaxWord
  /\ \A f \in DOMAIN files : f \in Names /\ files[f] \in 0..MaxWord
  /\ Len(needs) <= 1 /\ Range(needs) \subseteq SUBSET Names
  /\ body \in Nat /\ staged \in Nat /\ largest \in Nat

(* The staging directory never holds more than the operator allows, counted *)
(* without any word size: a limit is hit before the chunk that breaks it is *)
(* written, and no sum or product wraps (read_release_multipart, policy).   *)
StagedWithinLimits ==
  /\ staged <= config.total * Mebi \/ staged = 0
  /\ largest <= config.artifact * Mebi \/ largest = 0

(* What the client has prepared under the policy the server answered, the   *)
(* server takes: the two check the same limits, and the body limit leaves   *)
(* room for the framing (a mebibyte, if the parts need no more).            *)
BytesOf(s) == FoldLeft(LAMBDA m, n : m + n, 0, [i \in DOMAIN s |-> s[i].size + Overhead])

PreparedUploadsFit ==
  phase = "refused" /\ prepared =>
    Len(parts) * Overhead > Mebi \/ BytesOf(parts) > MaxWord
=============================================================================
