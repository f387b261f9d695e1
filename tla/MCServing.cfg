SPECIFICATION ServingSpec
CONSTANTS
  Downloads = {d1, d2}
  Uploads = {u1}
  LogStreams = {s1}
  QueueCapacity = 1
  Flush = Flush
  MaxRequests = 3
  MaxEvents = 5
  Writers = 2
  ChannelCapacity = 2
  FileSize = 2
  Window = 1
  MaxArchives = 2
  Lines = 3
  SeenLimit = 1
  WireSize = 1
  MaxConnections = 2
  MaxWord = 15
  Mebi = 4
  Kibi = 2
  Overhead = 1
  Configs <- MCConfigs
  Names = {a, b}
  ArtifactSizes = {4, 9}
  MetadataSizes = {2, 3}
  MaxParts = 3
  Chunks = {1, 8}
INVARIANTS
  DrainTypeOK FinishedDownloadsAreFlushed EveryTransferIsReported
  LogTypeOK NoEventTwice SkipsAreAnnounced HistoryHasNoHole
  IntakeTypeOK StagedWithinLimits PreparedUploadsFit
PROPERTIES DrainWaitsOnlyForClients ForcedDrainEnds
