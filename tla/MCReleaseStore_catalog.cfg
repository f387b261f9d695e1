SPECIFICATION FairSpec
CONSTANTS
  h1 = h1
  h2 = h2
  p1 = p1
  p2 = p2
  d1 = d1
  d2 = d2
  Handlers = {h1, h2}
  Cancellable = {}
  Channels = {stable, beta}
  Versions = {v1}
  Platforms = {p1, p2}
  Digests = {d1, d2}
  Notes = {n1, n2}
  Uploads <- MCUploads
  NoArtifact = NoArtifact
  NoRelease = NoRelease
  NoRequest = NoRequest
  Free = Free
INVARIANT AcknowledgedWithdrawalSticks
PROPERTIES ImplementsCatalog RequestsFinish
