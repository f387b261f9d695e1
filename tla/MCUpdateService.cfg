SPECIFICATION ServiceSpec
CONSTANTS
  p1 = p1
  p2 = p2
  d1 = d1
  d2 = d2
  Handlers = {h1}
  Cancellable = {}
  Channels = {stable}
  Versions = {1, 2}
  Platforms = {p1, p2}
  Digests = {d1, d2}
  Notes = {n1}
  Uploads <- MCUploads
  NoArtifact = NoArtifact
  NoRelease = NoRelease
  NoRequest = NoRequest
  Free = Free
  Clients = {c1}
  Installed = {0, 1}
INVARIANTS ServiceTypeOK ChecksAreFresh OffersAreDeliverable
