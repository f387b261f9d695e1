SPECIFICATION Spec
CONSTANTS
  h1 = h1
  h2 = h2
  p1 = p1
  p2 = p2
  d1 = d1
  d2 = d2
  Handlers = {h1, h2}
  Cancellable = {h1, h2}
  Channels = {stable, beta}
  Versions = {v1}
  Platforms = {p1, p2}
  Digests = {d1, d2}
  Notes = {n1}
  Uploads <- MCUploads
  NoArtifact = NoArtifact
  NoRelease = NoRelease
  NoRequest = NoRequest
  Free = Free
SYMMETRY HandlerSymmetry
INVARIANTS TypeOK VisibleReleasesComplete
PROPERTY ArtifactsImmutable
