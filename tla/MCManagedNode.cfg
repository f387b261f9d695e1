SPECIFICATION ManagedNodeSpec
CONSTANTS
  Ids = {"o1", "o2"}
  Requests <- MCRequests
  Releases <- MCReleases
  MaxMishaps = 1
  Home = Home
  System = System
  Relative = Relative
  Settings = {s1, s2}
  Absent = Absent
  Invalid = Invalid
  MaxRuns = 2
  MaxEdits = 1
CHECK_DEADLOCK FALSE
INVARIANTS
  ManagedNodeTypeOK OneUpdateAtATime NeverOlderThanConfirmed SomethingToRestore
  OriginalConfigKept OwnerTokenKnown VerifiedInstallationIsCurrent
PROPERTIES OutcomeIsTruthful UpdatesEnd
