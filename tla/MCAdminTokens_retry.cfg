SPECIFICATION Spec
CONSTANTS
  n1 = n1
  n2 = n2
  Nodes = {n1}
  Tokens = {t1}
  Mutations = {1, 2, 3}
  MaxFaults = 1
  MaxRestarts = 1
  Absent = Absent
  NoToken = NoToken
INVARIANT AcknowledgedStatusSurvivesRestart
