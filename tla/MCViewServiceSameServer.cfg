CONSTANTS
  s1 = s1
  s2 = s2
  s3 = s3
  Servers <- MCServers
  DeadPings = 2
SPECIFICATION Spec
CONSTRAINT ViewBound
SYMMETRY ServerSymmetry
INVARIANT
  PrimaryNotBackup
