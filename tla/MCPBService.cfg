CONSTANTS
  s1 = s1
  s2 = s2
  s3 = s3
  k1 = k1
  Servers <- MCServers2
  Keys <- MCKeys
  ClerkName <- MCClerkName
  DeadPings = 1
  Vals = {1}
  HashMod = 2
  MaxOps = 1
SPECIFICATION Spec
CONSTRAINT ViewBound2
SYMMETRY ServerSymmetry2
INVARIANTS
  TypeOK
  
