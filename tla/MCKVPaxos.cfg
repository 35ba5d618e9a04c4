CONSTANTS
  s1 = s1
  s2 = s2
  c1 = c1
  c2 = c2
  k1 = k1
  Servers <- MCServers
  Clients <- MCClients
  Keys <- MCKeys
  Vals = {1}
  HashMod = 4
  MaxTs = 2
  MaxSeq <- MCMaxSeq
  None = None
SPECIFICATION Spec
SYMMETRY Symmetry
INVARIANTS
  TypeOK
  AtMostOnce
  RepliesMatchLog
