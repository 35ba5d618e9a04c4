CONSTANTS
  g1 = g1
  g2 = g2
  g3 = g3
  g4 = g4
  r1 = r1
  r2 = r2
  Gids <- MCGids
  Replicas <- MCReplicas
  NShards = 10
  MoveShards = {0}
  MaxLog = 5
SPECIFICATION Spec
SYMMETRY Symmetry
CHECK_DEADLOCK FALSE
INVARIANTS
  TypeOK
  JoinKeepsBalance
