---------------------------- MODULE MCShardMaster ----------------------------
EXTENDS ShardMaster, TLC

CONSTANTS g1, g2, g3, g4, r1, r2

MCGids == {g1, g2, g3, g4}
MCReplicas == {r1, r2}

\* GIDs are only compared for equality and replicas are interchangeable.
Symmetry == Permutations(MCGids) \cup Permutations(MCReplicas)
=============================================================================
