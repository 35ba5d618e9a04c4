----------------------------- MODULE MCPaxosWalk -----------------------------
(***************************************************************************)
(* PaxosWalk from the roots of the paxos scenario tests.                   *)
(***************************************************************************)
EXTENDS PaxosWalk

MCRoots == {RootBfs1, RootBasic2, RootBfs2, RootPartition1, RootConsensus}

\* TestInvariant explores consensusState, the one root with drop-off and
\* duplication, to depth 7; here to 6, the other roots go to MaxDepth.
LossyDepth == 6

DepthOfRoot == state.isDropOff => state.depth <= LossyDepth

=============================================================================
