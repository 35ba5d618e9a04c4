------------------------------ MODULE MCKVPaxos ------------------------------
EXTENDS KVPaxos, TLC

CONSTANTS s1, s2, c1, c2, k1

\* Two clerks, two requests each: at most four Ops are decided and a
\* server proposes at most at instance five.
MCServers == {s1, s2}
MCClients == {c1, c2}
MCKeys == {k1}
MCMaxSeq == 4

\* Servers and clerks are interchangeable.
Symmetry == Permutations(MCServers) \cup Permutations(MCClients)
=============================================================================
