----------------------------- MODULE MCPaxosLib -----------------------------
EXTENDS PaxosLib

CONSTANTS v1, v2

MCValues == {v1, v2}

\* Peers 1 and 2 start instance 0 with different values.
MCProposals == {<<1, v1>>, <<2, v2>>}

=============================================================================
