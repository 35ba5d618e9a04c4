---------------------------- MODULE MCPBService ----------------------------
EXTENDS PBService, TLC

CONSTANTS s1, s2, s3, k1

MCServers == {s1, s2, s3}
MCServers2 == {s1, s2}
MCKeys == {k1}

\* The clerk is made with MakeClerk(vshost, ""), so it pings as "".
MCClerkName == None

\* The view number bound: no view beyond MaxViewnum is explored.
MaxViewnum == 4
MaxViewnum2 == 3

ViewBound == currentView.Viewnum <= MaxViewnum
ViewBound2 == currentView.Viewnum <= MaxViewnum2

\* Fail-stop crashes only: a killed server stays down, so a write is lost
\* only through the replication protocol, never by the crash of its only copy.
FailStop == alive' \subseteq alive

ServerSymmetry == Permutations(MCServers)
ServerSymmetry2 == Permutations(MCServers2)

=============================================================================
