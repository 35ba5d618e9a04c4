---------------------------- MODULE MCViewService ----------------------------
EXTENDS ViewService

CONSTANTS s1, s2, s3

MCServers == {s1, s2, s3}

\* The view number bound: no view beyond MaxViewnum is explored.
MaxViewnum == 4

ViewBound == currentView.Viewnum <= MaxViewnum

ServerSymmetry == Permutations(MCServers)

=============================================================================
