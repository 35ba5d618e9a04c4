----------------------------- MODULE MCBfsSearch -----------------------------
(***************************************************************************)
(* BfsFind and BfsFindAll over the ping-pong protocol, called as the       *)
(* pingpong search tests call them, on a few of their roots.               *)
(***************************************************************************)
EXTENDS BfsSearch, PingPongBinding

\* The roots of TestBfsFind / TestBfsFindAll1 (plain), TestBfsFindAll2
\* (drop-off and duplication), TestBfsFindAll3 (unstable, crazy server), and
\* the partition and unknown-destination setups of state_test.go.
MCRoots ==
  { TestRoot(FALSE, FALSE, FALSE, FALSE, TRUE, FALSE, "none"),
    TestRoot(TRUE, TRUE, FALSE, FALSE, TRUE, FALSE, "none"),
    TestRoot(FALSE, FALSE, TRUE, TRUE, TRUE, FALSE, "none"),
    TestRoot(TRUE, TRUE, FALSE, FALSE, FALSE, TRUE, "server"),
    TestRoot(FALSE, TRUE, FALSE, FALSE, TRUE, FALSE, "ghost") }

\* "ack": the validate of the search tests -- the client's ack grows by at
\* most one per step, and only when a message is handled.  "served": the
\* server has answered at most two pings.
MCValidate(name, new, old) ==
  IF name = "ack"
  THEN LET n == new.nodes["client"].ack
           o == old.nodes["client"].ack
       IN /\ n = o + 1 => new.event.action \in {"handle", "handle duplicate"}
          /\ ~(n > o + 1)
  ELSE new.nodes["server"].counter <= 2

\* The client has acknowledged two pongs.
MCGoal(name, nodes) == nodes["client"].ack = 2

=============================================================================
