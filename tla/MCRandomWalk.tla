----------------------------- MODULE MCRandomWalk -----------------------------
(***************************************************************************)
(* The random walks over the ping-pong protocol, called as the pingpong    *)
(* random-walk tests call them, from small roots.                          *)
(***************************************************************************)
EXTENDS RandomWalk, PingPongBinding

\* TestRandomWalkFind / TestRandomWalkFindAll (drop-off, retrying client),
\* a root with duplication, and a non-retrying client whose first ping is
\* already in flight.
MCRoots ==
  { TestRoot(TRUE, FALSE, FALSE, FALSE, TRUE, FALSE, "none"),
    TestRoot(FALSE, TRUE, FALSE, FALSE, TRUE, FALSE, "server"),
    TestRoot(TRUE, FALSE, FALSE, FALSE, FALSE, FALSE, "server") }

\* "ack": the validate of the random-walk tests -- the client's ack grows by
\* at most one per step, and only when a message is handled.  "served": the
\* server has answered at most one ping.
MCValidate(name, new, old) ==
  IF name = "ack"
  THEN LET n == new.nodes["client"].ack
           o == old.nodes["client"].ack
       IN /\ n = o + 1 => new.event.action \in {"handle", "handle duplicate"}
          /\ ~(n > o + 1)
  ELSE new.nodes["server"].counter <= 1

\* "ack1": the client has acknowledged its first pong.  "served2": the
\* server has answered two pings (a goal "served" rejects).
MCGoal(name, nodes) ==
  IF name = "ack1" THEN nodes["client"].ack = 1 ELSE nodes["server"].counter >= 2

=============================================================================
