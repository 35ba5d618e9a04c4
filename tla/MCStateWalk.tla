----------------------------- MODULE MCStateWalk -----------------------------
(***************************************************************************)
(* StateWalk over the ping-pong protocol, with the roots the pingpong      *)
(* tests build: one server and one client, drop-off and duplication on or  *)
(* off, a server that is plain, unstable or crazy, a client with or        *)
(* without retry, the server optionally blocking the client, and an        *)
(* optional first ping sent to the server, to the client itself or to an  *)
(* unregistered address.                                                   *)
(***************************************************************************)
EXTENDS StateWalk, PingPongBinding

MCRoots ==
  { TestRoot(drop, dup, unstable, crazy, retry, blocked, firstPing)
    : drop \in BOOLEAN, dup \in BOOLEAN, unstable \in BOOLEAN, crazy \in BOOLEAN,
      retry \in BOOLEAN, blocked \in BOOLEAN,
      firstPing \in {"none", "server", "client", "ghost"} }

=============================================================================
