------------------------------ MODULE PingPong ------------------------------
(***************************************************************************)
(* The ping-pong retry protocol of part5_pkg/pingpong, written as the      *)
(* Node/Message/Timer capabilities the checker engine (module Engine)      *)
(* consumes.  A node is a record: a Client or a Server.  A handler returns *)
(* the sequence of alternative successor nodes, each paired with the       *)
(* messages its HandlerResponse() drains (base.CoreNode.Response).         *)
(* Timer countdown (PingTimer.Wait) is never called by the engine, so a    *)
(* pending timer always has remain = RetryTime and is kept as a boolean.   *)
(***************************************************************************)
EXTENDS Integers, Sequences

CONSTANT
  Fnv(_, _)      \* base.Hash(prefix, o): FNV-64 of prefix and "%v" of o

RetryTime == 10

\* Client.TriggerTimer and IsFinal compare ack against this literal.
FinalAck == 5

(* ---------------------------- messages --------------------------------- *)

PingMessage(from, to, id) == [type |-> "ping", from |-> from, to |-> to, id |-> id]
PongMessage(from, to, id) == [type |-> "pong", from |-> from, to |-> to, id |-> id]

From(m) == m.from
To(m)   == m.to

MsgHash(m) == Fnv(m.type, <<m.from, m.to, m.id>>)

\* PingMessage.Equals / PongMessage.Equals: same type, ends and Id.
MsgEquals(m1, m2) == m1 = m2

(* ----------------------------- nodes ----------------------------------- *)

\* NewClient: the ping timer exists iff isRetry.
NewClient(address, server, goal, isRetry) ==
  [type |-> "client", address |-> address, server |-> server, ack |-> 0,
   goal |-> goal, isRetry |-> isRetry, pingTimer |-> isRetry]

NewServer(unstable, crazy) ==
  [type |-> "server", counter |-> 0, unstable |-> unstable, crazy |-> crazy]

\* One alternative returned by a handler, with the messages its
\* HandlerResponse() yields.
Alt(node, resp) == [node |-> node, resp |-> resp]

ClientMessageHandler(c, m) ==
  IF m.type # "pong" THEN <<Alt(c, <<>>)>>
  ELSE LET acked == IF m.id = c.ack + 1 THEN [c EXCEPT !.ack = m.id] ELSE c
       IN IF m.id = c.goal THEN <<Alt(acked, <<>>)>>
          ELSE <<Alt(acked, <<PingMessage(c.address, m.from, m.id + 1)>>)>>

\* The first alternative answers; an unstable server may also count the ping
\* without answering; a crazy one may answer with the wrong Id.
ServerMessageHandler(s, m) ==
  IF m.type # "ping" THEN <<Alt(s, <<>>)>>
  ELSE LET counted == [s EXCEPT !.counter = @ + 1]
       IN  <<Alt(counted, <<PongMessage(m.to, m.from, m.id)>>)>>
           \o (IF s.unstable THEN <<Alt(counted, <<>>)>> ELSE <<>>)
           \o (IF s.crazy THEN <<Alt(counted, <<PongMessage(m.to, m.from, m.id + 1)>>)>>
               ELSE <<>>)

MessageHandler(n, m) ==
  IF n.type = "client" THEN ClientMessageHandler(n, m) ELSE ServerMessageHandler(n, m)

\* NextTimer() is non-nil (IsNil is false) only for a retrying client whose
\* pingTimer pointer is still set; a Server never has a timer.
NextTimer(n) == n.type = "client" /\ n.isRetry /\ n.pingTimer

\* Client.TriggerTimer: the timer is dropped once ack reaches 5; otherwise it
\* is reset and the next ping is re-sent to the server.
TriggerTimer(n) ==
  IF ~NextTimer(n) THEN <<>>
  ELSE IF n.ack = FinalAck THEN <<Alt([n EXCEPT !.pingTimer = FALSE], <<>>)>>
  ELSE <<Alt(n, <<PingMessage(n.address, n.server, n.ack + 1)>>)>>

NodeHash(n) ==
  IF n.type = "client"
  THEN Fnv("client", <<n.address, n.server, n.goal, n.ack, n.isRetry,
                       IF n.pingTimer THEN RetryTime ELSE 0>>)
  ELSE Fnv("server", <<n.counter, n.unstable, n.crazy>>)

\* Server.Equals compares only the counter; Client.Equals everything but
\* isRetry (which is fixed per client).
NodeEquals(n1, n2) ==
  /\ n1.type = n2.type
  /\ IF n1.type = "server" THEN n1.counter = n2.counter
     ELSE /\ n1.ack = n2.ack /\ n1.goal = n2.goal
          /\ n1.address = n2.address /\ n1.server = n2.server
          /\ n1.pingTimer = n2.pingTimer

(* ------------------------- test-side helpers --------------------------- *)

\* Client.SendCommand(PingCommand{To, Id}): the ping goes straight into the
\* state's network through State.Receive.
PingCommand(c, to, id) == PingMessage(c.address, to, id)

\* IsFinal: the (first) client's ack equals 5.
IsFinal(nodes) == \E a \in DOMAIN nodes : nodes[a].type = "client" /\ nodes[a].ack = FinalAck

=============================================================================
