---------------------------- MODULE PaxosBinding ----------------------------
(***************************************************************************)
(* Plugs the Paxos servers (module Paxos) into the engine's Node and       *)
(* Message capabilities for three peers s1, s2, s3, and builds the root    *)
(* States the paxos scenario tests build.                                  *)
(***************************************************************************)
EXTENDS Engine

CONSTANTS
  Nil,         \* a nil interface{} value
  MaxSession,  \* bound: a server starts at most this many rounds ...
  MaxBallot    \* ... and none once its n_p has reached this ballot

MCPeers == <<"s1", "s2", "s3">>

\* A stand-in for FNV-64 over the printed fields: every field is coded by a
\* small integer and the codes are folded in a fixed field order.
AddrCode(a)  == CASE a = "s1" -> 1 [] a = "s2" -> 2 [] a = "s3" -> 3
ValCode(v)   == CASE v = Nil -> 0 [] v = "v1" -> 1 [] v = "v2" -> 2 [] v = "v3" -> 3
PhaseCode(p) == CASE p = "" -> 0 [] p = "propose" -> 1 [] p = "accept" -> 2 [] p = "decide" -> 3
FlagCode(b)  == IF b THEN 1 ELSE 0
Digest(codes) == FoldLeft(LAMBDA h, x : (h * 7 + x) % (2^HashWidth), 0, codes)

FieldCode(f, x) ==
  CASE f \in {"from", "to"} -> AddrCode(x)
    [] f \in {"v", "v_a", "V", "agreedValue", "InitialValue"} -> ValCode(x)
    [] f \in {"ok", "timeout"} -> FlagCode(x)
    [] f = "Phase" -> PhaseCode(x)
    [] f = "Responses" -> Digest([i \in DOMAIN x |-> FlagCode(x[i])])
    [] OTHER -> x

FieldOrder ==
  << "from", "to", "ok", "n", "v", "n_p", "n_a", "v_a", "sessionId",
     "me", "agreedValue", "timeout", "N", "Phase", "N_a_max", "V", "SuccessCount",
     "ResponseCount", "Responses", "SessionId", "InitialValue" >>

Codes(r) ==
  LET fs == SelectSeq(FieldOrder, LAMBDA f : f \in DOMAIN r)
  IN [k \in 1..Len(fs) |-> FieldCode(fs[k], r[fs[k]])]

PrefixCode(p) ==
  CASE p = "propose-request" -> 1 [] p = "propose-response" -> 2 [] p = "accept-request" -> 3
    [] p = "accept-response" -> 4 [] p = "decide-request" -> 5 [] p = "paxos" -> 6

MCFnv(prefix, body) ==
  Digest(<<PrefixCode(prefix)>> \o Codes(body)
         \o (IF "proposer" \in DOMAIN body THEN Codes(body.proposer) ELSE <<>>))

PX == INSTANCE Paxos WITH Peers <- MCPeers, Fnv <- MCFnv

\* The bound on rounds: the timer of a server that has used up its rounds,
\* or whose n_p has reached MaxBallot, is treated as nil.
MCNextTimer(n) ==
  /\ PX!NextTimer(n)
  /\ n.proposer.SessionId < MaxSession
  /\ n.n_p < MaxBallot

MCMessageHandler(n, m) == PX!MessageHandler(n, m)
MCTriggerTimer(n)      == PX!TriggerTimer(n)
MCNodeHash(n)          == PX!NodeHash(n)
MCNodeEquals(n1, n2)   == PX!NodeEquals(n1, n2)
MCMsgHash(m)           == PX!MsgHash(m)
MCMsgEquals(m1, m2)    == PX!MsgEquals(m1, m2)
MCFrom(m)              == PX!From(m)
MCTo(m)                == PX!To(m)
MCStateHash(nh, wh)    == (nh + 3 * wh) % (2^HashWidth)

\* NewState(0, drop, dup) and AddNode(peers[i], servers[i], nil) in order.
PaxosRoot(drop, dup, servers) ==
  FoldLeft(LAMBDA s, i : AddNode(s, MCPeers[i], servers[i], {}),
           NewState(0, drop, dup), <<1, 2, 3>>)

\* TestBfs1 / TestBasic (only s1 proposes v1) and TestBasic2 (s1 proposes
\* v1, s2 proposes v2).
RootBfs1   == PaxosRoot(FALSE, FALSE, <<PX!NewServer(1, "v1"), PX!NewServer(2, Nil), PX!NewServer(3, Nil)>>)
RootBasic2 == PaxosRoot(FALSE, FALSE, <<PX!NewServer(1, "v1"), PX!NewServer(2, "v2"), PX!NewServer(3, Nil)>>)

\* consensusState: with drop-off and duplication, s2 and s3 have already
\* accepted v3 at ballot 1 while s1 proposes v1.
RootConsensus ==
  PaxosRoot(TRUE, TRUE,
            << PX!NewServer(1, "v1"),
               [PX!NewServer(2, Nil) EXCEPT !.n_a = 1, !.v_a = "v3"],
               [PX!NewServer(3, Nil) EXCEPT !.n_a = 1, !.v_a = "v3"] >>)

\* TestBfs2 / TestBfs3: s1 is in the Accept phase of ballot 1 with its own
\* accept counted; the two other AcceptRequests are appended to s.Network
\* directly, so networkHash does not include them.
RootBfs2 ==
  LET s1 == [PX!NewServer(1, "v1") EXCEPT
               !.proposer.N = 1, !.proposer.V = "v1", !.proposer.InitialValue = "v1",
               !.proposer.Responses = <<TRUE, FALSE, FALSE>>, !.proposer.SuccessCount = 1,
               !.proposer.ResponseCount = 1, !.proposer.Phase = "accept",
               !.n_p = 1, !.n_a = 1, !.v_a = "v1"]
      s0 == PaxosRoot(FALSE, FALSE, <<s1, [PX!NewServer(2, Nil) EXCEPT !.n_p = 1],
                                          [PX!NewServer(3, Nil) EXCEPT !.n_p = 1]>>)
  IN [s0 EXCEPT !.network = <<PX!AcceptRequest("s1", "s2", 1, "v1", 0),
                              PX!AcceptRequest("s1", "s3", 1, "v1", 0)>>]

\* TestPartition1: s1 (which blocks s3) accepted v1 at ballot 1; s3 (which
\* blocks s1) is proposing v3 at ballot 2 with its own promise counted, and
\* its ProposeRequests to s2 and s1 are appended to s.Network directly.
RootPartition1 ==
  LET s1 == [PX!NewServer(1, Nil) EXCEPT !.n_p = 1, !.n_a = 1, !.v_a = "v1"]
      s3 == [PX!NewServer(3, "v3") EXCEPT
               !.n_p = 2, !.proposer.Phase = "propose", !.proposer.N = 2,
               !.proposer.V = "v3", !.proposer.SuccessCount = 1,
               !.proposer.ResponseCount = 1, !.proposer.Responses = <<FALSE, FALSE, TRUE>>]
      s0 == FoldLeft(LAMBDA s, i : AddNode(s, MCPeers[i], <<s1, [PX!NewServer(2, Nil) EXCEPT !.n_p = 1], s3>>[i],
                                           <<{"s3"}, {}, {"s1"}>>[i]),
                     NewState(0, FALSE, FALSE), <<1, 2, 3>>)
  IN [s0 EXCEPT !.network = <<PX!ProposeRequest("s3", "s2", 2, 0),
                              PX!ProposeRequest("s3", "s1", 2, 0)>>]

=============================================================================
