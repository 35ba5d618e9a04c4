------------------------------- MODULE Paxos -------------------------------
(***************************************************************************)
(* The single-decree Paxos servers of part5_pkg/paxos, written as the      *)
(* Node/Message/Timer capabilities the checker engine (module Engine)      *)
(* consumes.  Every server is proposer and acceptor at once.  A node is a  *)
(* record with the fields of ServerAttribute, a handler returns the        *)
(* sequence of alternative nodes, each paired with the messages its        *)
(* HandlerResponse() drains.  The TimeoutTimer is stateless and shared by  *)
(* every copy of a server, so it is kept as a boolean: the pointer is set. *)
(***************************************************************************)
EXTENDS Integers, Sequences

CONSTANTS
  Peers,       \* server.peers: the sequence of server addresses
  Nil,         \* a nil interface{} value
  Fnv(_, _)    \* base.Hash(prefix, o): FNV-64 of prefix and "%v" of o

\* Proposer.Phase and the phase argument of the two handlers.
Propose == "propose"
Accept  == "accept"
Decide  == "decide"

N == Len(Peers)

(* ---------------------------- messages --------------------------------- *)

ProposeRequest(from, to, n, sid) ==
  [type |-> "propose-request", from |-> from, to |-> to, n |-> n, sessionId |-> sid]
ProposeResponse(from, to, ok, n_p, n_a, v_a, sid) ==
  [type |-> "propose-response", from |-> from, to |-> to, ok |-> ok, n_p |-> n_p,
   n_a |-> n_a, v_a |-> v_a, sessionId |-> sid]
AcceptRequest(from, to, n, v, sid) ==
  [type |-> "accept-request", from |-> from, to |-> to, n |-> n, v |-> v, sessionId |-> sid]
AcceptResponse(from, to, ok, n_p, sid) ==
  [type |-> "accept-response", from |-> from, to |-> to, ok |-> ok, n_p |-> n_p, sessionId |-> sid]
DecideRequest(from, to, v, sid) ==
  [type |-> "decide-request", from |-> from, to |-> to, v |-> v, sessionId |-> sid]

From(m) == m.from
To(m)   == m.to

\* Hash() prints every field of the message.
MsgHash(m) == Fnv(m.type, [f \in DOMAIN m \ {"type"} |-> m[f]])

\* The Equals methods compare the ends, the SessionId and the payload --
\* except that ProposeResponse.Equals leaves out N_p.
MsgEquals(m1, m2) ==
  /\ m1.type = m2.type
  /\ IF m1.type = "propose-response"
     THEN \A f \in DOMAIN m1 \ {"n_p"} : m1[f] = m2[f]
     ELSE m1 = m2

(* ----------------------------- nodes ----------------------------------- *)

NewProposer(initialValue) ==
  [N |-> 0, Phase |-> "", N_a_max |-> 0, V |-> Nil, SuccessCount |-> 0,
   ResponseCount |-> 0, Responses |-> [i \in 1..N |-> FALSE], SessionId |-> 0,
   InitialValue |-> initialValue]

\* NewServer(peers, me, proposedValue); me is 1-based here.
NewServer(me, proposedValue) ==
  [me |-> me, n_p |-> 0, n_a |-> 0, v_a |-> Nil, agreedValue |-> Nil,
   proposer |-> NewProposer(proposedValue), timeout |-> TRUE]

Address(s) == Peers[s.me]

\* address2Index: the position of target in peers, or -1.
Address2Index(target) ==
  IF \E i \in 1..N : Peers[i] = target THEN CHOOSE i \in 1..N : Peers[i] = target ELSE -1

max(a, b) == IF a > b THEN a ELSE b

Alt(node, resp) == [node |-> node, resp |-> resp]

\* "return []base.Node{server}": the server unchanged, nothing sent.
Same(s) == <<Alt(s, <<>>)>>

\* sendPropose: a new session with N = n_p + 1, unless there is nothing to
\* propose.
SendPropose(s) ==
  IF s.proposer.InitialValue = Nil THEN Alt(s, <<>>)
  ELSE LET p == [s.proposer EXCEPT !.SessionId = @ + 1, !.Phase = Propose,
                   !.N = s.n_p + 1, !.N_a_max = 0, !.V = s.proposer.InitialValue,
                   !.ResponseCount = 0, !.Responses = [i \in 1..N |-> FALSE],
                   !.SuccessCount = 0]
       IN Alt([s EXCEPT !.proposer = p],
              [i \in 1..N |-> ProposeRequest(Address(s), Peers[i], p.N, p.SessionId)])

\* sendAccept and sendDecide: enter the phase, clear the tallies, send to
\* every peer.
EnterPhase(s, phase) ==
  [s EXCEPT !.proposer.Phase = phase, !.proposer.Responses = [i \in 1..N |-> FALSE],
            !.proposer.ResponseCount = 0, !.proposer.SuccessCount = 0]

SendAccept(s) ==
  Alt(EnterPhase(s, Accept),
      [i \in 1..N |-> AcceptRequest(Address(s), Peers[i], s.proposer.N, s.proposer.V,
                                    s.proposer.SessionId)])

SendDecide(s) ==
  Alt(EnterPhase(s, Decide),
      [i \in 1..N |-> DecideRequest(Address(s), Peers[i], s.proposer.V, s.proposer.SessionId)])

\* Mutant: a promise's accepted proposal is never adopted.
TallyNoAdopt(s, i, m, phase) ==
  LET p0 == [s.proposer EXCEPT !.Responses[i] = TRUE, !.ResponseCount = @ + 1]
      p1 == IF ~m.ok THEN p0 ELSE [p0 EXCEPT !.SuccessCount = @ + 1]
  IN [s EXCEPT !.proposer = p1, !.n_p = IF m.ok THEN @ ELSE max(@, m.n_p)]

\* A fresh response from peer i is tallied; a promise carries the highest
\* accepted proposal, a rejection the peer's n_p.
Tally(s, i, m, phase) ==
  LET p0 == [s.proposer EXCEPT !.Responses[i] = TRUE, !.ResponseCount = @ + 1]
      adopt == phase = Propose /\ m.ok /\ m.n_a > p0.N_a_max
      p1 == IF ~m.ok THEN p0
            ELSE [p0 EXCEPT !.SuccessCount = @ + 1,
                            !.N_a_max = IF adopt THEN m.n_a ELSE @,
                            !.V = IF adopt THEN m.v_a ELSE @]
  IN [s EXCEPT !.proposer = p1, !.n_p = IF m.ok THEN @ ELSE max(@, m.n_p)]

\* proposerHandler: a response of the current phase and session from a
\* peer not heard from yet.  With a majority of successes the proposer may
\* move on; unless every peer answered with a majority, it may also wait.
ProposerHandler(s, m, phase) ==
  LET i == Address2Index(m.from)
  IN IF s.proposer.Phase # phase THEN Same(s)
     ELSE IF i = -1 \/ s.proposer.Responses[i] THEN Same(s)
     ELSE IF m.sessionId # s.proposer.SessionId THEN Same(s)
     ELSE LET sub == Tally(s, i, m, phase)
              majority == sub.proposer.SuccessCount > N \div 2
          IN (IF majority
              THEN <<IF phase = Propose THEN SendAccept(sub) ELSE SendDecide(sub)>>
              ELSE <<>>)
             \o (IF sub.proposer.ResponseCount < N \/ ~majority
                 THEN <<Alt(sub, <<>>)>> ELSE <<>>)

\* acceptorHandler.
AcceptorHandler(s, m, phase) ==
  CASE phase = Propose ->
         IF m.n > s.n_p
         THEN <<Alt([s EXCEPT !.n_p = m.n],
                    <<ProposeResponse(Address(s), m.from, TRUE, m.n, s.n_a, s.v_a, m.sessionId)>>)>>
         ELSE <<Alt(s, <<ProposeResponse(Address(s), m.from, FALSE, s.n_p, 0, Nil, m.sessionId)>>)>>
    [] phase = Accept ->
         IF m.n >= s.n_p
         THEN <<Alt([s EXCEPT !.n_p = m.n, !.n_a = m.n, !.v_a = m.v],
                    <<AcceptResponse(Address(s), m.from, TRUE, m.n, m.sessionId)>>)>>
         ELSE <<Alt(s, <<AcceptResponse(Address(s), m.from, FALSE, s.n_p, m.sessionId)>>)>>
    [] phase = Decide ->
         <<Alt([s EXCEPT !.agreedValue = m.v], <<>>)>>

MessageHandler(s, m) ==
  CASE m.type = "propose-response" -> ProposerHandler(s, m, Propose)
    [] m.type = "accept-response"  -> ProposerHandler(s, m, Accept)
    [] m.type = "propose-request"  -> AcceptorHandler(s, m, Propose)
    [] m.type = "accept-request"   -> AcceptorHandler(s, m, Accept)
    [] m.type = "decide-request"   -> AcceptorHandler(s, m, Decide)
    [] OTHER                       -> Same(s)

NextTimer(s) == s.timeout

\* TriggerTimer: a tick starts a new round (StartPropose) on a copy.
TriggerTimer(s) == IF ~s.timeout THEN <<>> ELSE <<SendPropose(s)>>

\* Hash() prints all of ServerAttribute.
NodeHash(s) == Fnv("paxos", s)

\* Server.Equals compares me, n_p, n_a, v_a, the timer's presence and the
\* proposer's N, V, N_a_max, Phase, InitialValue, counts and Responses --
\* not agreedValue, and not SessionId.
NodeEquals(s1, s2) ==
  /\ s1.me = s2.me /\ s1.n_p = s2.n_p /\ s1.n_a = s2.n_a /\ s1.v_a = s2.v_a
  /\ s1.timeout = s2.timeout
  /\ \A f \in DOMAIN s1.proposer \ {"SessionId"} : s1.proposer[f] = s2.proposer[f]

=============================================================================
