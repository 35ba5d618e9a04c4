----------------------------- MODULE PaxosWalk -----------------------------
(***************************************************************************)
(* The Paxos servers explored the way the paxos scenario tests explore     *)
(* them: StateWalk's NextStates steps from a test root, up to MaxDepth.    *)
(* The view is the configuration a State stands for, as BfsFindAll's       *)
(* explored set dedupes it (NextStatesExhaustive in walk_pass shows a      *)
(* State's successors depend on its configuration only).                   *)
(***************************************************************************)
EXTENDS StateWalk, PaxosBinding, FiniteSets

ConfigView == Config(state)

Servers == DOMAIN state.nodes

Majority(S) == 2 * Cardinality(S) > Len(MCPeers)

InFlight(type) == {m \in Range(state.network) : m.type = type}

\* The values decided by some server (globalAgreedValue's candidates).
Agreed(nodes) == {nodes[a].agreedValue : a \in DOMAIN nodes} \ {Nil}

(* ----------------------------- properties ------------------------------ *)

\* The heart of Paxos: once a majority has accepted value v at ballot b,
\* every accept request of a ballot >= b in flight carries v, every server
\* that accepted at a ballot >= b accepted v, every decide in flight
\* carries v and every decided server decided v.  Ballots are n_p + 1, not
\* unique per proposer, and a proposer adopts the highest accepted value
\* among the promises it counted.
ChosenSafe ==
  \A b \in {state.nodes[a].n_a : a \in Servers} \ {0}, v \in {state.nodes[a].v_a : a \in Servers} :
    Majority({a \in Servers : state.nodes[a].n_a = b /\ state.nodes[a].v_a = v}) =>
      /\ \A m \in InFlight("accept-request") : m.n >= b => m.v = v
      /\ \A a \in Servers : state.nodes[a].n_a >= b => state.nodes[a].v_a = v
      /\ \A m \in InFlight("decide-request") : m.v = v
      /\ Agreed(state.nodes) \subseteq {v}

=============================================================================
