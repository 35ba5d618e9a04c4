------------------------------ MODULE StateWalk ------------------------------
(***************************************************************************)
(* Drives State.NextStates the way the pingpong TestBasic loop does: from *)
(* a registered root State, repeatedly replace the State by one of the     *)
(* children NextStates returns, up to MaxDepth.  Every State the engine   *)
(* can build along the way is visited, and the invariants below relate    *)
(* its incrementally kept bookkeeping (hash sums, network order, Equals)  *)
(* to what the State stands for: a node table and a bag of in-flight     *)
(* messages.                                                               *)
(***************************************************************************)
EXTENDS EngineRef

CONSTANTS
  Roots,      \* root States built by NewState / AddNode / Receive
  MaxDepth    \* bound on State.Depth

VARIABLE state

Init == state \in Roots

\* One NextStates call; the walker keeps no arena, so Prev is nil.
Step ==
  /\ state.depth < MaxDepth
  /\ state' \in Range(NextStates(state, NoPrev))

Next == Step

Spec == Init /\ [][Next]_state

(* ----------------------------- properties ------------------------------ *)

TypeOK ==
  /\ state.depth \in 0..MaxDepth
  /\ state.network \in Seq(DOMAIN ToBag(state.network))
  /\ state.nodeHash \in 0..HashMod - 1
  /\ state.networkHash \in 0..HashMod - 1
  /\ state.hashSorted \in BOOLEAN
  /\ Range(state.addresses) = DOMAIN state.nodes

\* AddNode, UpdateNode, Receive and DeleteMessage keep nodeHash and
\* networkHash equal to the wrapped sums of the current nodes' and messages'
\* hashes, although no step ever recomputes them.
HashSumsConsistent ==
  /\ state.nodeHash = FoldFunction(LAMBDA n, acc : acc + NodeHash(n), 0, state.nodes) % HashMod
  /\ state.networkHash = SumHashes(state.network) % HashMod

\* NextStates, with its swap-removal of the delivered message, its drained
\* handler responses and its per-index fan-out, yields exactly the
\* successors of the reference semantics -- none missing, none invented.
NextStatesExhaustive ==
  {Config(c) : c \in Range(NextStates(state, NoPrev))} = RefSuccessors(state, Config(state))

\* State.Equals between two children of the same State (whose networks
\* differ in order after swap-removal) holds exactly when they stand for the
\* same configuration, equal States have equal Hash(), and asking again
\* after the in-place hash sort gives the same answer.
EqualsMatchesConfig ==
  LET kids == NextStates(state, NoPrev)
  IN \A i, j \in 1..Len(kids) :
       LET r == Equals(kids[i], kids[j])
       IN /\ r.eq = (Config(kids[i]) = Config(kids[j]))
          /\ r.eq => Hash(kids[i]) = Hash(kids[j])
          /\ Equals(r.self, r.other).eq = r.eq

=============================================================================
