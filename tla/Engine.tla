------------------------------- MODULE Engine -------------------------------
(***************************************************************************)
(* The State snapshot of the explicit-state checker (part5_pkg/base):      *)
(* state.go, the event taxonomy of event.go, and the hash sort of util.go. *)
(* A State is an immutable value, so this module is a library of           *)
(* operators: each returns the State (or sequence of States) the Go method *)
(* builds.  The protocol under test is supplied through the constant       *)
(* operators, one per method of the Node and Message interfaces.           *)
(*                                                                         *)
(* The Prev pointer is an index into the arena of States a search keeps   *)
(* alive; NoPrev stands for nil.  A State's fields nodes (a function on   *)
(* registered addresses), addresses, blockLists, Network, Depth,          *)
(* isDropOff, isDuplicate, nodeHash, networkHash and hashSorted are record *)
(* fields of the same names.  Hash sums keep their wrap-around, with      *)
(* HashWidth bits instead of 64.                                           *)
(***************************************************************************)
EXTENDS Integers, Sequences, SequencesExt, TLC

CONSTANTS
  HashWidth,              \* width of Node.Hash, Message.Hash and the sums
  MessageHandler(_, _),   \* Node.MessageHandler: Seq of [node, resp]
  NextTimer(_),           \* ~IsNil(Node.NextTimer())
  TriggerTimer(_),        \* Node.TriggerTimer: Seq of [node, resp]
  NodeHash(_),            \* Node.Hash
  NodeEquals(_, _),       \* Node.Equals
  MsgHash(_),             \* Message.Hash
  MsgEquals(_, _),        \* Message.Equals
  From(_), To(_),         \* Message.From, Message.To
  StateHash(_, _)         \* fnv64 over BigEndian(nodeHash) ++ BigEndian(networkHash)

ASSUME HashWidth \in Nat \ {0}

HashMod == 2^HashWidth
NoPrev  == 0

(* ------------------------------ events --------------------------------- *)

EmptyEvent == [action |-> "empty", instance |-> "nil"]
Ev(action, m) == [action |-> action, instance |-> m]
TriggerEvent(addr) == [action |-> "trigger", instance |-> addr]

(* ----------------------------- building -------------------------------- *)

NewState(depth, isDropOff, isDuplicate) ==
  [nodes |-> <<>>, addresses |-> <<>>, blockLists |-> <<>>, network |-> <<>>,
   depth |-> depth, isDropOff |-> isDropOff, isDuplicate |-> isDuplicate,
   prev |-> NoPrev, event |-> EmptyEvent,
   nodeHash |-> 0, networkHash |-> 0, hashSorted |-> FALSE]

\* Mutant: registration that forgets to record the address in the ordered
\* list NextStates iterates for timers.
AddNodeNoAddress(s, address, node, blockList) ==
  [s EXCEPT !.nodeHash   = (@ + NodeHash(node)) % HashMod,
            !.nodes      = (address :> node) @@ @,
            !.blockLists = (address :> blockList) @@ @]

\* A block list is kept as the set of senders it names (isBlocked is a
\* membership scan and a nil list blocks nobody).
AddNode(s, address, node, blockList) ==
  LET known == address \in DOMAIN s.nodes
  IN [s EXCEPT
        !.nodeHash   = (@ - (IF known THEN NodeHash(s.nodes[address]) ELSE 0)
                          + NodeHash(node)) % HashMod,
        !.addresses  = IF known THEN @ ELSE Append(@, address),
        !.nodes      = (address :> node) @@ @,
        !.blockLists = (address :> blockList) @@ @]

SumHashes(msgs) == FoldLeft(LAMBDA acc, m : acc + MsgHash(m), 0, msgs)

Receive(s, msgs) ==
  [s EXCEPT !.network     = @ \o msgs,
            !.networkHash = (@ + SumHashes(msgs)) % HashMod,
            !.hashSorted  = IF msgs = <<>> THEN @ ELSE FALSE]

\* Mutant: the replaced node's hash is not subtracted.
UpdateNodeNoSub(s, address, alt) ==
  Receive([s EXCEPT !.nodeHash = (@ + NodeHash(alt.node)) % HashMod,
                    !.nodes[address] = alt.node],
          alt.resp)

\* UpdateNode swaps the node in and merges what its HandlerResponse() drains.
UpdateNode(s, address, alt) ==
  Receive([s EXCEPT
             !.nodeHash = (@ - NodeHash(s.nodes[address]) + NodeHash(alt.node)) % HashMod,
             !.nodes[address] = alt.node],
          alt.resp)

\* Mutant: the child keeps its Prev unset.
InheritNoPrev(s, sid, event) == [s EXCEPT !.depth = @ + 1, !.prev = NoPrev, !.event = event]

\* Mutant: the child keeps its parent's depth.
CloneNoDepth(s) == [s EXCEPT !.prev = NoPrev, !.event = EmptyEvent]

Clone(s) == [s EXCEPT !.depth = @ + 1, !.prev = NoPrev, !.event = EmptyEvent]

Inherit(s, sid, event) == [Clone(s) EXCEPT !.prev = sid, !.event = event]

\* Mutant: the network is truncated instead of the i-th message removed.
DeleteMessageTruncate(s, i) ==
  [s EXCEPT !.network     = SubSeq(@, 1, Len(@) - 1),
            !.networkHash = (@ - MsgHash(s.network[i])) % HashMod,
            !.hashSorted  = FALSE]

\* Remove the i-th message: the last one is moved into its slot.
DeleteMessage(s, i) ==
  LET n == Len(s.network)
  IN [s EXCEPT !.network     = SubSeq([@ EXCEPT ![i] = s.network[n]], 1, n - 1),
               !.networkHash = (@ - MsgHash(s.network[i])) % HashMod,
               !.hashSorted  = FALSE]

(* ----------------------------- equality -------------------------------- *)

\* util.go hashSort: a stable sort of the messages by Message.Hash alone.
HashSort(msgs) ==
  LET before(i, j) == \/ MsgHash(msgs[i]) < MsgHash(msgs[j])
                      \/ MsgHash(msgs[i]) = MsgHash(msgs[j]) /\ i < j
      order == SortSeq([i \in 1..Len(msgs) |-> i], before)
  IN [k \in 1..Len(msgs) |-> msgs[order[k]]]

SortNetwork(s) ==
  IF s.hashSorted THEN s ELSE [s EXCEPT !.network = HashSort(@), !.hashSorted = TRUE]

\* Mutant: networks compared position by position without the hash sort.
EqualsUnsorted(s, o) ==
  [eq |-> /\ DOMAIN s.nodes = DOMAIN o.nodes
          /\ Len(s.network) = Len(o.network)
          /\ s.nodeHash = o.nodeHash /\ s.networkHash = o.networkHash
          /\ \A a \in DOMAIN s.nodes : NodeEquals(s.nodes[a], o.nodes[a])
          /\ \A i \in 1..Len(s.network) : MsgEquals(s.network[i], o.network[i]),
   self |-> s, other |-> o]

\* State.Equals, with its side effect: when the cheap checks and the node
\* comparison pass, both networks are sorted in place.  The result carries
\* the verdict and both States as Equals leaves them.
Equals(s, o) ==
  IF \/ DOMAIN s.nodes # DOMAIN o.nodes
     \/ Len(s.network) # Len(o.network)
     \/ s.nodeHash # o.nodeHash \/ s.networkHash # o.networkHash
     \/ \E a \in DOMAIN s.nodes : ~NodeEquals(s.nodes[a], o.nodes[a])
  THEN [eq |-> FALSE, self |-> s, other |-> o]
  ELSE LET s2 == SortNetwork(s)
           o2 == SortNetwork(o)
       IN [eq |-> \A i \in 1..Len(s2.network) : MsgEquals(s2.network[i], o2.network[i]),
           self |-> s2, other |-> o2]

Hash(s) == StateHash(s.nodeHash, s.networkHash)

(* ------------------------ transition generation ------------------------ *)

IsBlocked(blockList, candidate) == candidate \in blockList

IsLocalCall(s, i) == From(s.network[i]) = To(s.network[i])

IsMessageReachable(s, i) ==
  LET m == s.network[i]
  IN /\ To(m) \in DOMAIN s.nodes
     /\ ~IsBlocked(s.blockLists[To(m)], From(m))

\* The child isMessageReachable builds for an unreachable message.
UnreachableState(s, sid, i) ==
  LET m == s.network[i]
      action == IF To(m) \notin DOMAIN s.nodes THEN "unknown destination" ELSE "partition"
  IN DeleteMessage(Inherit(s, sid, Ev(action, m)), i)

DropOffState(s, sid, i) == DeleteMessage(Inherit(s, sid, Ev("drop off", s.network[i])), i)

HandleMessage(s, sid, i, deleteMessage) ==
  LET m     == s.network[i]
      event == Ev(IF deleteMessage THEN "handle" ELSE "handle duplicate", m)
      alts  == MessageHandler(s.nodes[To(m)], m)
      base  == IF deleteMessage THEN DeleteMessage(Inherit(s, sid, event), i)
               ELSE Inherit(s, sid, event)
  IN [k \in 1..Len(alts) |-> UpdateNode(base, To(m), alts[k])]

TriggerNodeTimer(s, sid, address) ==
  LET node == s.nodes[address]
      alts == TriggerTimer(node)
  IN IF ~NextTimer(node) THEN <<>>
     ELSE [k \in 1..Len(alts) |-> UpdateNode(Inherit(s, sid, TriggerEvent(address)),
                                             address, alts[k])]

\* Every successor NextStates creates for the i-th in-flight message.
MessageStates(s, sid, i) ==
  IF IsLocalCall(s, i) THEN HandleMessage(s, sid, i, TRUE)
  ELSE IF ~IsMessageReachable(s, i) THEN <<UnreachableState(s, sid, i)>>
  ELSE (IF s.isDropOff THEN <<DropOffState(s, sid, i)>> ELSE <<>>)
       \o HandleMessage(s, sid, i, TRUE)
       \o (IF s.isDuplicate THEN HandleMessage(s, sid, i, FALSE) ELSE <<>>)

\* State.NextStates of the State s kept at arena index sid.
NextStates(s, sid) ==
  FlattenSeq(<< FlattenSeq([i \in 1..Len(s.network) |-> MessageStates(s, sid, i)]),
                FlattenSeq([k \in 1..Len(s.addresses) |->
                              TriggerNodeTimer(s, sid, s.addresses[k])]) >>)

(* ------------------------- RandomNextState ----------------------------- *)

\* rand.Intn(n) panics for n = 0; a panic is an outcome of its own.
Panic == [panic |-> TRUE, state |-> "none"]
Outcome(st) == [panic |-> FALSE, state |-> st]

\* "if len == 1 return [0] else return [rand.Intn(len)]".
PickOne(states) ==
  IF states = <<>> THEN {Panic} ELSE {Outcome(states[k]) : k \in 1..Len(states)}

\* The set of outcomes RandomNextState can produce: rand supplies the
\* choice of message or timer, of drop / handle / duplicate, and of handler
\* alternative.
RandomNextState(s, sid) ==
  LET timerAddresses == {a \in DOMAIN s.nodes : NextTimer(s.nodes[a])}
      n == Len(s.network)
  IN IF n = 0 /\ timerAddresses = {} THEN {Panic}
     ELSE UNION {
            IF ~IsMessageReachable(s, i) THEN {Outcome(UnreachableState(s, sid, i))}
            ELSE {Outcome(DropOffState(s, sid, i))}
                 \cup PickOne(HandleMessage(s, sid, i, TRUE))
                 \cup PickOne(HandleMessage(s, sid, i, FALSE))
            : i \in 1..n }
          \cup UNION { PickOne(TriggerNodeTimer(s, sid, a)) : a \in timerAddresses }

=============================================================================
