------------------------------ MODULE EngineRef ------------------------------
(***************************************************************************)
(* A reference semantics for the checker engine, against which module      *)
(* Engine's State operations and the searches are checked.  A             *)
(* configuration is what a State stands for: the node table and the bag   *)
(* of in-flight messages; network order, depth, hash sums, the sort flag  *)
(* and lineage are bookkeeping and are not part of it.  The per-run       *)
(* settings (drop-off, duplication, block lists) are read from a State.   *)
(***************************************************************************)
EXTENDS Engine, Bags, FiniteSets

Config(s) == [nodes |-> s.nodes, network |-> ToBag(s.network)]

One(m) == SetToBag({m})

\* The one-step successors of configuration c under the settings of s:
\* each in-flight message is either delivered locally (From = To), lost to
\* an unknown destination or a partition, or -- when reachable -- dropped
\* (if enabled), handled, or handled and kept (if duplication is enabled);
\* each node with a pending timer may fire it.  Every handler alternative is
\* a successor.
RefSuccessors(s, c) ==
  LET Handled(m, keep) ==
        { [nodes   |-> [c.nodes EXCEPT ![To(m)] = alt.node],
           network |-> (IF keep THEN c.network ELSE c.network (-) One(m)) (+) ToBag(alt.resp)]
          : alt \in Range(MessageHandler(c.nodes[To(m)], m)) }
      Removed(m) == {[nodes |-> c.nodes, network |-> c.network (-) One(m)]}
      OfMessage(m) ==
        IF From(m) = To(m) THEN Handled(m, FALSE)
        ELSE IF To(m) \notin DOMAIN c.nodes \/ From(m) \in s.blockLists[To(m)] THEN Removed(m)
        ELSE (IF s.isDropOff THEN Removed(m) ELSE {})
             \cup Handled(m, FALSE)
             \cup (IF s.isDuplicate THEN Handled(m, TRUE) ELSE {})
      Fired(a) ==
        IF ~NextTimer(c.nodes[a]) THEN {}
        ELSE { [nodes   |-> [c.nodes EXCEPT ![a] = alt.node],
                network |-> c.network (+) ToBag(alt.resp)]
               : alt \in Range(TriggerTimer(c.nodes[a])) }
  IN UNION {OfMessage(m) : m \in BagToSet(c.network)} \cup UNION {Fired(a) : a \in DOMAIN c.nodes}

\* The configurations reachable from root in at most k steps.
RECURSIVE ReachWithin(_, _, _, _)
ReachWithin(root, frontier, seen, k) ==
  IF k = 0 \/ frontier = {} THEN seen
  ELSE LET new == UNION {RefSuccessors(root, c) : c \in frontier} \ seen
       IN ReachWithin(root, new, seen \cup new, k - 1)

Reach(root, k) == ReachWithin(root, {Config(root)}, {Config(root)}, k)

=============================================================================
