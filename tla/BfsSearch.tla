------------------------------ MODULE BfsSearch ------------------------------
(***************************************************************************)
(* BfsFind and BfsFindAll of part5_pkg/base/search.go, one loop iteration *)
(* per step.  The States the search keeps alive (the explored set, hence   *)
(* the queue and every Prev target) live in the arena, a sequence indexed *)
(* by the Prev pointers; explored is stateHashMap, a map from Hash() to   *)
(* the bucket of arena indices added under it, in insertion order.         *)
(* A popped State's successors wait in pending while the inner loop visits *)
(* them.  State.Equals sorts networks in place, so a lookup in the        *)
(* explored set rewrites the arena entries it compares with.              *)
(*                                                                         *)
(* The call's arguments -- which search, the initial State, the depth     *)
(* bound and the validate and goal predicates -- are chosen once, in Init. *)
(***************************************************************************)
EXTENDS EngineRef

CONSTANTS
  Roots,              \* initial States built by NewState / AddNode / Receive
  Limits,             \* depth bounds the caller passes
  ValidateNames,      \* validate predicates the caller passes ...
  Validate(_, _, _),  \* ... Validate(name, newState, its Prev or itself)
  GoalNames,          \* goal predicates the caller passes ...
  Goal(_, _)          \* ... Goal(name, node table of the state)

VARIABLES
  call,      \* [algorithm, root, limit, validate, goal]: the arguments
  arena,     \* the States kept alive, indexed by Prev pointers
  explored,  \* stateHashMap: Hash() -> Seq of arena indices
  queue,     \* the FIFO queue, of arena indices
  pending,   \* successors of the popped State not yet visited
  result,    \* SearchResult{Success, Targets, Invalidate, N}
  pc         \* "loop" (outer loop), "children" (inner loop), "done"

vars == <<call, arena, explored, queue, pending, result, pc>>

\* SearchResult; Targets are arena indices, Invalidate is <<>> (nil) or
\* <<state>>.
NoResult == [success |-> FALSE, targets |-> <<>>, invalidate |-> <<>>, n |-> 0]

ParentOf(s) == IF s.prev = NoPrev THEN s ELSE arena[s.prev]

Valid(s) == Validate(call.validate, s, ParentOf(s))

(* ------------------------- the explored set ---------------------------- *)

\* stateHashMap.has: compare with each State of the bucket in turn until one
\* Equals x; returns the verdict, the arena and x as the Equals calls leave
\* them.
\* Mutant: only the first State of the bucket is compared.
LookupFirstOnly(ar, ids, x) ==
  IF ids = <<>> THEN [found |-> FALSE, arena |-> ar, state |-> x]
  ELSE LET r == Equals(ar[Head(ids)], x)
       IN [found |-> r.eq, arena |-> [ar EXCEPT ![Head(ids)] = r.self], state |-> r.other]

RECURSIVE Lookup(_, _, _)
Lookup(ar, ids, x) ==
  IF ids = <<>> THEN [found |-> FALSE, arena |-> ar, state |-> x]
  ELSE LET r == Equals(ar[Head(ids)], x)
           ar2 == [ar EXCEPT ![Head(ids)] = r.self]
       IN IF r.eq THEN [found |-> TRUE, arena |-> ar2, state |-> r.other]
          ELSE Lookup(ar2, Tail(ids), r.other)

Bucket(h) == IF h \in DOMAIN explored THEN explored[h] ELSE <<>>

\* stateHashMap.add of the State at arena index id.
AddExplored(h, id) == (h :> Append(Bucket(h), id)) @@ explored

(* ------------------------------ actions -------------------------------- *)

StartSearch(algorithm, root, limit, v, g) ==
  /\ call = [algorithm |-> algorithm, root |-> root, limit |-> limit,
             validate |-> v, goal |-> g]
  /\ arena = <<root>>
  /\ explored = (Hash(root) :> <<1>>)
  /\ queue = <<1>>
  /\ pending = <<>>

\* BfsFind never validates the initial State.  BfsFindAll does, and panics
\* on a negative depth, so it is only called with depth >= 0.
Init ==
  \E root \in Roots, limit \in Limits, v \in ValidateNames, g \in GoalNames :
    \/ /\ StartSearch("BfsFind", root, limit, v, g)
       /\ result = NoResult
       /\ pc = "loop"
    \/ /\ limit >= 0
       /\ StartSearch("BfsFindAll", root, limit, v, g)
       /\ IF Validate(v, root, root)
          THEN result = NoResult /\ pc = "loop"
          ELSE result = [NoResult EXCEPT !.invalidate = <<root>>] /\ pc = "done"

Popped == arena[Head(queue)]

\* Mutant: expansion stops one level above the bound.
AtLimitEarly(s) == s.depth >= call.limit - 1

AtLimit(s) ==
  IF call.algorithm = "BfsFind" THEN call.limit >= 0 /\ s.depth = call.limit
  ELSE s.depth = call.limit

\* BfsFind returns the first dequeued State that satisfies the goal.
FoundGoal ==
  /\ pc = "loop" /\ queue # <<>>
  /\ call.algorithm = "BfsFind" /\ Goal(call.goal, Popped.nodes)
  /\ result' = [result EXCEPT !.success = TRUE, !.targets = <<Head(queue)>>, !.n = @ + 1]
  /\ pc' = "done"
  /\ queue' = Tail(queue)
  /\ UNCHANGED <<call, arena, explored, pending>>

\* Dequeue a State (BfsFindAll records it if it is a goal) and generate its
\* successors, unless it sits at the depth bound.
Dequeue ==
  /\ pc = "loop" /\ queue # <<>>
  /\ ~(call.algorithm = "BfsFind" /\ Goal(call.goal, Popped.nodes))
  /\ result' = [result EXCEPT
                  !.n = @ + 1,
                  !.targets = IF call.algorithm = "BfsFindAll" /\ Goal(call.goal, Popped.nodes)
                              THEN Append(@, Head(queue)) ELSE @]
  /\ queue' = Tail(queue)
  /\ IF AtLimit(Popped)
     THEN pending' = <<>> /\ pc' = "loop"
     ELSE pending' = NextStates(Popped, Head(queue)) /\ pc' = "children"
  /\ UNCHANGED <<call, arena, explored>>

LookupNext == Lookup(arena, Bucket(Hash(Head(pending))), Head(pending))

\* Mutant: a skipped successor is not taken off the pending list.
SkipKeepsPending ==
  /\ pc = "children" /\ pending # <<>>
  /\ LookupNext.found
  /\ arena' = LookupNext.arena
  /\ UNCHANGED <<call, explored, queue, pending, result, pc>>

\* A successor already in the explored set is skipped.
SkipExplored ==
  /\ pc = "children" /\ pending # <<>>
  /\ LookupNext.found
  /\ arena' = LookupNext.arena
  /\ pending' = Tail(pending)
  /\ UNCHANGED <<call, explored, queue, result, pc>>

\* A new successor that fails validate ends the search: a bug is found.
ReportInvalid ==
  /\ pc = "children" /\ pending # <<>>
  /\ ~LookupNext.found
  /\ ~Valid(LookupNext.state)
  /\ arena' = LookupNext.arena
  /\ result' = [result EXCEPT !.success = FALSE, !.invalidate = <<LookupNext.state>>]
  /\ pc' = "done"
  /\ UNCHANGED <<call, explored, queue, pending>>

\* Mutant: the new State is pushed at the front of the queue (LIFO).
AdmitLifo ==
  /\ pc = "children" /\ pending # <<>>
  /\ ~LookupNext.found
  /\ Valid(LookupNext.state)
  /\ arena' = Append(LookupNext.arena, LookupNext.state)
  /\ explored' = AddExplored(Hash(LookupNext.state), Len(arena) + 1)
  /\ queue' = <<Len(arena) + 1>> \o queue
  /\ pending' = Tail(pending)
  /\ UNCHANGED <<call, result, pc>>

\* Mutant: the enqueued index is off by one.
AdmitOffByOne ==
  /\ pc = "children" /\ pending # <<>>
  /\ ~LookupNext.found
  /\ Valid(LookupNext.state)
  /\ arena' = Append(LookupNext.arena, LookupNext.state)
  /\ explored' = AddExplored(Hash(LookupNext.state), Len(arena) + 1)
  /\ queue' = Append(queue, Len(arena) + 2)
  /\ pending' = Tail(pending)
  /\ UNCHANGED <<call, result, pc>>

\* A new valid successor is added to the explored set and enqueued.
Admit ==
  /\ pc = "children" /\ pending # <<>>
  /\ ~LookupNext.found
  /\ Valid(LookupNext.state)
  /\ arena' = Append(LookupNext.arena, LookupNext.state)
  /\ explored' = AddExplored(Hash(LookupNext.state), Len(arena) + 1)
  /\ queue' = Append(queue, Len(arena) + 1)
  /\ pending' = Tail(pending)
  /\ UNCHANGED <<call, result, pc>>

ChildrenDone ==
  /\ pc = "children" /\ pending = <<>>
  /\ pc' = "loop"
  /\ UNCHANGED <<call, arena, explored, queue, pending, result>>

\* The queue is empty: BfsFind failed to reach a goal, BfsFindAll succeeds.
QueueEmpty ==
  /\ pc = "loop" /\ queue = <<>>
  /\ result' = [result EXCEPT !.success = (call.algorithm = "BfsFindAll")]
  /\ pc' = "done"
  /\ UNCHANGED <<call, arena, explored, queue, pending>>

Next ==
  \/ FoundGoal \/ Dequeue
  \/ SkipExplored \/ ReportInvalid \/ Admit \/ ChildrenDone
  \/ QueueEmpty

\* The search runs on one goroutine and never waits: it keeps stepping.
Spec == Init /\ [][Next]_vars /\ WF_vars(Next)

(* ------------------------------ FindPath ------------------------------- *)

\* FindPath: the States from the root to s, following Prev.
RECURSIVE PathTo(_)
PathTo(s) == IF s.prev = NoPrev THEN <<s>> ELSE Append(PathTo(arena[s.prev]), s)

(* ----------------------------- properties ------------------------------ *)

TypeOK ==
  /\ call.algorithm \in {"BfsFind", "BfsFindAll"}
  /\ pc \in {"loop", "children", "done"}
  /\ Range(queue) \subseteq DOMAIN arena
  /\ DOMAIN explored \subseteq 0..HashMod - 1
  /\ result.n \in Nat /\ result.success \in BOOLEAN
  /\ Range(result.targets) \subseteq DOMAIN arena /\ Len(result.invalidate) <= 1

\* Deduplication through Hash() buckets and State.Equals (with its in-place
\* hash sort) never lets a step admit a State that stands for the same node
\* table and bag of messages as one the search already keeps.
NoConfigAdmittedTwice ==
  [][Len(arena') > Len(arena) =>
       \A i \in DOMAIN arena : Config(arena[i]) # Config(arena'[Len(arena')])]_vars

GoalIn(c) == Goal(call.goal, c.nodes)

\* When BfsFindAll succeeds, it has visited every configuration reachable
\* within the depth bound exactly once (N counts them), and its targets are
\* exactly the reachable goal configurations.
FindAllExact ==
  pc = "done" /\ call.algorithm = "BfsFindAll" /\ result.success =>
    LET R == Reach(call.root, call.limit)
    IN /\ {Config(arena[i]) : i \in DOMAIN arena} = R
       /\ result.n = Cardinality(R)
       /\ {Config(arena[t]) : t \in Range(result.targets)} = {c \in R : GoalIn(c)}

\* BfsFind's answer is right: a target is a goal at the least depth any goal
\* is reachable at, and a search that ends with neither target nor invalid
\* State has no goal within the bound.
FindAnswersGoal ==
  pc = "done" /\ call.algorithm = "BfsFind" =>
    /\ result.success =>
         LET t == arena[result.targets[1]]
         IN /\ Goal(call.goal, t.nodes)
            /\ \A c \in Reach(call.root, t.depth - 1) : ~GoalIn(c)
    /\ (~result.success /\ result.invalidate = <<>> /\ call.limit >= 0) =>
         \A c \in Reach(call.root, call.limit) : ~GoalIn(c)

\* Every State a search reports -- a target or the invalid State -- replays:
\* FindPath leads from the root through Depth engine steps, each to a
\* reference successor, and an invalid State fails validate on its last edge.
ReportsReplay ==
  pc = "done" =>
    \A s \in {arena[t] : t \in Range(result.targets)} \cup Range(result.invalidate) :
      LET p == PathTo(s)
      IN /\ Config(p[1]) = Config(call.root)
         /\ Len(p) = s.depth + 1
         /\ \A i \in 1..Len(p) - 1 : Config(p[i + 1]) \in RefSuccessors(call.root, Config(p[i]))
         /\ s \in Range(result.invalidate) => ~Valid(s)

\* Every search returns.
Terminates == <>(pc = "done")

=============================================================================
