----------------------------- MODULE RandomWalk -----------------------------
(***************************************************************************)
(* RandomWalkFind, RandomWalkValidate, BatchRandomWalkFind and            *)
(* BatchRandomWalkValidate of part5_pkg/base/search.go, one loop          *)
(* iteration per step, over State.RandomNextState.  Every choice rand     *)
(* makes is a nondeterministic choice of the model, so a behaviour is one *)
(* possible run and TLC covers every run the bounds allow.                *)
(*                                                                         *)
(* A walk is a chain: the States of the current trial are kept in trail,  *)
(* and a State's Prev is its index there (NoPrev for the root).           *)
(***************************************************************************)
EXTENDS EngineRef

CONSTANTS
  Roots,              \* initial States built by NewState / AddNode / Receive
  Limits,             \* depth bounds the caller passes (>= 0)
  Batches,            \* batch sizes the Batch* variants are called with
  ValidateNames,      \* validate predicates the caller passes ...
  Validate(_, _, _),  \* ... Validate(name, newState, its Prev or itself)
  GoalNames,          \* goal predicates the caller passes ...
  Goal(_, _)          \* ... Goal(name, node table of the state)

VARIABLES
  call,    \* [algorithm, root, limit, batch, validate, goal]: the arguments
  trial,   \* the batch loop's i, from 1
  trail,   \* the States of the current walk, root first
  res,     \* the SearchResult of the current single walk
  result,  \* the SearchResult the call returns
  pc       \* "walk", "trialDone", "done", or "panic" (rand.Intn(0))

vars == <<call, trial, trail, res, result, pc>>

Algorithms == {"RandomWalkFind", "RandomWalkValidate",
               "BatchRandomWalkFind", "BatchRandomWalkValidate"}

\* SearchResult; Targets and Invalidate are sequences of States (nil is <<>>).
NoResult == [success |-> FALSE, targets |-> <<>>, invalidate |-> <<>>, n |-> 0]

Cur == trail[Len(trail)]

ParentOf(s) == IF s.prev = NoPrev THEN s ELSE trail[s.prev]

Valid(s) == Validate(call.validate, s, ParentOf(s))

IsFind == call.algorithm \in {"RandomWalkFind", "BatchRandomWalkFind"}

IsBatch == call.algorithm \in {"BatchRandomWalkFind", "BatchRandomWalkValidate"}

Init ==
  /\ \E a \in Algorithms, root \in Roots, limit \in Limits, b \in Batches,
        v \in ValidateNames, g \in GoalNames :
       call = [algorithm |-> a, root |-> root, limit |-> limit,
               batch |-> IF a \in {"RandomWalkFind", "RandomWalkValidate"} THEN 1 ELSE b,
               validate |-> v, goal |-> g]
  /\ trial = 1
  /\ trail = <<call.root>>
  /\ res = NoResult
  /\ result = NoResult
  /\ pc = "walk"

(* ------------------------- the single walk ----------------------------- *)

\* "for state.Depth <= depth": the walk is over once a State lies past it.
InBound == Cur.depth <= call.limit

\* The current State fails validate: the walk returns it.
WalkInvalid ==
  /\ pc = "walk" /\ InBound /\ ~Valid(Cur)
  /\ res' = [res EXCEPT !.success = FALSE, !.targets = <<>>, !.invalidate = <<Cur>>]
  /\ pc' = "trialDone"
  /\ UNCHANGED <<call, trial, trail, result>>

\* Mutant: the goal is tested before validate.
WalkGoalUnvalidated ==
  /\ pc = "walk" /\ InBound
  /\ IsFind /\ Goal(call.goal, Cur.nodes)
  /\ res' = [res EXCEPT !.success = TRUE, !.targets = Append(@, Cur)]
  /\ pc' = "trialDone"
  /\ UNCHANGED <<call, trial, trail, result>>

\* RandomWalkFind returns the first valid State that satisfies the goal.
WalkGoal ==
  /\ pc = "walk" /\ InBound /\ Valid(Cur)
  /\ IsFind /\ Goal(call.goal, Cur.nodes)
  /\ res' = [res EXCEPT !.success = TRUE, !.targets = Append(@, Cur)]
  /\ pc' = "trialDone"
  /\ UNCHANGED <<call, trial, trail, result>>

\* RandomWalkValidate keeps the last goal State it passes.
RecordGoal(r) ==
  IF ~IsFind /\ Goal(call.goal, Cur.nodes) THEN [r EXCEPT !.targets = <<Cur>>] ELSE r

\* "state = state.RandomNextState()".
WalkStep ==
  /\ pc = "walk" /\ InBound /\ Valid(Cur)
  /\ ~(IsFind /\ Goal(call.goal, Cur.nodes))
  /\ \E o \in RandomNextState(Cur, Len(trail)) :
       IF o.panic THEN /\ pc' = "panic" /\ UNCHANGED <<trail, res>>
       ELSE /\ trail' = Append(trail, o.state)
            /\ res' = RecordGoal(res)
            /\ UNCHANGED pc
  /\ UNCHANGED <<call, trial, result>>

\* The bound is exhausted: RandomWalkFind returns its zero result,
\* RandomWalkValidate success with N the depth of the last State.
WalkOut ==
  /\ pc = "walk" /\ ~InBound
  /\ res' = IF IsFind THEN res ELSE [res EXCEPT !.success = TRUE, !.n = Cur.depth]
  /\ pc' = "trialDone"
  /\ UNCHANGED <<call, trial, trail, result>>

(* --------------------------- the batch loop ---------------------------- *)

NextTrial ==
  /\ trial' = trial + 1
  /\ trail' = <<call.root>>
  /\ res' = NoResult
  /\ pc' = "walk"

\* The single-walk functions return the walk's result as it is.
SingleDone ==
  /\ pc = "trialDone" /\ ~IsBatch
  /\ result' = res
  /\ pc' = "done"
  /\ UNCHANGED <<call, trial, trail, res>>

\* BatchRandomWalkFind: the first successful trial is returned with N = i;
\* any other trial is discarded.
BatchFindTrialDone ==
  /\ pc = "trialDone" /\ call.algorithm = "BatchRandomWalkFind"
  /\ IF res.success
     THEN /\ result' = [res EXCEPT !.n = trial]
          /\ pc' = "done" /\ UNCHANGED <<trial, trail, res>>
     ELSE IF trial = call.batch
     THEN /\ result' = [result EXCEPT !.n = call.batch, !.success = FALSE]
          /\ pc' = "done" /\ UNCHANGED <<trial, trail, res>>
     ELSE NextTrial /\ UNCHANGED result
  /\ UNCHANGED call

\* Mutant: N is overwritten by each trial instead of added up.
BatchValidateOverwriteN ==
  /\ pc = "trialDone" /\ call.algorithm = "BatchRandomWalkValidate"
  /\ IF ~res.success
     THEN /\ result' = res
          /\ pc' = "done" /\ UNCHANGED <<trial, trail, res>>
     ELSE LET acc == [result EXCEPT !.targets = IF res.targets # <<>>
                                               THEN Append(@, res.targets[1]) ELSE @,
                                    !.n = res.n]
          IN IF trial = call.batch
             THEN /\ result' = [acc EXCEPT !.success = TRUE]
                  /\ pc' = "done" /\ UNCHANGED <<trial, trail, res>>
             ELSE NextTrial /\ result' = acc
  /\ UNCHANGED call

\* BatchRandomWalkValidate: the first failed trial is returned as it is;
\* a successful one contributes its goal State and its N.
BatchValidateTrialDone ==
  /\ pc = "trialDone" /\ call.algorithm = "BatchRandomWalkValidate"
  /\ IF ~res.success
     THEN /\ result' = res
          /\ pc' = "done" /\ UNCHANGED <<trial, trail, res>>
     ELSE LET acc == [result EXCEPT !.targets = IF res.targets # <<>>
                                               THEN Append(@, res.targets[1]) ELSE @,
                                    !.n = @ + res.n]
          IN IF trial = call.batch
             THEN /\ result' = [acc EXCEPT !.success = TRUE]
                  /\ pc' = "done" /\ UNCHANGED <<trial, trail, res>>
             ELSE NextTrial /\ result' = acc
  /\ UNCHANGED call

Next ==
  \/ WalkInvalid \/ WalkGoal \/ WalkStep \/ WalkOut
  \/ SingleDone \/ BatchFindTrialDone \/ BatchValidateTrialDone

Spec == Init /\ [][Next]_vars /\ WF_vars(Next)

\* FindPath: follow Prev back to the root; the path reads root first.
RECURSIVE PathTo(_)
PathTo(s) == IF s.prev = NoPrev THEN <<s>> ELSE Append(PathTo(trail[s.prev]), s)

(* ----------------------------- properties ------------------------------ *)

TypeOK ==
  /\ call.algorithm \in Algorithms /\ call.root \in Roots /\ call.limit \in Limits
  /\ trial \in 1..call.batch
  /\ Len(trail) \in 1..call.limit + 2
  /\ pc \in {"walk", "trialDone", "done", "panic"}
  /\ result.n \in Nat

\* A random walk that reports success hands back a goal State within the
\* bound whose FindPath trace starts at the initial State, takes one step
\* per depth level, and passes validate at every State along it -- the
\* check order in RandomWalkFind (validate, then goal, then step) is what
\* makes the reported trace a valid witness.
FindTraceValid ==
  (pc = "done" /\ IsFind /\ result.success) =>
    LET t == result.targets[1]
        path == PathTo(t)
    IN /\ Goal(call.goal, t.nodes) /\ t.depth <= call.limit
       /\ path[1] = call.root
       /\ Len(path) = t.depth - call.root.depth + 1
       /\ \A k \in 1..Len(path) : Validate(call.validate, path[k], ParentOf(path[k]))

\* A successful BatchRandomWalkValidate ran every trial to the end of the
\* bound: its N adds up the final depth of each of the batch walks, and
\* each target it collected is a goal State, at most one per trial.
ValidateAccounts ==
  (pc = "done" /\ call.algorithm = "BatchRandomWalkValidate" /\ result.success) =>
    /\ result.n = call.batch * (call.limit + 1)
    /\ Len(result.targets) <= call.batch
    /\ \A k \in 1..Len(result.targets) : Goal(call.goal, result.targets[k].nodes)

\* A trial that ends on an invalid State ends the call, and the call
\* reports that State (spec sections 4.2 and 7: a protocol violation is
\* surfaced as SearchResult{success: false, invalidate}).
InvalidReported ==
  [][pc = "trialDone" /\ res.invalidate # <<>> =>
       pc' = "done" /\ result'.invalidate = res.invalidate /\ ~result'.success]_vars

\* Every step of a walk is one NextStates would take: RandomNextState
\* "implements the same semantics" (spec section 4.1) under the State's
\* drop-off and duplication settings.
WalkFollowsNextStates ==
  \A k \in 2..Len(trail) : Config(trail[k]) \in RefSuccessors(call.root, Config(trail[k - 1]))

\* A walk never crashes: RandomNextState always has something to pick.
NoPanic == pc # "panic"


=============================================================================
