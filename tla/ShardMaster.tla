---------------------------- MODULE ShardMaster ----------------------------
(***************************************************************************)
(* The shard master of src/src/shardmaster/server.go: replicas that apply  *)
(* the operations a Paxos log has decided, in log order, each to its own   *)
(* list of configurations.                                                 *)
(*                                                                         *)
(* ProcessOp runs under sm.mu: it applies the decided instances after      *)
(* seqNum, proposes its own operation at the first undecided instance and  *)
(* goes on until its own operation is applied.  Instances are decided as a *)
(* prefix (a replica proposes at seqNum+1 only after applying everything   *)
(* before it), so the log is a sequence and a request appends to it; a     *)
(* proposal that loses an instance is retried at the next one, which is    *)
(* the same as being appended after the winner.  The Paxos library itself *)
(* is not modelled here.                                                   *)
(*                                                                         *)
(* LoadBalance iterates Go maps; Go randomises map order on every range,   *)
(* so each application may take any order of the counter's keys.  A group *)
(* is its GID: the servers of a group play no part in the rebalancing.     *)
(***************************************************************************)
EXTENDS Naturals, FiniteSets, Sequences, SequencesExt

CONSTANTS
  NShards,     \* shardmaster.NShards
  Gids,        \* the replica group ids the clients use (model values)
  MoveShards,  \* the shards the clients move
  Replicas,    \* the shard master servers
  MaxLog       \* bound on the number of decided instances

Shard == 0..NShards-1

\* The operations of Join, Leave, Move and Query (Op without Servers/Pid).
Op(kind, g, s) == [Op |-> kind, GID |-> g, Shard |-> s]

Ops == {Op("Join", g, 0) : g \in Gids} \cup {Op("Leave", g, 0) : g \in Gids}
       \cup {Op("Move", g, s) : g \in Gids, s \in MoveShards} \cup {Op("Query", 0, 0)}

\* Config{Num, Shards [NShards]int64, Groups}; 0 is the unassigned GID.
Config(n, shards, groups) == [Num |-> n, Shards |-> shards, Groups |-> groups]

\* StartServer: configs[0] with every shard on GID 0 and no group.
InitialConfig == Config(0, [s \in Shard |-> 0], {})

VARIABLES
  log,      \* the decided Paxos instances, in order
  configs,  \* sm.configs of each replica
  seqNum,   \* sm.seqNum of each replica
  crashed   \* replicas whose process died in a panic

vars == <<log, configs, seqNum, crashed>>

\* Mutant: the copy keeps the number of the configuration it copies.
NewConfigSameNum(cs) == Last(cs)

\* NewConfig: a copy of the latest configuration numbered len(sm.configs).
NewConfig(cs) == [Last(cs) EXCEPT !.Num = Len(cs)]

Holds(cfg, g) == {s \in Shard : cfg.Shards[s] = g}

\* counter: every group, and every GID a shard is on, with its shard count.
Counter(cfg) ==
  [g \in cfg.Groups \cup ({cfg.Shards[s] : s \in Shard} \ {0}) |-> Cardinality(Holds(cfg, g))]

\* Mutant: reminder is never spent.
TrimNoReminder(c, rem) == [c |-> c, rem |-> rem]

\* "if count > avgNum { if reminder > 0 {count--; reminder--} ...}": a
\* group above the average keeps one extra shard while reminder lasts.
Trim(c, rem) == IF rem > 0 THEN [c |-> c - 1, rem |-> rem - 1] ELSE [c |-> c, rem |-> rem]

\* The join branch (no unassigned shard), over one order of the counter:
\* groups above the average give their surplus to the (last) empty group.
JoinScan(counter, avg, acc, g) ==
    IF counter[g] > avg
    THEN LET t == Trim(counter[g], acc.rem)
         IN IF t.c = avg THEN [acc EXCEPT !.rem = t.rem]
            ELSE [acc EXCEPT !.rem = t.rem, !.assign = (g :> t.c - avg) @@ acc.assign]
    ELSE IF counter[g] = 0 THEN [acc EXCEPT !.target = g]
    ELSE acc

\* "evenly assign": in shard order, a shard of a group with surplus left
\* moves to targetGid.
JoinMove(target, acc, s) ==
    LET g == acc.shards[s]
    IN IF g \in DOMAIN acc.assign /\ acc.assign[g] > 0
       THEN [assign |-> [acc.assign EXCEPT ![g] = @ - 1],
             shards |-> [acc.shards EXCEPT ![s] = target]]
       ELSE acc

\* The leave (or first join) branch: the first group at or below the
\* average that reminder does not settle takes EVERY unassigned shard --
\* count is not updated inside the loop, so "0 < avgNum-count" never ends
\* it early.
LeaveScan(counter, avg, acc, g) ==
    IF counter[g] <= avg
    THEN LET t == Trim(counter[g], acc.rem)
         IN IF t.c = avg THEN [acc EXCEPT !.rem = t.rem]
            ELSE [rem |-> t.rem,
                  shards |-> [s \in Shard |-> IF acc.shards[s] = 0 THEN g ELSE acc.shards[s]]]
    ELSE acc

\* LoadBalance on the configuration just appended, for every map order;
\* cfg.Groups is not empty (the caller panics first otherwise).
LoadBalance(cfg) ==
  LET counter == Counter(cfg)
      avg == NShards \div Cardinality(cfg.Groups)
      rem == NShards % Cardinality(cfg.Groups)
      ShardOrder == [i \in 1..NShards |-> i - 1]
      JS(acc, g) == JoinScan(counter, avg, acc, g)
      LS(acc, g) == LeaveScan(counter, avg, acc, g)
  IN { IF Holds(cfg, 0) = {}
       THEN LET a == FoldLeft(JS, [rem |-> rem, assign |-> [g \in {} |-> 0], target |-> 0], o)
                JM(acc, s) == JoinMove(a.target, acc, s)
            IN [cfg EXCEPT !.Shards =
                  FoldLeft(JM, [assign |-> a.assign, shards |-> cfg.Shards], ShardOrder).shards]
       ELSE [cfg EXCEPT !.Shards =
               FoldLeft(LS, [rem |-> rem, shards |-> cfg.Shards], o).shards]
     : o \in SetToSeqs(DOMAIN counter) }

\* Append cfg and balance it: "NShards / len(cfg.Groups)" with no group
\* left is an integer division by zero, a panic that ends the process.
AppendBalanced(cs, cfg) ==
  IF cfg.Groups = {} THEN {[ok |-> FALSE, configs |-> cs]}
  ELSE {[ok |-> TRUE, configs |-> Append(cs, b)] : b \in LoadBalance(cfg)}

\* ProcessHelper(op): the set of outcomes.
ProcessHelper(cs, op) ==
  LET cfg == NewConfig(cs) IN
  CASE op.Op = "Join" ->
         IF op.GID \in Last(cs).Groups THEN {[ok |-> TRUE, configs |-> cs]}
         ELSE AppendBalanced(cs, [cfg EXCEPT !.Groups = @ \cup {op.GID}])
    [] op.Op = "Leave" ->
         AppendBalanced(cs, [cfg EXCEPT !.Shards = [s \in Shard |-> IF cfg.Shards[s] = op.GID THEN 0
                                                                 ELSE cfg.Shards[s]],
                                        !.Groups = @ \ {op.GID}])
    [] op.Op = "Move" ->
         {[ok |-> TRUE, configs |-> Append(cs, [cfg EXCEPT !.Shards[op.Shard] = op.GID])]}
    [] op.Op = "Query" -> {[ok |-> TRUE, configs |-> cs]}

\* ProcessOp's loop over the instances ops, stopping at a panic.
RECURSIVE ApplyLog(_, _)
ApplyLog(res, ops) ==
  IF ops = <<>> \/ ~res.ok THEN {res}
  ELSE UNION {ApplyLog(r, Tail(ops)) : r \in ProcessHelper(res.configs, Head(ops))}

\* Join, Leave, Move or Query at replica r: op is decided at the next
\* instance and r applies every instance from seqNum+1 up to it.
ProcessOp(r, op) ==
  /\ ~crashed[r]
  /\ Len(log) < MaxLog
  /\ log' = Append(log, op)
  /\ \E res \in ApplyLog([ok |-> TRUE, configs |-> configs[r]],
                         SubSeq(log', seqNum[r] + 1, Len(log'))) :
       /\ configs' = [configs EXCEPT ![r] = res.configs]
       /\ seqNum' = [seqNum EXCEPT ![r] = IF res.ok THEN Len(log') ELSE @]
       /\ crashed' = [crashed EXCEPT ![r] = ~res.ok]

Init ==
  /\ log = <<>>
  /\ configs = [r \in Replicas |-> <<InitialConfig>>]
  /\ seqNum = [r \in Replicas |-> 0]
  /\ crashed = [r \in Replicas |-> FALSE]

Next == \E r \in Replicas, op \in Ops : ProcessOp(r, op)

Spec == Init /\ [][Next]_vars

(* ----------------------------- properties ------------------------------ *)

TypeOK ==
  /\ log \in Seq(Ops) /\ Len(log) <= MaxLog
  /\ \A r \in Replicas :
       /\ seqNum[r] \in 0..Len(log)
       /\ \A i \in 1..Len(configs[r]) :
            /\ configs[r][i].Num = i - 1
            /\ configs[r][i].Shards \in [Shard -> Gids \cup {0}]
            /\ configs[r][i].Groups \subseteq Gids

\* Every shard is on a group of the configuration and the groups' shard
\* counts differ by at most one.
Balanced(cfg) ==
  /\ cfg.Groups # {}
  /\ \A s \in Shard : cfg.Shards[s] \in cfg.Groups
  /\ \A a, b \in cfg.Groups : Cardinality(Holds(cfg, a)) <= Cardinality(Holds(cfg, b)) + 1

\* Join's comment: "divide the shards as evenly as possible among the
\* groups, and move as few shards as possible".  Whenever a replica's
\* configuration i+1 adds one group to a balanced configuration i, it is
\* balanced again and every shard that moved went to the new group (so no
\* more shards moved than the new group needs).
JoinKeepsBalance ==
  \A r \in Replicas : \A i \in 1..Len(configs[r]) - 1 :
    LET old == configs[r][i]
        new == configs[r][i + 1]
    IN \A g \in new.Groups \ old.Groups :
         new.Groups = old.Groups \cup {g} /\ Balanced(old) =>
           /\ Balanced(new)
           /\ \A s \in Shard : new.Shards[s] # old.Shards[s] => new.Shards[s] = g

\* The shard master is a replicated state machine: two live replicas that
\* applied the same instances hold the same configurations, so a Query
\* for configuration n has one answer whichever replica serves it.
ReplicasAgree ==
  \A r1, r2 \in Replicas :
    ~crashed[r1] /\ ~crashed[r2] =>
      \A i \in 1..Min({Len(configs[r1]), Len(configs[r2])}) : configs[r1][i] = configs[r2][i]

=============================================================================
