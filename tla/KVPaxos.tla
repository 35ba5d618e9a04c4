------------------------------- MODULE KVPaxos -------------------------------
(***************************************************************************)
(* The Paxos-replicated key/value servers of src/src/kvpaxos/server.go.   *)
(*                                                                         *)
(* Each server turns a Get or Put into an Op, proposes it with             *)
(* px.Start(committedSeq+1, op), waits in getLog until Status reports the  *)
(* instance decided, applies the decided Op, and goes on to the next       *)
(* instance until its own Op comes back; autoUpdate catches up to Max()    *)
(* under the same kv.mu.  latestRequests keeps, per client, the response   *)
(* to the latest Op applied, and answers a retried request from it.        *)
(*                                                                         *)
(* The Paxos library (modelled on its own in PaxosLib) appears through its *)
(* abstract promise, PaxosConsensus: an instance decides one of the values *)
(* proposed for it, and is forgotten once below Min().  The clerk is not   *)
(* in the repository: as the lab's clerk does, it sends each request with  *)
(* its ClientId and a new, larger Timestamp and retries it, at any server, *)
(* until it has a reply.  Requests stay in the pool `requests`, so a retry,*)
(* a duplicate and a long-delayed request are all deliveries of one        *)
(* message; a request never delivered is a lost one.                       *)
(***************************************************************************)
EXTENDS Naturals, Integers, FiniteSets, Sequences

CONSTANTS
  Servers,   \* the kvpaxos servers (and their Paxos peers)
  Clients,   \* ClientId of each clerk
  Keys,      \* the keys the clerks use
  Vals,      \* the values clerks Put, as positive integers
  HashMod,   \* range of the stand-in for strconv.Itoa(hash(...))
  MaxTs,     \* requests per clerk
  MaxSeq,    \* bound on the Paxos instances used
  None       \* no Op / no request

ASSUME Vals \subseteq Nat \ {0}

\* A string value; 0 is "".
Str == 0..Cardinality(Vals) + HashMod

NoKey == -1   \* a key absent from kv.db

\* strconv.Itoa(int(hash(value + op.Value))): hash is FNV-32 over the
\* concatenation (common.go); a non-empty string whatever its input.
Hash(a, b) == Cardinality(Vals) + 1 + ((a + b) % HashMod)

Instances == 1..MaxSeq

\* type Op struct {Timestamp, ClientID, Type, Key, Value}
MkOp(ts, c, type, k, v) == [Timestamp |-> ts, ClientID |-> c, Type |-> type, Key |-> k, Value |-> v]

Ops == {MkOp(ts, c, "GET", k, 0) : ts \in 1..MaxTs, c \in Clients, k \in Keys}
       \cup {MkOp(ts, c, t, k, v) : ts \in 1..MaxTs, c \in Clients, t \in {"PUT", "PUTHASH"},
                                     k \in Keys, v \in Vals}

\* type Response struct {timestamp, err, value}
Response(ts, err, value) == [timestamp |-> ts, err |-> err, value |-> value]

Errs == {"", "ErrNoKey", "OutdatedRequest"}

VARIABLES
  db,             \* kv.db of each server
  committedSeq,   \* kv.committedSeq of each server
  latestRequests, \* kv.latestRequests of each server (ClientID -> Response)
  busy,           \* who holds kv.mu: [pc |-> "idle"], a writeLog, or autoUpdate
  proposed,       \* <<seq, op>> pairs given to px.Start, for undecided instances
  decided,        \* decided[i]: the Op Paxos instance i decided, or None
  done,           \* done[s]: the highest px.Done argument of server s, -1 if none
  requests,       \* the pool of requests clerks have sent
  replies,        \* the replies servers have sent: [op, err, value]
  pending         \* pending[c]: the clerk's outstanding Op, or None

vars == <<db, committedSeq, latestRequests, busy, proposed, decided, done, requests, replies, pending>>

\* Min(): one more than the lowest Done() of any peer.  Taking every
\* server's latest Done() at once is the most a peer can have learned.
Min == LET low == CHOOSE x \in {done[s] : s \in Servers} : \A s \in Servers : x <= done[s]
       IN low + 1

\* Status(seq) of a peer that has learned the decision: decided and not
\* forgotten.
Learned(i) == i \in Instances /\ decided[i] # None /\ i >= Min

\* px.Start(seq, op): nothing if seq < Min(), else op is proposed for seq.
\* A proposal for an instance already decided can no longer win (its
\* goroutine finds the decision and stops), so it is not kept.
Start(seq, op) ==
  proposed' = IF seq < Min \/ decided[seq] # None THEN proposed ELSE proposed \cup {<<seq, op>>}

\* Mutant: the server declares done the instance after seq.
DoneNext(s, seq) == done' = [done EXCEPT ![s] = IF seq + 1 > @ THEN seq + 1 ELSE @]

\* px.Done(seq) of server s.
Done(s, seq) == done' = [done EXCEPT ![s] = IF seq > @ THEN seq ELSE @]

\* executeLog(op) on a db: the new db and the (err, value) it returns.
executeLog(d, op) ==
  CASE op.Type = "GET" ->
         [db |-> d, err |-> IF d[op.Key] = NoKey THEN "ErrNoKey" ELSE "",
          value |-> IF d[op.Key] = NoKey THEN 0 ELSE d[op.Key]]
    [] op.Type = "PUT" ->
         [db |-> [d EXCEPT ![op.Key] = op.Value], err |-> "", value |-> 0]
    [] op.Type = "PUTHASH" ->
         LET prev == IF d[op.Key] = NoKey THEN 0 ELSE d[op.Key]
         IN [db |-> [d EXCEPT ![op.Key] = Hash(prev, op.Value)], err |-> "", value |-> prev]

\* The reply to the clerk from writeLog's (err, value): Get sends both, Put
\* only PreviousValue (with DoHash; writeLog's value for a PUT is "").  The
\* err of a Put is kept here though Put drops it, so that a refused
\* (OutdatedRequest) reply can be told apart.
Reply(op, err, value) == [op |-> op, err |-> err, value |-> value]

\* Mutant: the response is not recorded for the applied Op.
ApplyKeepsLatest(s) ==
  LET r == executeLog(db[s], decided[committedSeq[s] + 1])
  IN [op |-> decided[committedSeq[s] + 1], db |-> r.db, err |-> r.err, value |-> r.value,
      latest |-> latestRequests[s]]

\* One iteration's apply: getLog(seq) returned, executeLog ran, and the
\* response was recorded for the returned Op's client.
Apply(s) ==
  LET seq == committedSeq[s] + 1
      op == decided[seq]
      r == executeLog(db[s], op)
  IN [op |-> op, db |-> r.db, err |-> r.err, value |-> r.value,
      latest |-> [c \in DOMAIN latestRequests[s] \cup {op.ClientID} |->
                    IF c = op.ClientID THEN Response(op.Timestamp, r.err, r.value)
                    ELSE latestRequests[s][c]]]

\* Mutant: the loop ends at any Op of the same client.
SameOpClientOnly(a, b) == a.ClientID = b.ClientID

\* writeLog's test that the returned Op is the one it is writing.
SameOp(a, b) == a.ClientID = b.ClientID /\ a.Timestamp = b.Timestamp

(* ------------------------------- actions ------------------------------- *)

\* The clerk c starts its next request, with a new Timestamp.
ClerkRequest(c, op) ==
  /\ pending[c] = None
  /\ op.ClientID = c
  /\ op.Timestamp = 1 + Cardinality({m \in requests : m.ClientID = c})
  /\ pending' = [pending EXCEPT ![c] = op]
  /\ requests' = requests \cup {op}
  /\ UNCHANGED <<db, committedSeq, latestRequests, busy, proposed, decided, done, replies>>

\* The clerk gets a reply to its outstanding request.
ClerkReply(c) ==
  /\ pending[c] # None
  /\ \E r \in replies : r.op = pending[c]
  /\ pending' = [pending EXCEPT ![c] = None]
  /\ UNCHANGED <<db, committedSeq, latestRequests, busy, proposed, decided, done, requests, replies>>

\* Get or Put on server s takes kv.mu and enters writeLog: a retried
\* request is answered from latestRequests, an older one is refused, and
\* anything else is proposed at committedSeq+1.
Handle(s, op) ==
  /\ busy[s].pc = "idle"
  /\ op \in requests
  /\ LET seen == op.ClientID \in DOMAIN latestRequests[s]
         latest == latestRequests[s][op.ClientID]
     IN \/ /\ seen /\ op.Timestamp = latest.timestamp
           /\ replies' = replies \cup {Reply(op, latest.err, latest.value)}
           /\ UNCHANGED <<busy, proposed>>
        \/ /\ seen /\ op.Timestamp < latest.timestamp
           /\ replies' = replies \cup {Reply(op, "OutdatedRequest", 0)}
           /\ UNCHANGED <<busy, proposed>>
        \/ /\ seen => op.Timestamp > latest.timestamp
           /\ committedSeq[s] < MaxSeq
           /\ Start(committedSeq[s] + 1, op)
           /\ busy' = [busy EXCEPT ![s] = [pc |-> "write", op |-> op]]
           /\ UNCHANGED replies
  /\ UNCHANGED <<db, committedSeq, latestRequests, decided, done, requests, pending>>

\* writeLog's loop body once getLog(seq) returns: apply the instance; if it
\* is the server's own Op call Done and reply, else Start the next instance.
WriteStep(s) ==
  /\ busy[s].pc = "write"
  /\ Learned(committedSeq[s] + 1)
  /\ LET a == Apply(s)
         op == busy[s].op
         mine == SameOp(a.op, op)
     IN /\ db' = [db EXCEPT ![s] = a.db]
        /\ latestRequests' = [latestRequests EXCEPT ![s] = a.latest]
        /\ committedSeq' = [committedSeq EXCEPT ![s] = @ + 1]
        /\ IF mine
           THEN /\ Done(s, committedSeq[s] + 1)
                /\ replies' = replies \cup {Reply(op, a.err, a.value)}
                /\ busy' = [busy EXCEPT ![s] = [pc |-> "idle"]]
                /\ UNCHANGED proposed
           ELSE /\ committedSeq[s] + 1 < MaxSeq
                /\ Start(committedSeq[s] + 2, op)
                /\ UNCHANGED <<replies, busy, done>>
  /\ UNCHANGED <<decided, requests, pending>>

\* autoUpdate takes kv.mu and reads Max(), the highest instance this peer
\* has seen decided (-1 if none): with nothing to catch up it calls Done
\* and unlocks, else it starts applying up to Max().
AutoUpdate(s) ==
  /\ busy[s].pc = "idle"
  /\ \E max \in {-1} \cup {i \in Instances : decided[i] # None} :
       IF max <= committedSeq[s]
       THEN /\ Done(s, committedSeq[s])
            /\ UNCHANGED busy
       ELSE /\ busy' = [busy EXCEPT ![s] = [pc |-> "auto", max |-> max]]
            /\ UNCHANGED done
  /\ UNCHANGED <<db, committedSeq, latestRequests, proposed, decided, requests, replies, pending>>

\* autoUpdate's loop body once getLog returns; after the last instance it
\* calls Done and unlocks.
AutoStep(s) ==
  /\ busy[s].pc = "auto"
  /\ Learned(committedSeq[s] + 1)
  /\ LET a == Apply(s) IN
     /\ db' = [db EXCEPT ![s] = a.db]
     /\ latestRequests' = [latestRequests EXCEPT ![s] = a.latest]
     /\ committedSeq' = [committedSeq EXCEPT ![s] = @ + 1]
     /\ IF committedSeq[s] + 1 = busy[s].max
        THEN /\ Done(s, committedSeq[s] + 1)
             /\ busy' = [busy EXCEPT ![s] = [pc |-> "idle"]]
        ELSE UNCHANGED <<done, busy>>
  /\ UNCHANGED <<proposed, decided, requests, replies, pending>>

\* The Paxos peers agree on instance i: one of the values started for it
\* (PaxosConsensus's Choose; no kvpaxos server reads an instance after it
\* called Done on it, so the re-choice the abstraction allows then is left
\* out).
Decide(i) ==
  /\ decided[i] = None
  /\ \E p \in proposed :
       /\ p[1] = i
       /\ decided' = [decided EXCEPT ![i] = p[2]]
  /\ proposed' = {p \in proposed : p[1] # i}
  /\ UNCHANGED <<db, committedSeq, latestRequests, busy, done, requests, replies, pending>>

\* StartServer: empty db and latestRequests, committedSeq 0; Make: doneMap -1.
Init ==
  /\ db = [s \in Servers |-> [k \in Keys |-> NoKey]]
  /\ committedSeq = [s \in Servers |-> 0]
  /\ latestRequests = [s \in Servers |-> [c \in {} |-> Response(0, "", 0)]]
  /\ busy = [s \in Servers |-> [pc |-> "idle"]]
  /\ proposed = {}
  /\ decided = [i \in Instances |-> None]
  /\ done = [s \in Servers |-> -1]
  /\ requests = {}
  /\ replies = {}
  /\ pending = [c \in Clients |-> None]

Next ==
  \/ \E c \in Clients : ClerkReply(c) \/ \E op \in Ops : ClerkRequest(c, op)
  \/ \E s \in Servers : \/ \E op \in requests : Handle(s, op)
                        \/ WriteStep(s) \/ AutoUpdate(s) \/ AutoStep(s)
  \/ \E i \in Instances : Decide(i)

Spec == Init /\ [][Next]_vars

(* ----------------------------- properties ------------------------------ *)

\* The type invariant.  Its bound on done[s] also says a server never
\* passes px.Done an instance it has not applied: getLog loops on Status
\* holding kv.mu, and an instance it still waits on that Min() had passed
\* would be forgotten and never reported decided.
TypeOK ==
  /\ \A s \in Servers :
       /\ db[s] \in [Keys -> Str \cup {NoKey}]
       /\ committedSeq[s] \in 0..MaxSeq
       /\ DOMAIN latestRequests[s] \subseteq Clients
       /\ busy[s].pc \in {"idle", "write", "auto"}
       /\ done[s] \in -1..committedSeq[s]
  /\ proposed \subseteq Instances \X Ops
  /\ decided \in [Instances -> Ops \cup {None}]
  /\ requests \subseteq Ops
  /\ \A r \in replies : r.op \in requests /\ r.err \in Errs /\ r.value \in Str

\* The key/value semantics the lab asks for, applied to the decided log
\* in order: the store after instances 1..n.
RECURSIVE RefStore(_)
RefStore(n) ==
  IF n = 0 THEN [k \in Keys |-> NoKey]
  ELSE LET d == RefStore(n - 1)
           op == decided[n]
       IN IF op.Type = "GET" THEN d
          ELSE [d EXCEPT ![op.Key] = IF op.Type = "PUT" THEN op.Value
                                     ELSE Hash(IF @ = NoKey THEN 0 ELSE @, op.Value)]

\* The answer the clerk is owed for the Op at instance n: Get's value (or
\* ErrNoKey), PutHash's previous value ("" if none).
RefReply(n) ==
  LET op == decided[n]
      prev == RefStore(n - 1)[op.Key]
  IN [op |-> op,
      err |-> IF op.Type = "GET" /\ prev = NoKey THEN "ErrNoKey" ELSE "",
      value |-> IF op.Type = "PUT" \/ prev = NoKey THEN 0 ELSE prev]

\* A request a clerk sent once, and retried at any server after a lost
\* reply, or that arrived again late, is decided at one instance at most:
\* writeLog must find it through latestRequests or by walking the log
\* before it proposes it again.
AtMostOnce ==
  \A i, j \in Instances :
    /\ decided[i] # None /\ decided[j] # None
    /\ decided[i].ClientID = decided[j].ClientID
    /\ decided[i].Timestamp = decided[j].Timestamp
    => i = j

\* Every reply a server sends, fresh or from latestRequests, for a request
\* it did not refuse as outdated, is the answer owed to that request at the
\* first instance that decided it, on the store the decided log before it
\* builds: the service behaves as one store applying each request once.
RepliesMatchLog ==
  \A r \in replies :
    r.err # "OutdatedRequest" =>
      \E n \in Instances :
        /\ decided[n] = r.op
        /\ \A m \in 1..n - 1 : decided[m] # None /\ decided[m] # r.op
        /\ r = RefReply(n)

=============================================================================
